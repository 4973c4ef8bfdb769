------------------------------ MODULE Connection ------------------------------
(***************************************************************************)
(* jay::j1939_connection (j1939_connection.hpp): a socket of a local NAME, *)
(* of a target NAME, of both or of neither, on a network whose addresses   *)
(* change between any two calls, with the transport_protocol it owns.      *)
(*                                                                         *)
(* The socket is external: a write may fail, a read brings any frame of    *)
(* the bus or an error.  The callbacks are set, as the class requires.     *)
(***************************************************************************)
EXTENDS NetworkTable, TransportProtocol

CONSTANTS
  Local, Target,   \* the names that local_name_ and target_name_ are given
  MaxSessions      \* bound: no session is opened beyond this number

ASSUME ConnectionAssumption ==
  /\ Local \subseteq Name
  /\ Target \subseteq Name
  /\ MaxSessions \in Nat

VARIABLES
  net,           \* network_
  local_name,    \* local_name_, NoName for std::nullopt
  target_name,   \* target_name_
  src_addr,      \* src_addr_ of the bus_adapter
  sessions,      \* sessions_ of tp_
  started,       \* start was called: reads are queued and tp_ ticks
  sent,          \* the frames written in the last step
  delivered,     \* the data handed to on_data_ in the last step
  holders        \* history: by session, who held its source address when the
                 \* announcement and the packets came since the target was set

vars == <<net, local_name, target_name, src_addr, sessions, started,
          sent, delivered, holders>>

quiet == sent' = <<>> /\ delivered' = <<>>

Init ==
  /\ net = EmptyTable
  /\ local_name \in Local \cup {NoName}
  /\ target_name \in Target \cup {NoName}
  /\ src_addr = IDLE
  /\ sessions = EmptyMap
  /\ started = FALSE
  /\ sent = <<>>
  /\ delivered = <<>>
  /\ holders = [k \in Key |-> {}]

------------------------------------------------------------------------------
(* Set-up *)

\* start, called once: on_start_, start_tick and the first async_read
start ==
  /\ ~started
  /\ started' = TRUE
  /\ quiet
  /\ UNCHANGED <<net, local_name, target_name, src_addr, sessions, holders>>

set_local_name(n) ==
  /\ local_name' = n
  /\ quiet
  /\ UNCHANGED <<net, target_name, src_addr, sessions, started, holders>>

\* Who held an address is compared with the target from here on.
set_target_name(n) ==
  /\ target_name' = n
  /\ holders' = [k \in Key |-> {}]
  /\ quiet
  /\ UNCHANGED <<net, local_name, src_addr, sessions, started>>

\* Others change the network, which the connection refers to.
network_changes(t) ==
  /\ net' = t
  /\ quiet
  /\ UNCHANGED <<local_name, target_name, src_addr, sessions, started, holders>>

------------------------------------------------------------------------------
(* Write *)

\* network_.get_address(*local_name_).  Reading an empty optional is undefined:
\* whatever name its storage holds is looked up.
local_address ==
  IF local_name = NoName THEN {get_address(net, n) : n \in Name} \cup {NO_ADDR}
                         ELSE {get_address(net, local_name)}

\* write(f): nothing but the frame goes out, unless the socket refuses it.
write(f, fails) ==
  /\ sent' = bus_send(f, 1, fails)
  /\ delivered' = <<>>
  /\ UNCHANGED <<net, local_name, target_name, src_addr, sessions, started, holders>>

\* on_error_ and return false
refuse ==
  /\ quiet
  /\ UNCHANGED <<net, local_name, target_name, src_addr, sessions, started, holders>>

\* A frame of the application with the given PDU format and PS field.
plain_frame(type, src, ps) ==
  [type |-> type, src |-> src, dst |-> ps, total |-> 0, count |-> 0, seq |-> 0,
   hdr |-> 0, data |-> Blank]

\* The source address and PS are replaced.
send_to(n, type, ps, fails) ==
  IF \/ local_name = NoName
     \/ get_address(net, local_name) = IDLE
     \/ get_address(net, n) = IDLE
  THEN refuse
  ELSE write(plain_frame(type, get_address(net, local_name), get_address(net, n)), fails)

is_broadcast(type) == type \in {"PDU2", "COMMANDED"}

\* send(const jay::frame &), and send(const data &) with up to 8 bytes
send_frame(type, ps, fails) ==
  IF is_broadcast(type)
  THEN \E source \in local_address :
         IF source = IDLE THEN refuse ELSE write(plain_frame(type, source, ps), fails)
  ELSE IF target_name = NoName THEN refuse
  ELSE send_to(target_name, type, ps, fails)

\* send(const data &) with more than 8 bytes: to the PS of the header, whoever
\* the target is and whatever PS means in the header's format.
send_data(ps, buf, fails) ==
  \E source \in local_address :
    IF source = IDLE THEN refuse
    ELSE LET e == start_tx(sessions, source, ps, 0, buf, fails)
         IN  /\ src_addr' = source
             /\ sessions' = e.sessions
             /\ sent' = e.out
             /\ delivered' = <<>>
             /\ UNCHANGED <<net, local_name, target_name, started, holders>>

------------------------------------------------------------------------------
(* Read *)

\* Seeded fault: the address of the bus adapter is not brought up to date.
refreshed_address_stale == src_addr

\* What check_address makes of the bus adapter's address.
refreshed_address ==
  IF local_name = NoName THEN src_addr ELSE get_address(net, local_name)

from_target(fr) == target_name = NoName \/ get_address(net, target_name) = fr.src

to_local(fr) ==
  is_broadcast(fr.type) \/ local_name = NoName \/ get_address(net, local_name) = fr.dst

\* Seeded fault: who a frame is from is looked at in broadcasts only.
check_address_any_source(fr) ==
  (is_broadcast(fr.type) => from_target(fr)) /\ to_local(fr)

\* The value of check_address.
check_address(fr) == from_target(fr) /\ to_local(fr)

normal_pgn(fr) == fr.type \in {"PDU1", "PDU2"}

\* on_can_frame is of no effect for frames of other PGNs.
tp_effect(fr, fails) ==
  IF fr.type \in {"PDU1", "PDU2", "NM", "COMMANDED"} THEN nothing(sessions)
  ELSE on_can_frame(sessions, refreshed_address, fr, fails)

\* The holder of an address, NoName if no name in the network is.
holder(a) ==
  LET names == {n \in Name : get_address(net, n) = a}
  IN  IF names = {} THEN {NoName} ELSE names

\* The sources of the session that an accepted frame begins or continues.
sources(fr) ==
  LET k == make_key(fr.src, fr.dst)
  IN  IF target_name = NoName THEN holders
      ELSE IF fr.type \in {"RTS", "BAM"} THEN [holders EXCEPT ![k] = holder(fr.src)]
      ELSE IF fr.type = "DT" /\ sessions[k] # NoSession
      THEN [holders EXCEPT ![k] = @ \cup holder(fr.src)]
      ELSE holders

\* The handler of async_read.  It queues the next read at its end, unless it was
\* called with an error: then the connection reads no more, as if no frame came.
read(fr, fails) ==
  /\ started
  /\ src_addr' = refreshed_address
  /\ IF check_address(fr)
     THEN LET e == tp_effect(fr, fails)
          IN  /\ sessions' = e.sessions
              /\ sent' = e.out
              /\ delivered' = e.up \o (IF normal_pgn(fr)
                                       THEN <<[hdr |-> fr.hdr, buf |-> <<fr.data>>]>>
                                       ELSE <<>>)
              /\ holders' = sources(fr)
     ELSE quiet /\ UNCHANGED <<sessions, holders>>
  /\ UNCHANGED <<net, local_name, target_name, started>>

tp_tick(idle, ks) ==
  /\ started
  /\ LET e == tick(sessions, idle, ks)
     IN  sessions' = e.sessions /\ sent' = e.out
  /\ delivered' = <<>>
  /\ holders' = [k \in Key |-> IF k \in idle THEN {} ELSE holders[k]]
  /\ UNCHANGED <<net, local_name, target_name, src_addr, started>>

------------------------------------------------------------------------------

\* What the bus may bring.  Plain frames for all have PS NO_ADDR.
incoming(type, src, dst, total, count, seq) ==
  [type |-> type, src |-> src, dst |-> dst, total |-> total, count |-> count,
   seq |-> seq, hdr |-> 0, data |-> Blank]

Incoming ==
  {incoming("RTS", a, b, n, 1, 0) : a \in Unicast, b \in Unicast, n \in 2 .. MaxPackets} \cup
  {incoming("BAM", a, NO_ADDR, n, MaxPackets, 0) : a \in Unicast, n \in 2 .. MaxPackets} \cup
  {incoming("CTS", a, b, 0, 1, i) : a \in Unicast, b \in Unicast, i \in 1 .. MaxPackets} \cup
  {incoming("DT", a, b, 0, 0, i) : a \in Unicast, b \in Unicast \cup {NO_ADDR}, i \in 1 .. MaxPackets} \cup
  {incoming(t, a, b, 0, 0, 0) : t \in {"EOM", "ABORT"}, a \in Unicast, b \in Unicast} \cup
  {incoming("PDU1", a, b, 0, 0, 0) : a \in Unicast, b \in Unicast \cup {NO_ADDR}} \cup
  {incoming(t, a, NO_ADDR, 0, 0, 0) : t \in {"PDU2", "NM", "COMMANDED"}, a \in Unicast}

Within(S) == Cardinality(active(S)) <= MaxSessions

\* Bounds: that writes of the transport protocol fail is left to
\* TransportEndpoint; the local name is set before start; long data
\* is not sent without a local name, where the source is undefined.  NM and
\* COMMANDED frames are sent as PDU1 and PDU2 frames are.
Next ==
  \/ start
  \/ ~started /\ \E n \in Local : set_local_name(n)
  \/ \E n \in Target : set_target_name(n)
  \/ \E n \in Name, a \in Unicast \cup {IDLE} : network_changes(insert(net, n, a))
  \/ \E type \in {"PDU1", "PDU2"}, fails \in SUBSET {1} :
       \/ send_frame(type, NO_ADDR, fails)
       \/ ~is_broadcast(type) /\ \E n \in Name : send_to(n, type, NO_ADDR, fails)
  \/ \E ps \in Unicast \cup {NO_ADDR}, n \in 2 .. SeqSize :
       local_name # NoName /\ send_data(ps, blank_buffer(n), {}) /\ Within(sessions')
  \/ \E fr \in Incoming : read(fr, {}) /\ Within(sessions')
  \/ \E idle \in SUBSET active(sessions) \ {{}} : \E ks \in orders(idle) : tp_tick(idle, ks)

Spec == Init /\ [][Next]_vars

------------------------------------------------------------------------------
(* Properties *)

\* Frames that a node sends as itself.  (An abort bears the addresses of its
\* session, and the sender's EOM those of the receiver.)
OwnFrame == {"RTS", "BAM", "CTS", "DT", "PDU1", "PDU2"}

\* Whatever became of the address of the local name since a session was begun
\* or the bus adapter's address was set, what goes out bears the address that
\* the name has now, and nothing goes out when it lost its address: the packets
\* that a late CTS asks for and the CTS that a late packet calls for as well
\* (check_address, send(data), send_to).
SentUnderOwnAddress ==
  local_name # NoName =>
    \A f \in Range(sent) : f.type \in OwnFrame =>
      f.src # IDLE /\ f.src = get_address(net, local_name)

\* A connection with a target does not put a message together from packets of
\* several nodes, though addresses change hands between the announcement and
\* the last packet: all of them came while the target held the source address.
OneSender ==
  target_name # NoName => \A k \in Key : holders[k] \subseteq {target_name}
==============================================================================
