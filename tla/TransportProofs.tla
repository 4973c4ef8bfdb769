--------------------------- MODULE TransportProofs ---------------------------
(***************************************************************************)
(* Properties of one jay::transport_protocol object, proved for any width  *)
(* of the sequence numbers, any addresses, contents and number of sessions *)
(* and any failures of bus::send.                                          *)
(***************************************************************************)
EXTENDS TransportEndpoint, TransportProtocolProofs

------------------------------------------------------------------------------
(* The inductive invariant *)

\* A session's packets 1 to next_seq - 1 came since its announcement, the
\* others are blank.
Holds(s, came) ==
  \A i \in 1 .. s.total :
    IF i <= filled(s) THEN <<i, s.buf[i]>> \in came ELSE s.buf[i] = Blank

\* What is true of the entry of a key in sessions_.  A receiving session is not
\* stored under this node's address as the source, so that no CTS finds it.
Entry(k, s, came) ==
  \/ s = NoSession
  \/ /\ s \in Session
     /\ k = make_key(s.src, s.dst)
     /\ Len(s.buf) = s.total
     /\ s.dir = "Tx" => k[1] = Self
     /\ s.dir = "Rx" => k[1] # Self /\ Holds(s, came)

\* The session may still accept a packet.
Wanting(s) == s.dir = "Rx" /\ s.next \in 1 .. s.total

\* The inductive invariant.  As long as handle_dt can accept a packet, the
\* message was not delivered.
Sound ==
  /\ sessions = [k \in Key |-> sessions[k]]
  /\ since \in [Key -> SUBSET (Number \X Data)]
  /\ open \subseteq Key
  /\ \A k \in Key : Entry(k, sessions[k], since[k])
  /\ \A k \in Key : Wanting(sessions[k]) => k \in open

\* The addresses and numbers that occur.
LEMMA Ranges ==
  /\ Unicast \subseteq Address /\ NO_ADDR \in Address /\ NO_ADDR \notin Unicast
  /\ Self \in Unicast
  /\ MaxPackets \in Nat /\ MaxPackets \in Number /\ 0 \in Number /\ 1 \in Number
  /\ Blank \in Data
BY NumberRanges, EndpointAssumption
------------------------------------------------------------------------------
(* The entries of the session map *)

\* An entry of the map is no session or a session.
LEMMA EntryIsSession ==
  ASSUME NEW k, NEW s, NEW came, Entry(k, s, came)
  PROVE  s = NoSession \/ s \in Session
BY DEF Entry

\* Handlers that only change the state of a session.
LEMMA StateChange ==
  ASSUME NEW k, NEW s \in Session, NEW came, Entry(k, s, came), NEW x \in States
  PROVE  /\ Entry(k, [s EXCEPT !.state = x], came)
         /\ Wanting([s EXCEPT !.state = x]) => Wanting(s)
<1>. DEFINE t == [s EXCEPT !.state = x]
<1>1. /\ t \in Session
      /\ t.dir = s.dir /\ t.src = s.src /\ t.dst = s.dst /\ t.buf = s.buf
      /\ t.total = s.total /\ t.next = s.next
  BY DEF Session, States
<1>. HIDE DEF t
<1>2. Holds(s, came) => Holds(t, came)
  BY <1>1 DEF Holds, filled
<1>3. s # NoSession
  BY NoneIsNoSession
<1>4. Entry(k, t, came)
  BY <1>1, <1>2, <1>3 DEF Entry
<1>5. Wanting(t) => Wanting(s)
  BY <1>1 DEF Wanting
<1>. QED
  BY <1>4, <1>5 DEF t

\* A sending session stays one whatever becomes of its numbers.
LEMMA SenderChange ==
  ASSUME NEW k, NEW s \in Session, NEW came, Entry(k, s, came), k[1] = Self,
         NEW t \in Session, t.dir = s.dir, t.src = s.src, t.dst = s.dst,
         t.buf = s.buf, t.total = s.total
  PROVE  Entry(k, t, came) /\ ~Wanting(t)
<1>1. s # NoSession /\ s.dir \in {"Tx", "Rx"}
  BY NoneIsNoSession DEF Session
<1>2. s.dir = "Tx"
  BY <1>1 DEF Entry
<1>. QED
  BY <1>1, <1>2 DEF Entry, Wanting

\* One entry of the map is replaced.
LEMMA PutSound ==
  ASSUME Sound, NEW k \in Key, NEW s, NEW came \in SUBSET (Number \X Data),
         sessions' = put(sessions, k, s),
         since' = [since EXCEPT ![k] = came],
         open' \subseteq Key,
         \A j \in Key : j # k => (j \in open => j \in open'),
         Entry(k, s, came),
         Wanting(s) => k \in open'
  PROVE  Sound'
<1>1. /\ sessions' = [j \in Key |-> sessions'[j]]
      /\ \A j \in Key : sessions'[j] = IF j = k THEN s ELSE sessions[j]
  BY DEF put, Sound
<1>2. /\ since' \in [Key -> SUBSET (Number \X Data)]
      /\ \A j \in Key : since'[j] = IF j = k THEN came ELSE since[j]
  BY DEF Sound
<1>3. ASSUME NEW j \in Key
      PROVE  /\ Entry(j, sessions'[j], since'[j])
             /\ Wanting(sessions'[j]) => j \in open'
  <2>1. CASE j = k
    BY <1>1, <1>2, <2>1
  <2>2. CASE j # k
    BY <1>1, <1>2, <2>2 DEF Sound
  <2>. QED
    BY <2>1, <2>2
<1>. QED
  BY <1>1, <1>2, <1>3 DEF Sound

\* The same, when the history variables are left alone.
LEMMA PutOnly ==
  ASSUME Sound, NEW k \in Key, NEW s,
         sessions' = put(sessions, k, s), UNCHANGED <<since, open>>,
         Entry(k, s, since[k]),
         Wanting(s) => k \in open
  PROVE  Sound'
<1>1. since[k] \in SUBSET (Number \X Data) /\ since' = [since EXCEPT ![k] = since[k]]
  BY DEF Sound
<1>2. open' = open /\ open \subseteq Key
  BY DEF Sound
<1>. QED
  BY <1>1, <1>2, PutSound, Zenon

\* Nothing changes.
LEMMA SameSound ==
  ASSUME Sound, UNCHANGED <<sessions, since, open>>
  PROVE  Sound'
BY DEF Sound
------------------------------------------------------------------------------
(* Sending *)

\* A step that sends no CTS asks for nothing.
LEMMA QuietAsks ==
  ASSUME NoCts(sent') PROVE AsksForFirstMissing'
BY DEF NoCts, AsksForFirstMissing

\* send stores a sending session or none, and sends no CTS.
LEMMA StartTx ==
  ASSUME Sound, NEW dst \in Address, NEW buf \in Seq(Data), NEW fails \in Failures
  PROVE  LET e == start_tx(sessions, Self, dst, 0, buf, fails)
         IN  /\ NoCts(e.out)
             /\ \/ e.sessions = sessions
                \/ \E t \in Session :
                     /\ e.sessions = put(sessions, make_key(Self, dst), t)
                     /\ t.dir = "Tx" /\ t.src = Self /\ t.dst = dst
                     /\ Len(t.buf) = t.total
<1>. DEFINE e == start_tx(sessions, Self, dst, 0, buf, fails)
<1>1. Self \in Address /\ sessions = [k \in Key |-> sessions[k]]
  BY Ranges DEF Sound
<1>2. TxStarted(sessions, Self, dst, e)
  BY <1>1, StartTxFacts
<1>. HIDE DEF e
<1>3. NoCts(e.out)
  BY <1>2, EmptyNoCts, SenderNoCts, Zenon DEF TxStarted
<1>. QED
  BY <1>2, <1>3, Zenon DEF e, TxStarted

\* The buffers that send is called with.
LEMMA SentBuffer ==
  ASSUME NEW n \in 1 .. SeqSize, NEW d \in Payload
  PROVE  [i \in 1 .. n |-> d] \in Seq(Data)
<1>1. n \in Nat /\ [i \in 1 .. n |-> d] \in [1 .. n -> Data]
  BY TransportAssumption, EndpointAssumption DEF Data
<1>. QED
  BY <1>1, FunctionIsSeq

\* send opens a sending session or replaces one (start_tx).
LEMMA SendStep ==
  ASSUME Sound, NEW dst \in Peer \cup {NO_ADDR}, NEW buf \in Seq(Data), NEW fails \in Failures,
         send(dst, buf, fails)
  PROVE  Sound' /\ AsksForFirstMissing' /\ delivered' = <<>>
<1>. DEFINE e == start_tx(sessions, Self, dst, 0, buf, fails)
            k == make_key(Self, dst)
<1>1. dst \in Address /\ Self \in Address
  BY Ranges DEF Peer
<1>2. /\ sessions' = e.sessions /\ sent' = e.out
      /\ delivered' = <<>> /\ UNCHANGED <<since, open>>
  BY DEF send
<1>3. /\ NoCts(e.out)
      /\ \/ e.sessions = sessions
         \/ \E t \in Session :
              /\ e.sessions = put(sessions, k, t)
              /\ t.dir = "Tx" /\ t.src = Self /\ t.dst = dst
              /\ Len(t.buf) = t.total
  BY <1>1, StartTx
<1>. HIDE DEF e
<1>4. CASE e.sessions = sessions
  BY <1>2, <1>3, <1>4, SameSound, QuietAsks
<1>5. ASSUME NEW t \in Session, e.sessions = put(sessions, k, t),
             t.dir = "Tx", t.src = Self, t.dst = dst, Len(t.buf) = t.total
      PROVE  Sound'
  <2>1. k \in Key /\ k[1] = Self
    BY <1>1, KeyFacts
  <2>2. Entry(k, t, since[k]) /\ ~Wanting(t)
    BY <1>5, <2>1 DEF Entry, Wanting
  <2>. HIDE DEF k
  <2>. QED
    BY <1>2, <1>5, <2>1, <2>2, PutOnly
<1>. QED
  BY <1>2, <1>3, <1>4, <1>5, QuietAsks
------------------------------------------------------------------------------
(* Receiving *)

\* What Sound says of one key.
LEMMA SoundAt ==
  ASSUME Sound, NEW k \in Key
  PROVE  /\ Entry(k, sessions[k], since[k])
         /\ sessions[k] = NoSession \/ sessions[k] \in Session
         /\ Wanting(sessions[k]) => k \in open
BY EntryIsSession DEF Sound

\* The fields of a frame from the bus.
LEMMA IncomingFacts ==
  ASSUME NEW fr \in Incoming
  PROVE  /\ fr.src \in Address /\ fr.dst \in Address /\ fr.hdr \in Nat
         /\ fr.seq \in Number /\ fr.count \in Number
         /\ fr.type \in {"RTS", "CTS", "BAM", "EOM", "ABORT", "DT"}
         /\ fr.type \in {"RTS", "BAM", "CTS", "DT"} => fr.src # Self
         /\ fr.type \in {"RTS", "BAM"} => fr.total \in Number /\ fr.total >= 1
         /\ fr.type = "BAM" => fr.dst = NO_ADDR
         /\ fr.type = "DT" => fr.data \in Data
<1>1. /\ Peer \subseteq Address /\ Self \notin Peer /\ 1 .. MaxPackets \subseteq Number
      /\ Payload \subseteq Data
  BY Ranges, TransportAssumption, EndpointAssumption DEF Peer, Number, MaxPackets, Data
<1>2. CASE \E a \in Peer, b \in Unicast, n \in 1 .. MaxPackets, w \in 1 .. MaxPackets :
             fr = incoming("RTS", a, b, n, w, 0, Blank)
  BY <1>1, <1>2, Ranges, SMTT(30) DEF incoming
<1>3. CASE \E a \in Peer, n \in 1 .. MaxPackets :
             fr = incoming("BAM", a, NO_ADDR, n, MaxPackets, 0, Blank)
  BY <1>1, <1>3, Ranges, SMTT(30) DEF incoming
<1>4. CASE \E a \in Peer, b \in Unicast, n \in Number, i \in Number \ {0} :
             fr = incoming("CTS", a, b, 0, n, i, Blank)
  BY <1>1, <1>4, Ranges, SMTT(30) DEF incoming
<1>5. CASE \E a \in Peer, b \in Unicast \cup {NO_ADDR}, i \in Number, d \in Payload :
             fr = incoming("DT", a, b, 0, 0, i, d)
  BY <1>1, <1>5, Ranges, SMTT(30) DEF incoming
<1>6. CASE \E type \in {"EOM", "ABORT"}, a \in Address, b \in Unicast :
             fr = incoming(type, a, b, 0, 0, 0, Blank)
  BY <1>6, Ranges, SMTT(30) DEF incoming
<1>. QED
  BY <1>2, <1>3, <1>4, <1>5, <1>6, SMTT(30) DEF Incoming

\* A session as an RTS or BAM opens it.
Opened(k, s) ==
  /\ s \in Session /\ k = make_key(s.src, s.dst)
  /\ s.dir = "Rx" /\ s.next = 1 /\ s.total >= 1
  /\ s.buf = blank_buffer(s.total)
  /\ s.src # Self

\* It holds nothing and waits for the first packet.
LEMMA OpenedFacts ==
  ASSUME NEW k, NEW s, Opened(k, s), NEW came
  PROVE  Entry(k, s, came) /\ Wanting(s)
<1>1. s.total \in Number
  BY DEF Opened, Session
<1>2. /\ Len(s.buf) = s.total
      /\ \A i \in 1 .. s.total : s.buf[i] = Blank
  BY <1>1, BlankBuffer DEF Opened
<1>3. filled(s) = 0
  BY DEF filled, Opened
<1>4. Holds(s, came)
  BY <1>1, <1>2, <1>3 DEF Holds, Number
<1>5. k[1] = s.src
  BY DEF make_key, Opened
<1>6. Entry(k, s, came)
  BY <1>2, <1>4, <1>5 DEF Entry, Opened
<1>7. Wanting(s)
  BY <1>1 DEF Wanting, Opened, Number
<1>. QED
  BY <1>6, <1>7

\* The sessions that start_rx_rts and start_rx_bam store.
LEMMA NewRxSession ==
  ASSUME NEW src \in Address, NEW dst \in Address, NEW hdr \in Nat,
         NEW total \in Number, total >= 1, NEW window \in Number, src # Self
  PROVE  LET n == new_session("Rx", src, dst, hdr, blank_buffer(total))
         IN  /\ Opened(make_key(src, dst), [n EXCEPT !.window = window])
             /\ Opened(make_key(src, dst), [n EXCEPT !.bam = TRUE])
<1>. DEFINE n == new_session("Rx", src, dst, hdr, blank_buffer(total))
            B == blank_buffer(total)
<1>1. B \in Seq(Data) /\ Len(B) = total
  BY BlankBuffer
<1>. HIDE DEF B
<1>2. /\ n \in Session /\ n.dir = "Rx" /\ n.next = 1 /\ n.total = total
      /\ n.src = src /\ n.dst = dst /\ n.buf = B
  BY <1>1, Ranges DEF new_session, Session, B
<1>. HIDE DEF n
<1>3. ASSUME NEW m \in {[n EXCEPT !.window = window], [n EXCEPT !.bam = TRUE]}
      PROVE  /\ m \in Session /\ m.dir = "Rx" /\ m.next = 1 /\ m.total = total
             /\ m.src = src /\ m.dst = dst /\ m.buf = B
  BY <1>2, Zenon DEF Session
<1>4. ASSUME NEW m \in Session, m.dir = "Rx", m.next = 1, m.total = total,
             m.src = src, m.dst = dst, m.buf = B
      PROVE  Opened(make_key(src, dst), m)
  BY <1>4 DEF Opened, B
<1>. QED
  BY <1>3, <1>4, Zenon DEF n

\* A CTS for a session that lacks packet next_seq asks for what it should.
LEMMA CtsAsks ==
  ASSUME NEW k \in Key, NEW fails, sessions'[k] \in Session,
         sent' = response_cts(sessions'[k], fails),
         k = make_key(sessions'[k].src, sessions'[k].dst),
         Wanting(sessions'[k])
  PROVE  AsksForFirstMissing'
<1>. DEFINE s == sessions'[k]
<1>1. cts_frame(s).dst = s.src /\ cts_frame(s).src = s.dst /\ cts_frame(s).seq = s.next
  BY DEF cts_frame, cm_frame
<1>2. Range(sent') \in SUBSET {cts_frame(s)}
  <2>1. cts_frame(s) \in {cts_frame(s)}
    OBVIOUS
  <2>2. sent' \in Seq({cts_frame(s)})
    BY <2>1, BusSend, Zenon DEF response_cts
  <2>. QED
    BY <2>2 DEF Range
<1>3. /\ s.dir = "Rx" /\ s.next \in 1 .. s.total /\ s.next = filled(s) + 1
  BY DEF Wanting, filled, Session, Number
<1>. HIDE DEF s
<1>4. \A f \in Range(sent') : s = sessions'[make_key(f.dst, f.src)] /\ f.seq = s.next
  BY <1>1, <1>2 DEF s
<1>. QED
  BY <1>3, <1>4 DEF AsksForFirstMissing, filled
\* An RTS or BAM opens a session, whatever session it replaces.
LEMMA AnnouncementStep ==
  ASSUME Sound, NEW fr \in Incoming, NEW fails, receive_announcement(fr, fails)
  PROVE  Sound' /\ AsksForFirstMissing' /\ delivered' = <<>>
<1>. DEFINE k == make_key(fr.src, fr.dst)
            n == new_session("Rx", fr.src, fr.dst, fr.hdr, blank_buffer(fr.total))
            e == on_can_frame(sessions, Self, fr, fails)
<1>1. /\ sessions' = e.sessions /\ sent' = e.out /\ delivered' = e.up
      /\ since' = [since EXCEPT ![k] = {}] /\ open' = open \cup {k}
  BY DEF receive_announcement, apply
<1>2. /\ fr.src \in Address /\ fr.dst \in Address /\ fr.hdr \in Nat /\ fr.count \in Number
      /\ fr.type \in {"RTS", "BAM"} /\ fr.src # Self
      /\ fr.total \in Number /\ fr.total >= 1
      /\ fr.type = "BAM" => fr.dst = NO_ADDR
      /\ fr.type = "RTS" => fr.dst = Self
  BY IncomingFacts DEF receive_announcement, announced
<1>3. k \in Key
  BY <1>2, KeyFacts
<1>4. Opened(k, [n EXCEPT !.window = fr.count]) /\ Opened(k, [n EXCEPT !.bam = TRUE])
  BY <1>2, NewRxSession
<1>5. ASSUME NEW s, Opened(k, s), sessions' = put(sessions, k, s)
      PROVE  Sound' /\ sessions'[k] = s
  <2>1. Entry(k, s, {})
    BY <1>5, OpenedFacts
  <2>. HIDE DEF k
  <2>2. open' \subseteq Key /\ k \in open' /\ open \subseteq open'
    BY <1>1, <1>3 DEF Sound
  <2>3. sessions'[k] = s
    BY <1>3, <1>5 DEF put, Sound
  <2>. QED
    BY <1>1, <1>3, <1>5, <2>1, <2>2, <2>3, PutSound, Zenon
<1>6. CASE fr.type = "RTS"
  <2>. DEFINE s == [n EXCEPT !.window = fr.count]
  <2>1. e = only_sends(put(sessions, k, s), response_cts(s, fails))
    BY <1>2, <1>6 DEF on_can_frame, start_rx_rts
  <2>2. Opened(k, s)
    BY <1>4
  <2>. HIDE DEF e, s, k
  <2>3. /\ sessions' = put(sessions, k, s) /\ delivered' = <<>>
        /\ sent' = response_cts(s, fails)
    BY <1>1, <2>1 DEF only_sends, effect
  <2>4. Sound' /\ sessions'[k] = s
    BY <1>5, <2>2, <2>3
  <2>5. Wanting(s) /\ s \in Session /\ k = make_key(s.src, s.dst)
    BY <2>2, OpenedFacts DEF Opened
  <2>. QED
    BY <1>3, <2>3, <2>4, <2>5, CtsAsks
<1>7. CASE fr.type = "BAM"
  <2>. DEFINE s == [n EXCEPT !.bam = TRUE]
  <2>1. e = nothing(put(sessions, k, s))
    BY <1>2, <1>7, Zenon DEF on_can_frame, start_rx_bam
  <2>2. Opened(k, s)
    BY <1>4
  <2>. HIDE DEF e, s, k
  <2>3. sessions' = put(sessions, k, s) /\ delivered' = <<>> /\ sent' = <<>>
    BY <1>1, <2>1 DEF nothing, effect
  <2>4. Sound'
    BY <1>5, <2>2, <2>3
  <2>. QED
    BY <2>3, <2>4, EmptyNoCts, QuietAsks
<1>. QED
  BY <1>2, <1>6, <1>7

\* A CTS lets the sending session it finds go on.
LEMMA CtsStep ==
  ASSUME Sound, NEW fr \in Incoming, NEW fails \in Failures, receive_cts(fr, fails)
  PROVE  Sound' /\ AsksForFirstMissing' /\ delivered' = <<>>
<1>. DEFINE k == make_key(Self, fr.src)
            t == [sessions[k] EXCEPT !.window = fr.count, !.next = fr.seq]
            b == send_data_packets(t, fails)
            e == on_can_frame(sessions, Self, fr, fails)
<1>1. /\ sessions' = e.sessions /\ sent' = e.out /\ delivered' = e.up
      /\ UNCHANGED <<since, open>> /\ fr.type = "CTS"
  BY DEF receive_cts, apply
<1>2. fr.src \in Address /\ fr.count \in Number /\ fr.seq \in Number /\ Self \in Address
  BY IncomingFacts, Ranges
<1>3. k \in Key /\ k[1] = Self
  BY <1>2, KeyFacts
<1>4. e = handle_cts(sessions, Self, fr, fails)
  BY <1>1 DEF on_can_frame
<1>5. CASE sessions[k] = NoSession
  <2>1. e = only_sends(sessions, bus_send(dummy_abort(Self, fr, "Tx"), 1, fails))
    BY <1>4, <1>5 DEF handle_cts
  <2>2. dummy_abort(Self, fr, "Tx").type # "CTS"
    BY FrameTypes DEF dummy_abort
  <2>3. NoCts(bus_send(dummy_abort(Self, fr, "Tx"), 1, fails))
    BY <2>2, BusSendNoCts
  <2>. HIDE DEF e
  <2>. QED
    BY <1>1, <2>1, <2>3, SameSound, QuietAsks DEF only_sends, effect
<1>6. CASE sessions[k] # NoSession
  <2>1. Entry(k, sessions[k], since[k]) /\ sessions[k] \in Session
    BY <1>3, <1>6, SoundAt
  <2>2. /\ t \in Session
        /\ t.dir = sessions[k].dir /\ t.src = sessions[k].src /\ t.dst = sessions[k].dst
        /\ t.buf = sessions[k].buf /\ t.total = sessions[k].total
    BY <1>2, <2>1, Zenon DEF Session
  <2>3. e = only_sends(put(sessions, k, b.session), b.out)
    BY <1>4, <1>6 DEF handle_cts
  <2>. HIDE DEF e, t, k
  <2>4. /\ \E n \in Number, x \in States : b.session = [t EXCEPT !.next = n, !.state = x]
        /\ NoCts(b.out)
    BY <2>2, BurstFacts, SenderNoCts, Zenon
  <2>. HIDE DEF b
  <2>5. /\ b.session \in Session
        /\ b.session.dir = t.dir /\ b.session.src = t.src /\ b.session.dst = t.dst
        /\ b.session.buf = t.buf /\ b.session.total = t.total
    BY <2>2, <2>4, Zenon DEF Session, States
  <2>6. Entry(k, b.session, since[k]) /\ ~Wanting(b.session)
    BY <1>3, <2>1, <2>2, <2>5, SenderChange
  <2>7. sessions' = put(sessions, k, b.session) /\ sent' = b.out /\ delivered' = <<>>
    BY <1>1, <2>3 DEF only_sends, effect
  <2>8. Sound'
    BY <1>1, <1>3, <2>6, <2>7, PutOnly
  <2>. QED
    BY <2>4, <2>7, <2>8, QuietAsks
<1>. QED
  BY <1>5, <1>6

\* Session s has become t by storing packet seq; now is what came since its
\* announcement.
Stored(k, s, t, seq, now) ==
  /\ t \in Session /\ Entry(k, t, now)
  /\ t.total = s.total /\ t.dir = "Rx" /\ t.src = s.src /\ t.dst = s.dst
  /\ Len(t.buf) = t.total
  /\ seq # t.total => Wanting(t)
  /\ seq = t.total => /\ ~Wanting(t)
                      /\ \A i \in 1 .. t.total : <<i, t.buf[i]>> \in now

\* A packet that is stored is the next one, and the session then holds it too.
\* next_seq wraps to 0 after the last packet of the longest message.
LEMMA StoreFacts ==
  ASSUME NEW k, NEW s \in Session, NEW came, Entry(k, s, came), s.dir = "Rx",
         NEW fr, fr.data \in Data, fr.seq \in Number, dt_in_sequence(s, fr),
         NEW t, t = store(s, fr),
         NEW now, now = came \cup {<<fr.seq, fr.data>>}
  PROVE  Stored(k, s, t, fr.seq, now)
<1>. DEFINE B   == [i \in 1 .. s.total |-> IF i = fr.seq THEN fr.data ELSE s.buf[i]]
            N   == (fr.seq + 1) % SeqSize
<1>1. /\ s.total \in Nat /\ s.total <= MaxPackets /\ s.next \in Nat /\ s.buf \in Seq(Data)
      /\ fr.seq \in 1 .. s.total /\ fr.seq = s.next /\ MaxPackets = SeqSize - 1
      /\ SeqSize \in Nat
  BY TransportAssumption DEF Session, Number, dt_in_sequence, MaxPackets
<1>2. Len(s.buf) = s.total /\ k = make_key(s.src, s.dst) /\ k[1] # Self /\ Holds(s, came)
  BY NoneIsNoSession DEF Entry
<1>3. \A i \in 1 .. s.total : s.buf[i] \in Data
  BY <1>1, <1>2, SeqElements
<1>4. B \in [1 .. s.total -> Data]
  BY <1>3
<1>5. B \in Seq(Data) /\ Len(B) = s.total
  <2>. HIDE DEF B
  <2>. QED
    BY <1>1, <1>4, FunctionIsSeq, SMTT(30)
<1>6. /\ N \in Number
      /\ fr.seq < MaxPackets => N = fr.seq + 1
      /\ fr.seq = MaxPackets => N = 0
  <2>1. fr.seq + 1 \in Nat /\ SeqSize > 0 /\ fr.seq + 1 <= SeqSize
    BY <1>1
  <2>2. N = IF fr.seq + 1 = SeqSize THEN 0 ELSE fr.seq + 1
    BY <1>1, <2>1, Wraps, Zenon
  <2>. HIDE DEF N
  <2>. QED
    BY <1>1, <2>2 DEF Number
<1>7. \A i \in 1 .. s.total : B[i] = IF i = fr.seq THEN fr.data ELSE s.buf[i]
  OBVIOUS
<1>8. t = [s EXCEPT !.buf = B, !.next = N]
  BY DEF store
<1>. HIDE DEF B, N
<1>9. /\ t \in Session /\ t.buf = B /\ t.next = N
      /\ t.dir = s.dir /\ t.src = s.src /\ t.dst = s.dst /\ t.total = s.total
  BY <1>5, <1>6, <1>8, Zenon DEF Session
<1>10. filled(s) = fr.seq - 1 /\ filled(t) = fr.seq
  BY <1>1, <1>6, <1>9 DEF filled
<1>11. ASSUME NEW i \in 1 .. s.total
       PROVE  IF i <= fr.seq THEN <<i, B[i]>> \in now ELSE B[i] = Blank
  <2>1. CASE i = fr.seq
    BY <1>1, <1>7, <2>1
  <2>2. CASE i # fr.seq
    BY <1>1, <1>2, <1>7, <1>10, <2>2 DEF Holds
  <2>. QED
    BY <2>1, <2>2
<1>12. Holds(t, now)
  BY <1>9, <1>10, <1>11 DEF Holds
<1>13. Entry(k, t, now)
  BY <1>2, <1>5, <1>9, <1>12 DEF Entry
<1>14. fr.seq # t.total => Wanting(t)
  BY <1>1, <1>6, <1>9 DEF Wanting
<1>15. fr.seq = t.total => ~Wanting(t)
  BY <1>1, <1>6, <1>9 DEF Wanting
<1>16. fr.seq = t.total => \A i \in 1 .. t.total : <<i, t.buf[i]>> \in now
  BY <1>1, <1>9, <1>11
<1>. QED
  BY <1>5, <1>9, <1>13, <1>14, <1>15, <1>16 DEF Stored

------------------------------------------------------------------------------
(* Delivery *)

\* What a step that delivers must satisfy.
DeliveryRule ==
  delivered' # <<>> =>
    \E k \in open \ open' :
      /\ Len(delivered'[1].buf) = sessions[k].total
      /\ \A i \in 1 .. sessions[k].total : <<i, delivered'[1].buf[i]>> \in since'[k]

\* More packets of a session that came do not hurt it.
LEMMA EntryGrows ==
  ASSUME NEW k, NEW s, NEW came, NEW more, came \subseteq more, Entry(k, s, came)
  PROVE  Entry(k, s, more)
BY DEF Entry, Holds
\* A packet for a session is refused, stored, or completes the message, which is
\* then delivered.
LEMMA DtStep ==
  ASSUME Sound, NEW fr \in Incoming, NEW fails, receive_dt(fr, fails)
  PROVE  Sound' /\ AsksForFirstMissing' /\ DeliveryRule
<1>. DEFINE k   == make_key(fr.src, fr.dst)
            s   == sessions[k]
            t   == store(s, fr)
            now == since[k] \cup {<<fr.seq, fr.data>>}
            e   == on_can_frame(sessions, Self, fr, fails)
<1>1. /\ sessions' = e.sessions /\ sent' = e.out /\ delivered' = e.up /\ fr.type = "DT"
      /\ since' = IF s = NoSession THEN since ELSE [since EXCEPT ![k] = now]
      /\ open' = IF delivered' # <<>> THEN open \ {k} ELSE open
  BY DEF receive_dt, apply
<1>2. /\ fr.src \in Address /\ fr.dst \in Address /\ fr.src # Self
      /\ fr.seq \in Number /\ fr.data \in Data
  BY <1>1, IncomingFacts
<1>3. k \in Key /\ k[1] # Self
  BY <1>2, KeyFacts
<1>4. e = handle_dt(sessions, Self, fr, fails)
  BY <1>1 DEF on_can_frame
<1>5. CASE s = NoSession
  <2>1. e = only_sends(sessions, bus_send(dummy_abort(Self, fr, "Rx"), 1, fails))
    BY <1>4, <1>5 DEF handle_dt
  <2>2. dummy_abort(Self, fr, "Rx").type # "CTS"
    BY FrameTypes DEF dummy_abort
  <2>3. NoCts(bus_send(dummy_abort(Self, fr, "Rx"), 1, fails))
    BY <2>2, BusSendNoCts
  <2>. HIDE DEF e, s, k
  <2>4. sessions' = sessions /\ NoCts(sent') /\ delivered' = <<>>
    BY <1>1, <2>1, <2>3 DEF only_sends, effect
  <2>. QED
    BY <1>1, <1>5, <2>4, SameSound, QuietAsks DEF DeliveryRule
<1>6. CASE s # NoSession
  <2>1. /\ Entry(k, s, since[k]) /\ s \in Session
        /\ Wanting(s) => k \in open
    BY <1>3, <1>6, SoundAt
  <2>2. /\ s.dir = "Rx" /\ k = make_key(s.src, s.dst)
    BY <1>3, <1>6, <2>1 DEF Entry, Session
  <2>3. now \in SUBSET (Number \X Data) /\ since[k] \subseteq now
    BY <1>2, <1>3 DEF Sound
  <2>4. CASE ~dt_in_sequence(s, fr)
    <3>. DEFINE a == [s EXCEPT !.state = "ABorted"]
    <3>1. e = only_sends(put(sessions, k, a), bus_send(abort_frame(s), 1, fails))
      BY <1>4, <1>6, <2>4 DEF handle_dt
    <3>2. Entry(k, a, since[k]) /\ (Wanting(a) => Wanting(s))
      BY <2>1, StateChange, Zenon DEF States
    <3>3. NoCts(bus_send(abort_frame(s), 1, fails))
      BY FrameTypes, BusSendNoCts
    <3>. HIDE DEF e, s, k, a, now
    <3>4. sessions' = put(sessions, k, a) /\ NoCts(sent') /\ delivered' = <<>>
      BY <1>1, <3>1, <3>3 DEF only_sends, effect
    <3>5. Entry(k, a, now)
      BY <2>3, <3>2, EntryGrows
    <3>6. since' = [since EXCEPT ![k] = now] /\ open' = open /\ open \subseteq Key
      BY <1>1, <1>6, <3>4 DEF Sound
    <3>7. Sound'
      BY <1>3, <2>1, <2>3, <3>2, <3>4, <3>5, <3>6, PutSound, Zenon
    <3>. QED
      BY <3>4, <3>7, QuietAsks DEF DeliveryRule
  <2>5. CASE dt_in_sequence(s, fr)
    <3>1. /\ t \in Session /\ Entry(k, t, now)
          /\ t.total = s.total /\ t.dir = "Rx" /\ t.src = s.src /\ t.dst = s.dst
          /\ Len(t.buf) = t.total
          /\ fr.seq # t.total => Wanting(t)
          /\ fr.seq = t.total => /\ ~Wanting(t)
                                 /\ \A i \in 1 .. t.total : <<i, t.buf[i]>> \in now
      <4>1. t = store(s, fr) /\ now = since[k] \cup {<<fr.seq, fr.data>>}
        OBVIOUS
      <4>. HIDE DEF s, k, t, now
      <4>2. Stored(k, s, t, fr.seq, now)
        BY <1>2, <2>1, <2>2, <2>5, <4>1, StoreFacts, Zenon
      <4>. QED
        BY <4>2 DEF Stored
    <3>2. k \in open
      BY <2>1, <2>2, <2>5 DEF Wanting, dt_in_sequence
    <3>3. e = accept_dt(sessions, k, fr, fails)
      BY <1>4, <1>6, <2>5 DEF handle_dt
    <3>4. CASE fr.seq = t.total
      <4>. DEFINE c == [t EXCEPT !.state = "Completed"]
      <4>1. /\ Entry(k, c, now) /\ ~Wanting(c)
        BY <3>1, <3>4, StateChange, Zenon DEF States
      <4>2. /\ e.sessions \in {put(sessions, k, c), put(sessions, k, t)}
            /\ \/ e.out = <<>>
               \/ e.out = bus_send(eom_frame(t), 1, fails)
            /\ e.up = <<message(t)>>
        BY <3>3, <3>4 DEF accept_dt, effect
      <4>3. NoCts(bus_send(eom_frame(t), 1, fails))
        BY FrameTypes, BusSendNoCts
      <4>. HIDE DEF e, t, c, now, s, k
      <4>4. /\ sessions' \in {put(sessions, k, c), put(sessions, k, t)}
            /\ NoCts(sent') /\ delivered' # <<>> /\ delivered'[1].buf = t.buf
        BY <1>1, <4>2, <4>3, EmptyNoCts DEF message
      <4>5. since' = [since EXCEPT ![k] = now] /\ open' = open \ {k} /\ open \subseteq Key
        BY <1>1, <1>6, <4>4 DEF Sound
      <4>6. Sound'
        BY <1>3, <2>3, <3>1, <3>4, <4>1, <4>4, <4>5, PutSound, Zenon
      <4>7. since'[k] = now
        BY <1>3, <4>5 DEF Sound
      <4>8. DeliveryRule
        BY <3>1, <3>2, <3>4, <4>4, <4>5, <4>7 DEF DeliveryRule, s
      <4>. QED
        BY <4>4, <4>6, <4>8, QuietAsks
    <3>5. CASE fr.seq # t.total
      <4>1. e = only_sends(put(sessions, k, t),
                           IF cts_due(t, fr.seq) THEN response_cts(t, fails) ELSE <<>>)
        BY <3>3, <3>5 DEF accept_dt
      <4>. HIDE DEF e, t, now, s, k
      <4>2. /\ sessions' = put(sessions, k, t) /\ delivered' = <<>>
            /\ sent' = <<>> \/ sent' = response_cts(t, fails)
        BY <1>1, <4>1 DEF only_sends, effect
      <4>3. since' = [since EXCEPT ![k] = now] /\ open' = open /\ open \subseteq Key
        BY <1>1, <1>6, <4>2 DEF Sound
      <4>4. Sound'
        BY <1>3, <2>3, <3>1, <3>2, <4>2, <4>3, PutSound, Zenon
      <4>5. sessions'[k] = t
        BY <1>3, <4>2 DEF put, Sound
      <4>6. k = make_key(t.src, t.dst)
        BY <2>2, <3>1
      <4>7. AsksForFirstMissing'
        BY <1>3, <3>1, <3>5, <4>2, <4>5, <4>6, CtsAsks, EmptyNoCts, QuietAsks
      <4>. QED
        BY <4>2, <4>4, <4>7 DEF DeliveryRule
    <3>. QED
      BY <3>4, <3>5
  <2>. QED
    BY <2>4, <2>5
<1>. QED
  BY <1>5, <1>6
\* EOM and ABORT frames change the state of the session they find, and an RTS to
\* another node is ignored.
LEMMA OtherStep ==
  ASSUME Sound, NEW fr \in Incoming, NEW fails, receive_other(fr, fails)
  PROVE  Sound' /\ AsksForFirstMissing' /\ delivered' = <<>>
<1>. DEFINE e == on_can_frame(sessions, Self, fr, fails)
<1>1. /\ sessions' = e.sessions /\ sent' = e.out /\ delivered' = e.up
      /\ UNCHANGED <<since, open>>
      /\ fr.type \notin {"CTS", "DT"} /\ ~announced(fr)
  BY DEF receive_other, apply
<1>2. /\ fr.src \in Address /\ fr.dst \in Address /\ Self \in Address
      /\ fr.type \in {"RTS", "BAM", "EOM", "ABORT"}
  BY <1>1, IncomingFacts, Ranges
<1>3. make_key(fr.src, fr.dst) \in Key /\ make_key(Self, fr.src) \in Key
  BY <1>2, KeyFacts
<1>4. ASSUME sessions' = sessions, NoCts(sent'), delivered' = <<>>
      PROVE  Sound' /\ AsksForFirstMissing' /\ delivered' = <<>>
  BY <1>1, <1>4, SameSound, QuietAsks
<1>5. ASSUME NEW k \in Key, sessions[k] # NoSession, NEW x \in States,
             sessions' = put(sessions, k, [sessions[k] EXCEPT !.state = x]),
             sent' = <<>>, delivered' = <<>>
      PROVE  Sound' /\ AsksForFirstMissing' /\ delivered' = <<>>
  <2>. DEFINE s == sessions[k]
              t == [s EXCEPT !.state = x]
  <2>1. /\ Entry(k, s, since[k]) /\ s \in Session
        /\ Wanting(s) => k \in open
    BY <1>5, SoundAt
  <2>2. Entry(k, t, since[k]) /\ (Wanting(t) => Wanting(s))
    BY <2>1, StateChange, Zenon
  <2>3. sessions' = put(sessions, k, t)
    BY <1>5
  <2>. HIDE DEF t
  <2>4. Sound'
    BY <1>1, <2>1, <2>2, <2>3, PutOnly
  <2>. QED
    BY <1>5, <2>4, EmptyNoCts, QuietAsks
<1>6. CASE fr.type = "RTS"
  <2>1. e = nothing(sessions)
    BY <1>1, <1>6 DEF on_can_frame, start_rx_rts, announced
  <2>. HIDE DEF e
  <2>. QED
    BY <1>1, <1>4, <2>1, EmptyNoCts DEF nothing, effect
<1>7. CASE fr.type = "EOM"
  <2>. DEFINE k == make_key(fr.src, fr.dst)
  <2>1. e = complete_rx(sessions, Self, fr, fails)
    BY <1>7 DEF on_can_frame
  <2>2. CASE sessions[k] = NoSession
    <3>1. e = only_sends(sessions, bus_send(dummy_abort(Self, fr, "Rx"), 1, fails))
      BY <2>1, <2>2 DEF complete_rx
    <3>2. dummy_abort(Self, fr, "Rx").type # "CTS"
      BY FrameTypes DEF dummy_abort
    <3>3. NoCts(bus_send(dummy_abort(Self, fr, "Rx"), 1, fails))
      BY <3>2, BusSendNoCts
    <3>. HIDE DEF e
    <3>. QED
      BY <1>1, <1>4, <3>1, <3>3 DEF only_sends, effect
  <2>3. CASE sessions[k] # NoSession
    <3>1. e = nothing(put(sessions, k, [sessions[k] EXCEPT !.state = "Completed"]))
      BY <2>1, <2>3 DEF complete_rx
    <3>. HIDE DEF e, k
    <3>2. /\ sessions' = put(sessions, k, [sessions[k] EXCEPT !.state = "Completed"])
          /\ sent' = <<>> /\ delivered' = <<>> /\ "Completed" \in States
      BY <1>1, <3>1 DEF nothing, effect, States
    <3>3. k \in Key
      BY <1>3 DEF k
    <3>. QED
      BY <1>5, <2>3, <3>2, <3>3
  <2>. QED
    BY <2>2, <2>3
<1>8. CASE fr.type = "ABORT"
  <2>. DEFINE k == make_key(Self, fr.src)
  <2>1. e = handle_abort(sessions, Self, fr)
    BY <1>8 DEF on_can_frame
  <2>2. CASE sessions[k] = NoSession
    <3>1. e = nothing(sessions)
      BY <2>1, <2>2 DEF handle_abort
    <3>. HIDE DEF e
    <3>. QED
      BY <1>1, <1>4, <3>1, EmptyNoCts DEF nothing, effect
  <2>3. CASE sessions[k] # NoSession
    <3>1. e = nothing(put(sessions, k, [sessions[k] EXCEPT !.state = "ABorted"]))
      BY <2>1, <2>3 DEF handle_abort
    <3>. HIDE DEF e, k
    <3>2. /\ sessions' = put(sessions, k, [sessions[k] EXCEPT !.state = "ABorted"])
          /\ sent' = <<>> /\ delivered' = <<>> /\ "ABorted" \in States
      BY <1>1, <3>1 DEF nothing, effect, States
    <3>3. k \in Key
      BY <1>3 DEF k
    <3>. QED
      BY <1>5, <2>3, <3>2, <3>3
  <2>. QED
    BY <2>2, <2>3
<1>. QED
  BY <1>1, <1>2, <1>6, <1>7, <1>8 DEF announced

------------------------------------------------------------------------------
(* Idle sessions *)

\* tick removes sessions with what is remembered of them, and sends aborts.
LEMMA TickStep ==
  ASSUME Sound, NEW idle, NEW ks, session_tick(idle, ks)
  PROVE  Sound' /\ AsksForFirstMissing' /\ delivered' = <<>>
<1>1. /\ sessions' = [k \in Key |-> IF k \in idle THEN NoSession ELSE sessions[k]]
      /\ delivered' = <<>>
      /\ since' = [k \in Key |-> IF k \in idle THEN {} ELSE since[k]]
      /\ open' = open \ idle
  BY Zenon DEF session_tick, apply, tick, only_sends, effect
<1>2. NoCts(sent')
  <2>1. sent' = [i \in DOMAIN ks |-> abort_frame(sessions[ks[i]])]
    BY Zenon DEF session_tick, apply, tick, only_sends, effect
  <2>. QED
    BY <2>1, FrameTypes DEF NoCts, Range
<1>3. ASSUME NEW k \in Key
      PROVE  /\ Entry(k, sessions'[k], since'[k])
             /\ Wanting(sessions'[k]) => k \in open'
  <2>1. CASE k \in idle
    <3>1. sessions'[k] = NoSession
      BY <1>1, <2>1
    <3>. QED
      BY <3>1, NoneIsNoSession DEF Entry, Wanting
  <2>2. CASE k \notin idle
    BY <1>1, <2>2, SoundAt, Zenon
  <2>. QED
    BY <2>1, <2>2
<1>4. /\ sessions' = [k \in Key |-> sessions'[k]]
      /\ since' \in [Key -> SUBSET (Number \X Data)]
      /\ open' \subseteq Key
  BY <1>1 DEF Sound
<1>5. Sound'
  BY <1>3, <1>4 DEF Sound
<1>. QED
  BY <1>1, <1>2, <1>5, QuietAsks
------------------------------------------------------------------------------
(* The theorems *)

\* An object without sessions satisfies the invariant.
LEMMA SoundInit == Init => Sound /\ AsksForFirstMissing
<1>. SUFFICES ASSUME Init PROVE Sound /\ AsksForFirstMissing
  OBVIOUS
<1>1. /\ sessions = [k \in Key |-> NoSession] /\ since = [k \in Key |-> {}] /\ open = {}
      /\ sent = <<>>
  BY DEF Init, EmptyMap
<1>2. \A k \in Key : Entry(k, sessions[k], since[k]) /\ ~Wanting(sessions[k])
  BY <1>1, NoneIsNoSession DEF Entry, Wanting
<1>3. Sound
  BY <1>1, <1>2 DEF Sound
<1>4. AsksForFirstMissing
  BY <1>1, EmptyNoCts DEF AsksForFirstMissing, NoCts
<1>. QED
  BY <1>3, <1>4

\* Every step keeps the invariant, asks for what is missing and delivers what
\* came since the announcement, or delivers nothing.
LEMMA StepFacts ==
  ASSUME Sound, Next
  PROVE  Sound' /\ AsksForFirstMissing' /\ DeliveryRule
<1>1. ASSUME NEW dst \in Peer \cup {NO_ADDR}, NEW n \in 1 .. SeqSize, NEW d \in Payload,
             NEW fails \in Failures, send(dst, [i \in 1 .. n |-> d], fails)
      PROVE  Sound' /\ AsksForFirstMissing' /\ DeliveryRule
  <2>1. [i \in 1 .. n |-> d] \in Seq(Data)
    BY SentBuffer
  <2>. QED
    BY <1>1, <2>1, SendStep, Zenon DEF DeliveryRule
<1>2. ASSUME NEW fr \in Incoming, NEW fails \in Failures, receive_cts(fr, fails)
      PROVE  Sound' /\ AsksForFirstMissing' /\ DeliveryRule
  BY <1>2, CtsStep, Zenon DEF DeliveryRule
<1>3. ASSUME NEW fr \in Incoming, NEW fails \in SUBSET {1}, receive_announcement(fr, fails)
      PROVE  Sound' /\ AsksForFirstMissing' /\ DeliveryRule
  BY <1>3, AnnouncementStep, Zenon DEF DeliveryRule
<1>4. ASSUME NEW fr \in Incoming, NEW fails \in SUBSET {1}, receive_dt(fr, fails)
      PROVE  Sound' /\ AsksForFirstMissing' /\ DeliveryRule
  BY <1>4, DtStep, Zenon
<1>5. ASSUME NEW fr \in Incoming, NEW fails \in SUBSET {1}, receive_other(fr, fails)
      PROVE  Sound' /\ AsksForFirstMissing' /\ DeliveryRule
  BY <1>5, OtherStep, Zenon DEF DeliveryRule
<1>6. ASSUME NEW idle, NEW ks, session_tick(idle, ks)
      PROVE  Sound' /\ AsksForFirstMissing' /\ DeliveryRule
  BY <1>6, TickStep, Zenon DEF DeliveryRule
<1>. QED
  BY <1>1, <1>2, <1>3, <1>4, <1>5, <1>6, Zenon DEF Next

\* The invariant is inductive.
LEMMA SoundStep ==
  Sound /\ AsksForFirstMissing /\ [Next]_vars => Sound' /\ AsksForFirstMissing'
<1>. SUFFICES ASSUME Sound, AsksForFirstMissing, [Next]_vars
              PROVE  Sound' /\ AsksForFirstMissing'
  OBVIOUS
<1>1. CASE Next
  BY <1>1, StepFacts
<1>2. CASE UNCHANGED vars
  BY <1>2, SameSound DEF vars, AsksForFirstMissing
<1>. QED
  BY <1>1, <1>2

\* The invariant holds in every reachable state.
LEMMA SoundAlways == Spec => [](Sound /\ AsksForFirstMissing)
BY SoundInit, SoundStep, PTL DEF Spec

\* Sessions are stored under their own addresses and their numbers keep the width
\* of the code's fields, whatever frames arrive.
THEOREM TypeCorrect == Spec => []TypeOK
<1>1. Sound => TypeOK
  <2>. SUFFICES ASSUME Sound PROVE TypeOK
    OBVIOUS
  <2>1. \A k \in Key : sessions[k] \in Session \cup {NoSession}
    BY SoundAt
  <2>2. sessions \in SessionMap
    BY <2>1 DEF Sound, SessionMap
  <2>3. ASSUME NEW k \in active(sessions)
        PROVE  /\ k = make_key(sessions[k].src, sessions[k].dst)
               /\ Len(sessions[k].buf) = sessions[k].total
    <3>1. k \in Key /\ sessions[k] # NoSession
      BY DEF active
    <3>2. Entry(k, sessions[k], since[k])
      BY <3>1, SoundAt
    <3>. QED
      BY <3>1, <3>2 DEF Entry
  <2>. QED
    BY <2>2, <2>3 DEF TypeOK, Sound
<1>. QED
  BY <1>1, SoundAlways, PTL

\* A receiving session holds the packets 1 to next_seq - 1 as they came after its
\* announcement, and nothing else (handle_dt, start_rx_rts, start_rx_bam).
THEOREM HoldsCorrect == Spec => []HoldsWhatCame
<1>1. Sound => HoldsWhatCame
  <2>. SUFFICES ASSUME Sound, NEW k \in Key, sessions[k].dir = "Rx"
                PROVE  Holds(sessions[k], since[k])
    BY DEF HoldsWhatCame, Holds
  <2>1. Entry(k, sessions[k], since[k]) /\ sessions[k] # NoSession
    BY SoundAt, NoneIsNoSession
  <2>. QED
    BY <2>1 DEF Entry
<1>. QED
  BY <1>1, SoundAlways, PTL

\* Every CTS asks for the first packet that is missing (response_cts).
THEOREM AsksCorrect == Spec => []AsksForFirstMissing
BY SoundAlways, PTL

\* rx_callback_ is called at most once for each announcement, with all packets
\* of the announced message (handle_dt).
THEOREM DeliversCorrect == Spec => DeliversOnceAndWhole
<1>1. Sound /\ [Next]_vars => [DeliveryRule]_vars
  BY StepFacts
<1>2. [][DeliveryRule]_vars => DeliversOnceAndWhole
  BY PTL DEF DeliversOnceAndWhole, DeliveryRule
<1>. QED
  BY <1>1, <1>2, SoundAlways, PTL DEF Spec
==============================================================================
