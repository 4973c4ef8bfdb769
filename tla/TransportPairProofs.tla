-------------------------- MODULE TransportPairProofs --------------------------
(***************************************************************************)
(* On a bus without faults TransportPair implements MessageDelivery, for   *)
(* any number of messages of any sizes, any window and any width of the    *)
(* sequence numbers.                                                       *)
(*                                                                         *)
(* On one link, the receiver's session, the frames on the wire and the     *)
(* sender's session belong to successive messages.  The packets behind an  *)
(* announcement, up to the next one, are of the message it announces; the  *)
(* packets in front of the first are of the message that is being          *)
(* received.                                                               *)
(***************************************************************************)
EXTENDS TransportPair, TransportProtocolProofs

------------------------------------------------------------------------------
(* start_tx, when no attempt to send fails *)

\* Frame f announces the message of session s to d, and the packets out of it
\* may follow.
Announced(n, d, s, f, out) ==
  /\ f \in Frame /\ out \in Seq(Frame) /\ Outgoing(n, <<f>> \o out)
  /\ announces(f, d) /\ same(f, s)
  /\ \A i \in 1 .. Len(out) : follows(out[i], d, s)

\* A message with header hdr is sent to d with effect e.
Started(n, S, d, hdr, size, e) ==
  \E f, s, u, out :
    /\ e.sessions = put(S, <<n, d>>, u) /\ announcing(e.out) = <<f>> \o out
    /\ s \in Session /\ s.hdr = hdr /\ s.total = size
    /\ u \in Session /\ owned(n, <<n, d>>, u) /\ same(u, s)
    /\ Announced(n, d, s, f, out)

\* A message that fits is a buffer for start_tx.
LEMMA NumberedFacts ==
  ASSUME NEW hdr \in Nat, NEW size \in 2 .. MaxPackets
  PROVE  /\ numbered(hdr, size).hdr = hdr
         /\ numbered(hdr, size).buf \in Seq(Data) /\ Len(numbered(hdr, size).buf) = size
<1>. DEFINE b == [i \in 1 .. size |-> hdr * SeqSize + i]
<1>1. size \in Nat /\ SeqSize \in Nat
  BY TransportAssumption, NumberRanges
<1>2. ASSUME NEW i \in 1 .. size
      PROVE  hdr * SeqSize + i \in Data
  <2>1. hdr * SeqSize \in Nat /\ i \in Nat
    BY <1>1
  <2>. QED
    BY <2>1 DEF Data
<1>3. b \in [1 .. size -> Data]
  BY <1>2
<1>4. numbered(hdr, size).hdr = hdr /\ numbered(hdr, size).buf = b
  BY DEF numbered
<1>. HIDE DEF b
<1>. QED
  BY <1>1, <1>3, <1>4, FunctionIsSeq

\* The frames in front and behind belong to the sequence.
LEMMA InFront ==
  ASSUME NEW f \in Frame, NEW out \in Seq(Frame), NEW v, v = <<f>> \o out
  PROVE  /\ v \in Seq(Frame) /\ Len(v) = 1 + Len(out) /\ Len(out) \in Nat
         /\ v[1] = f
         /\ \A i \in 1 .. Len(v) : i # 1 => i - 1 \in 1 .. Len(out) /\ v[i] = out[i - 1]
<1>1. <<f>> \in Seq(Frame) /\ Len(<<f>>) = 1 /\ <<f>>[1] = f
  OBVIOUS
<1>2. Len(out) \in Nat
  OBVIOUS
<1>3. /\ v \in Seq(Frame) /\ Len(v) = 1 + Len(out)
      /\ \A i \in 1 .. 1 + Len(out) : v[i] = IF i <= 1 THEN <<f>>[i] ELSE out[i - 1]
  BY <1>1
<1>. QED
  BY <1>1, <1>2, <1>3, SMTT(30)

\* The announcement in front of frames that node n sends.
LEMMA OutgoingInFront ==
  ASSUME NEW n, NEW f \in Frame, proper(n, f), NEW out, Outgoing(n, out)
  PROVE  Outgoing(n, <<f>> \o out)
<1>. DEFINE v == <<f>> \o out
<1>1. out \in Seq(Frame) /\ \A i \in 1 .. Len(out) : proper(n, out[i])
  BY DEF Outgoing
<1>2. v = <<f>> \o out
  OBVIOUS
<1>. HIDE DEF v
<1>3. /\ v \in Seq(Frame) /\ v[1] = f
      /\ \A i \in 1 .. Len(v) : i # 1 => i - 1 \in 1 .. Len(out) /\ v[i] = out[i - 1]
  BY <1>1, <1>2, InFront
<1>4. \A i \in 1 .. Len(v) : proper(n, v[i])
  BY <1>1, <1>3, Zenon
<1>. QED
  BY <1>3, <1>4 DEF Outgoing, v

\* No window is changed where nothing is an RTS.
LEMMA AnnouncingNoRts ==
  ASSUME NEW v \in Seq(Frame), \A i \in 1 .. Len(v) : v[i].type # "RTS"
  PROVE  announcing(v) = v
<1>1. DOMAIN v = 1 .. Len(v) /\ v \in [1 .. Len(v) -> Frame]
  OBVIOUS
<1>. QED
  BY <1>1 DEF announcing

\* An RTS gets the window of its node.
LEMMA AnnouncingRts ==
  ASSUME NEW f \in Frame, f.type = "RTS", NEW g, g = [f EXCEPT !.count = Window]
  PROVE  /\ announcing(<<f>>) = <<g>> \o <<>> /\ g \in Frame
         /\ g.type = f.type /\ g.src = f.src /\ g.dst = f.dst
         /\ g.hdr = f.hdr /\ g.total = f.total
<1>1. Window \in Number
  BY PairAssumption, NumberRanges DEF Number
<1>2. /\ g \in Frame
      /\ g.type = f.type /\ g.src = f.src /\ g.dst = f.dst
      /\ g.hdr = f.hdr /\ g.total = f.total
  BY <1>1, Zenon DEF Frame
<1>3. announcing(<<f>>) = [i \in {1} |-> g]
  <2>1. DOMAIN <<f>> = {1} /\ <<f>>[1] = f
    OBVIOUS
  <2>2. announcing(<<f>>) = [i \in {1} |-> IF <<f>>[i].type = "RTS"
                                         THEN [<<f>>[i] EXCEPT !.count = Window]
                                         ELSE <<f>>[i]]
    BY <2>1 DEF announcing
  <2>. QED
    BY <2>1, <2>2
<1>4. <<g>> = [i \in {1} |-> g]
  OBVIOUS
<1>5. <<g>> \in Seq(Frame)
  BY <1>2
<1>6. <<g>> \o <<>> = <<g>>
  BY <1>5
<1>. QED
  BY <1>2, <1>3, <1>4, <1>6

\* A message to the other node is announced by an RTS.
LEMMA StartedRts ==
  ASSUME NEW n \in Node, NEW S, NEW s \in Session, owned(n, <<n, peer(n)>>, s),
         NEW e, e.sessions = put(S, <<n, peer(n)>>, s), e.out = <<rts_frame(s)>>
  PROVE  Started(n, S, peer(n), s.hdr, s.total, e)
<1>. DEFINE d == peer(n)
            f == rts_frame(s)
            g == [f EXCEPT !.count = Window]
<1>1. s.src = n /\ s.dst = d /\ Len(s.buf) = s.total
  BY DEF owned
<1>2. f \in Frame
  BY <1>1, SessionFrames
<1>3. f.type = "RTS" /\ f.src = n /\ f.dst = d /\ f.hdr = s.hdr /\ f.total = s.total
  BY <1>1 DEF rts_frame, cm_frame
<1>. HIDE DEF f
<1>4. /\ announcing(<<f>>) = <<g>> \o <<>> /\ g \in Frame
      /\ g.type = f.type /\ g.src = f.src /\ g.dst = f.dst
      /\ g.hdr = f.hdr /\ g.total = f.total
  BY <1>2, <1>3, AnnouncingRts
<1>. HIDE DEF g
<1>5. <<>> \in Seq(Frame) /\ Len(<<>>) = 0 /\ Outgoing(n, <<>>)
  BY DEF Outgoing
<1>6. proper(n, g) /\ announces(g, d) /\ same(g, s)
  BY <1>3, <1>4 DEF proper, announces, same
<1>7. Announced(n, d, s, g, <<>>)
  <2>1. Outgoing(n, <<g>> \o <<>>)
    BY <1>4, <1>5, <1>6, OutgoingInFront, ZenonT(40)
  <2>. HIDE DEF d
  <2>. QED
    BY <1>4, <1>5, <1>6, <2>1 DEF Announced
<1>8. same(s, s)
  BY DEF same
<1>9. announcing(e.out) = <<g>> \o <<>>
  BY <1>4 DEF f
<1>. QED
  BY <1>7, <1>8, <1>9, Zenon DEF Started

\* A message to all is announced by a BAM, with its packets behind it.
LEMMA StartedBam ==
  ASSUME NEW n \in Node, NEW S, NEW s \in Session, owned(n, <<n, NO_ADDR>>, s),
         NEW fails \in Failures,
         NEW e, e.sessions = put(S, <<n, NO_ADDR>>, send_data_packets(s, fails).session),
         e.out = <<bam_frame(s)>> \o send_data_packets(s, fails).out
  PROVE  Started(n, S, NO_ADDR, s.hdr, s.total, e)
<1>. DEFINE d == NO_ADDR
            k == <<n, d>>
            f == bam_frame(s)
            out == send_data_packets(s, fails).out
            u == send_data_packets(s, fails).session
<1>1. s.src = n /\ Len(s.buf) = s.total
  BY DEF owned
<1>2. f \in Frame
  BY <1>1, SessionFrames, SMTT(30)
<1>3. f.type = "BAM" /\ f.src = n /\ f.dst = d /\ f.hdr = s.hdr /\ f.total = s.total
  BY <1>1 DEF bam_frame, cm_frame
<1>4. /\ out \in Seq(BurstFrames(s))
      /\ \E x \in Number, y \in States : u = [s EXCEPT !.next = x, !.state = y]
  BY BurstFacts, ZenonT(60)
<1>. HIDE DEF f, out, u
<1>5. u \in Session /\ owned(n, k, u) /\ same(u, s)
  <2>1. PICK x \in Number, y \in States : u = [s EXCEPT !.next = x, !.state = y]
    BY <1>4, ZenonT(40)
  <2>2. /\ u \in Session
        /\ u.dir = s.dir /\ u.src = s.src /\ u.dst = s.dst /\ u.bam = s.bam
        /\ u.buf = s.buf /\ u.total = s.total /\ u.hdr = s.hdr
    BY <2>1, Zenon DEF Session, States
  <2>3. message(u) = message(s)
    BY <2>2, Zenon DEF message
  <2>. QED
    BY <2>2, <2>3, ZenonT(40) DEF owned, same
<1>6. Outgoing(n, out) /\ \A i \in 1 .. Len(out) : follows(out[i], d, s)
  <2>1. d \in {peer(n), NO_ADDR} /\ owned(n, <<n, d>>, s)
    OBVIOUS
  <2>. HIDE DEF d
  <2>. QED
    BY <1>4, <2>1, BurstSent, ZenonT(30)
<1>7. proper(n, f) /\ announces(f, d) /\ same(f, s)
  BY <1>3 DEF proper, announces, same
<1>8. out \in Seq(Frame) /\ Outgoing(n, <<f>> \o out)
  BY <1>2, <1>6, <1>7, OutgoingInFront DEF Outgoing
<1>9. announcing(e.out) = <<f>> \o out
  <2>. DEFINE v == <<f>> \o out
  <2>1. v = <<f>> \o out /\ e.out = v
    BY DEF f, out
  <2>. HIDE DEF v
  <2>2. /\ v \in Seq(Frame) /\ v[1] = f
        /\ \A i \in 1 .. Len(v) : i # 1 => i - 1 \in 1 .. Len(out) /\ v[i] = out[i - 1]
    BY <1>2, <1>8, <2>1, InFront
  <2>3. \A i \in 1 .. Len(out) : out[i].type # "RTS"
    <3>1. \A x \in BurstFrames(s) : x.type # "RTS"
      BY FrameTypes DEF BurstFrames
    <3>2. \A i \in 1 .. Len(out) : out[i] \in BurstFrames(s)
      BY <1>4, SMTT(30)
    <3>. QED
      BY <3>1, <3>2, Zenon
  <2>4. \A i \in 1 .. Len(v) : v[i].type # "RTS"
    BY <1>3, <2>2, <2>3
  <2>. QED
    BY <2>1, <2>2, <2>4, AnnouncingNoRts, ZenonT(40)
<1>10. Announced(n, d, s, f, out)
  BY <1>2, <1>6, <1>7, <1>8, Zenon DEF Announced
<1>11. e.sessions = put(S, <<n, d>>, u) /\ owned(n, <<n, d>>, u)
  BY <1>5 DEF u
<1>. QED
  BY <1>5, <1>9, <1>10, <1>11, Zenon DEF Started

\* send
LEMMA StartTx ==
  ASSUME NEW n \in Node, NEW S, Own(n, S), NEW d \in {peer(n), NO_ADDR}, NEW hdr \in Nat,
         NEW size \in 2 .. MaxPackets, NEW m, m = numbered(hdr, size),
         NEW e, e = start_tx(S, n, d, m.hdr, m.buf, {})
  PROVE  Started(n, S, d, hdr, size, e)
<1>. DEFINE k == <<n, d>>
            s == [new_session("Tx", n, d, m.hdr, m.buf) EXCEPT !.bam = (d = NO_ADDR)]
<1>1. /\ n \in Address /\ d \in Address /\ k \in Key /\ k[1] = n /\ k[2] = d
      /\ peer(n) # NO_ADDR
  BY NodeFacts, ZenonT(40)
<1>2. m.hdr = hdr /\ m.buf \in Seq(Data) /\ Len(m.buf) = size
  BY NumberedFacts
<1>3. /\ s \in Session
      /\ s.dir = "Tx" /\ s.src = n /\ s.dst = d /\ s.buf = m.buf
      /\ s.total = size /\ s.hdr = hdr /\ s.bam = (d = NO_ADDR)
  <2>. DEFINE h == m.hdr
              c == m.buf
              x == [new_session("Tx", n, d, h, c) EXCEPT !.bam = (d = NO_ADDR)]
  <2>1. h \in Nat /\ c \in Seq(Data) /\ Len(c) \in 2 .. MaxPackets /\ h = hdr /\ Len(c) = size
    BY <1>2
  <2>. HIDE DEF h, c
  <2>2. /\ x \in Session
        /\ x.dir = "Tx" /\ x.src = n /\ x.dst = d /\ x.buf = c
        /\ x.total = Len(c) /\ x.hdr = h /\ x.bam = (d = NO_ADDR)
    BY <1>1, <2>1, NewTxSession
  <2>. HIDE DEF x
  <2>3. x = s
    BY DEF x, s, h, c
  <2>. HIDE DEF s
  <2>. QED
    BY <2>1, <2>2, <2>3, SMTT(30) DEF c
<1>. DEFINE T == put(S, k, s)
<1>4. e = IF s.bam THEN send_bam_start(T, k, {}) ELSE send_rts(T, k, {})
  BY <1>2 DEF start_tx, make_key
<1>. HIDE DEF s
<1>5. T[k] = s /\ \A u : put(T, k, u) = put(S, k, u)
  BY <1>1 DEF put, Own, SessionMap
<1>6. owned(n, k, s)
  <2>1. message(s) = numbered(hdr, size)
    BY <1>3 DEF message, numbered
  <2>. QED
    BY <1>1, <1>2, <1>3, <2>1, SMTT(30) DEF owned
<1>7. CASE d # NO_ADDR
  <2>1. e.sessions = put(S, k, s) /\ e.out = <<rts_frame(s)>> /\ d = peer(n)
    <3>. HIDE DEF T, k
    <3>1. e = send_rts(T, k, {}) /\ d = peer(n)
      BY <1>3, <1>4, <1>7, ZenonT(40)
    <3>2. e.sessions = T /\ e.out = <<rts_frame(s)>>
      BY <1>5, <3>1, SMTT(30) DEF send_rts
    <3>. QED
      BY <3>1, <3>2 DEF T
  <2>2. Started(n, S, peer(n), s.hdr, s.total, e)
    BY <1>3, <1>6, <2>1, StartedRts
  <2>. QED
    BY <1>3, <2>1, <2>2, SMTT(30)
<1>8. CASE d = NO_ADDR
  <2>. DEFINE b == send_data_packets(s, later({}))
  <2>1. e.sessions = put(S, k, b.session) /\ e.out = <<bam_frame(s)>> \o b.out
    <3>. HIDE DEF T, k
    <3>1. e = send_bam_start(T, k, {})
      BY <1>3, <1>4, <1>8, ZenonT(40)
    <3>2. e.sessions = put(T, k, b.session) /\ e.out = <<bam_frame(s)>> \o b.out
      BY <1>5, <3>1, SMTT(30) DEF send_bam_start
    <3>. QED
      BY <1>5, <3>2
  <2>2. /\ s \in Session /\ owned(n, <<n, NO_ADDR>>, s)
        /\ e.sessions = put(S, <<n, NO_ADDR>>, b.session)
    BY <1>3, <1>6, <1>8, <2>1
  <2>3. Started(n, S, NO_ADDR, s.hdr, s.total, e)
    BY <2>1, <2>2, StartedBam, NoFailure, LaterFailures, Zenon
  <2>. QED
    BY <1>3, <1>8, <2>3
<1>. QED
  BY <1>7, <1>8

\* A link on which a message is announced.
LEMMA LinkAnnounced ==
  ASSUME NEW w \in Seq(Frame), NEW n, NEW d, NEW s, NEW f, NEW out, Announced(n, d, s, f, out),
         s # NoSession, NEW T, NEW u, same(u, s), NEW R, NEW off, NEW more, NEW del,
         LinkOK(w, T, R, off, del, d),
         Range(off) \subseteq Range(more), numbered(s.hdr, s.total) \in Range(more),
         \A m \in Range(off) : m.hdr < s.hdr,
         \A x \in 1 .. Len(del) : del[x] \in Range(off)
  PROVE  LinkOK(w \o (<<f>> \o out), u, R, more, del, d)
<1>1. /\ f \in Frame /\ out \in Seq(Frame) /\ announces(f, d) /\ same(f, s)
      /\ \A i \in 1 .. Len(out) :
           ~announces(out[i], d) /\ (carries(out[i], d) => matches(out[i], s))
  BY FollowsFacts DEF Announced
<1>2. f.hdr = s.hdr /\ f.total = s.total
  BY <1>1 DEF same
<1>3. numbered(f.hdr, f.total) \in Range(more) /\ \A m \in Range(off) : m.hdr < f.hdr
  BY <1>2
<1>4. LinkOK(w \o <<f>>, s, R, more, del, d)
  BY <1>1, <1>3, AppendAnnounced, ZenonT(30)
<1>5. Continues(s, u, out, d)
  BY <1>1, Zenon DEF Continues
<1>6. <<f>> \in Seq(Frame)
  BY <1>1
<1>7. w \o <<f>> \in Seq(Frame)
  BY <1>6
<1>8. LinkOK((w \o <<f>>) \o out, u, R, more, del, d)
  BY <1>1, <1>4, <1>5, <1>7, LinkContinues, Zenon
<1>9. (w \o <<f>>) \o out = w \o (<<f>> \o out)
  BY <1>1, <1>6
<1>. QED
  BY <1>8, <1>9, ZenonT(40)

\* A link of the same node to another destination.
LEMMA LinkElsewhere ==
  ASSUME NEW w \in Seq(Frame), NEW n, NEW d, NEW s, NEW f, NEW out, Announced(n, d, s, f, out),
         NEW c, c # d, NEW T, NEW R, NEW off, NEW del, LinkOK(w, T, R, off, del, c)
  PROVE  LinkOK(w \o (<<f>> \o out), T, R, off, del, c)
<1>. DEFINE v == <<f>> \o out
<1>1. v = <<f>> \o out
  OBVIOUS
<1>. HIDE DEF v
<1>2. /\ f \in Frame /\ out \in Seq(Frame) /\ ~announces(f, c) /\ ~carries(f, c)
      /\ \A i \in 1 .. Len(out) : ~announces(out[i], c) /\ ~carries(out[i], c)
  <2>1. /\ f \in Frame /\ out \in Seq(Frame) /\ announces(f, d)
        /\ \A i \in 1 .. Len(out) : follows(out[i], d, s)
    BY DEF Announced
  <2>2. ~announces(f, c) /\ ~carries(f, c)
    BY <2>1 DEF announces, carries
  <2>3. \A i \in 1 .. Len(out) : ~announces(out[i], c) /\ ~carries(out[i], c)
    BY <2>1, FollowsFacts, SMTT(30)
  <2>. QED
    BY <2>1, <2>2, <2>3
<1>3. /\ v \in Seq(Frame) /\ v[1] = f
      /\ \A i \in 1 .. Len(v) : i # 1 => i - 1 \in 1 .. Len(out) /\ v[i] = out[i - 1]
  BY <1>1, <1>2, InFront
<1>4. \A i \in 1 .. Len(v) : ~announces(v[i], c) /\ ~carries(v[i], c)
  BY <1>2, <1>3, Zenon
<1>5. Continues(T, T, v, c)
  BY <1>4 DEF Continues, same
<1>6. LinkOK(w \o v, T, R, off, del, c)
  BY <1>3, <1>5, LinkContinues, Zenon
<1>. QED
  BY <1>6 DEF v

------------------------------------------------------------------------------
(* The messages of a link *)

\* A message is told by its header.
LEMMA MessageFacts ==
  ASSUME NEW m \in Message
  PROVE  m.hdr \in Nat /\ m.hdr \in 1 .. MaxSend
BY PairAssumption DEF Message, numbered

\* off are the messages offered, the last of all links being number last, and del
\* the messages delivered.
Numbered(off, del, last) ==
  /\ off \in Seq(Message) /\ del \in Seq(Message)
  /\ \A i \in 1 .. Len(off) : off[i].hdr <= last
  /\ \A i, j \in 1 .. Len(off) : i < j => off[i].hdr < off[j].hdr
  /\ \A x \in 1 .. Len(del) : del[x] \in Range(off)

\* The elements of a sequence.
LEMMA ElementsOfSeq ==
  ASSUME NEW M, NEW s \in Seq(M)
  PROVE  \A x : x \in Range(s) <=> \E i \in 1 .. Len(s) : x = s[i]
<1>1. DOMAIN s = 1 .. Len(s)
  OBVIOUS
<1>. QED
  BY <1>1, Zenon DEF Range

\* A message is offered on another link.
LEMMA NumberedLater ==
  ASSUME NEW off, NEW del, NEW last \in Nat, Numbered(off, del, last)
  PROVE  Numbered(off, del, last + 1)
<1>1. ASSUME NEW i \in 1 .. Len(off)
      PROVE  off[i].hdr <= last + 1
  <2>1. off[i].hdr \in Nat /\ off[i].hdr <= last
    BY MessageFacts, SMTT(30) DEF Numbered
  <2>. QED
    BY <2>1
<1>. QED
  BY <1>1 DEF Numbered

\* A message is offered on this link.
LEMMA NumberedOffer ==
  ASSUME NEW off, NEW del, NEW last \in Nat, Numbered(off, del, last),
         NEW m \in Message, m.hdr = last + 1, NEW more, more = Append(off, m)
  PROVE  /\ Numbered(more, del, last + 1)
         /\ Range(off) \subseteq Range(more) /\ m \in Range(more)
         /\ \A x \in Range(off) : x.hdr < m.hdr
         /\ \A i \in DOMAIN off : off[i] # m
         /\ Len(more) = Len(off) + 1
<1>1. off \in Seq(Message) /\ del \in Seq(Message)
  BY DEF Numbered
<1>2. /\ more \in Seq(Message) /\ Len(more) = Len(off) + 1 /\ Len(off) \in Nat
      /\ \A i \in 1 .. Len(off) : more[i] = off[i]
      /\ more[Len(off) + 1] = m
  BY <1>1, SMTT(30)
<1>3. \A i \in 1 .. Len(off) : off[i].hdr \in Nat /\ off[i].hdr <= last
  BY <1>1, MessageFacts, SMTT(30) DEF Numbered
<1>4. /\ \A x : x \in Range(off) <=> \E i \in 1 .. Len(off) : x = off[i]
      /\ \A x : x \in Range(more) <=> \E i \in 1 .. Len(more) : x = more[i]
  <2>1. more \in Seq(Message)
    BY <1>2
  <2>. QED
    BY <1>1, <2>1, ElementsOfSeq, ZenonT(30)
<1>5. Range(off) \subseteq Range(more) /\ m \in Range(more)
  BY <1>2, <1>4, SMTT(30)
<1>6. \A x \in Range(off) : x.hdr < m.hdr
  BY <1>3, <1>4, SMTT(30)
<1>7. \A i \in DOMAIN off : off[i] # m
  <2>1. DOMAIN off = 1 .. Len(off)
    BY <1>1, SMTT(30)
  <2>. QED
    BY <1>3, <2>1, SMTT(30)
<1>8. \A i \in 1 .. Len(more) : more[i].hdr <= last + 1
  BY <1>2, <1>3, SMTT(30)
<1>9. ASSUME NEW i \in 1 .. Len(more), NEW j \in 1 .. Len(more), i < j
      PROVE  more[i].hdr < more[j].hdr
  <2>1. i \in 1 .. Len(off) /\ more[i] = off[i]
    BY <1>2, <1>9, SMTT(30)
  <2>2. CASE j = Len(off) + 1
    BY <1>2, <1>3, <2>1, <2>2, SMTT(30)
  <2>3. CASE j # Len(off) + 1
    <3>1. j \in 1 .. Len(off) /\ more[j] = off[j]
      BY <1>2, <2>3, SMTT(30)
    <3>. QED
      BY <1>9, <2>1, <3>1, SMTT(30) DEF Numbered
  <2>. QED
    BY <2>2, <2>3, SMTT(30)
<1>10. \A x \in 1 .. Len(del) : del[x] \in Range(more)
  BY <1>5 DEF Numbered
<1>. QED
  BY <1>1, <1>2, <1>5, <1>6, <1>7, <1>8, <1>9, <1>10, SMTT(30) DEF Numbered

\* A message is delivered that comes after all that were.
LEMMA NumberedDeliver ==
  ASSUME NEW off, NEW del, NEW last \in Nat, Numbered(off, del, last),
         NEW m, Fresh(m, off, del), NEW more, more = Append(del, m)
  PROVE  /\ Numbered(off, more, last)
         /\ \E i \in DOMAIN off :
              off[i] = m /\ \A j \in DOMAIN off, x \in DOMAIN del : off[j] = del[x] => j < i
<1>1. /\ off \in Seq(Message) /\ del \in Seq(Message)
      /\ DOMAIN off = 1 .. Len(off) /\ DOMAIN del = 1 .. Len(del) /\ Len(off) \in Nat
  BY DEF Numbered
<1>2. PICK i \in 1 .. Len(off) : off[i] = m
  BY <1>1, ElementsOfSeq, SMTT(30) DEF Fresh
<1>3. m \in Message /\ m \in Range(off)
  BY <1>1, <1>2, SMTT(30) DEF Fresh
<1>4. ASSUME NEW j \in 1 .. Len(off), NEW x \in 1 .. Len(del), off[j] = del[x]
      PROVE  j < i
  <2>1. off[j].hdr < off[i].hdr
    BY <1>2, <1>4, SMTT(30) DEF Fresh
  <2>2. off[j].hdr \in Nat /\ off[i].hdr \in Nat
    BY <1>1, MessageFacts, SMTT(30)
  <2>3. ~(i < j) /\ i # j
    BY <2>1, <2>2, SMTT(30) DEF Numbered
  <2>. QED
    BY <2>3
<1>5. /\ more \in Seq(Message)
      /\ \A x \in 1 .. Len(more) : (x \in 1 .. Len(del) /\ more[x] = del[x]) \/ more[x] = m
  BY <1>1, <1>3, SMTT(30)
<1>6. Numbered(off, more, last)
  BY <1>1, <1>3, <1>5, SMTT(30) DEF Numbered
<1>. QED
  BY <1>1, <1>2, <1>4, <1>6, SMTT(30)

------------------------------------------------------------------------------
(* The invariant *)

\* What holds of every link.
LinkInv(l) ==
  /\ Numbered(offered[l], delivered[l], sends)
  /\ LinkOK(wire[l[1]], sessions[l[1]][l], sessions[peer(l[1])][l],
            offered[l], delivered[l], l[2])

\* The sessions are of the two nodes, the frames are theirs, and every link is as
\* the delivery of its messages needs it.
PairInv ==
  /\ faults = 0
  /\ sessions = [n \in Node |-> sessions[n]] /\ wire = [n \in Node |-> wire[n]]
  /\ offered = [l \in Link |-> offered[l]] /\ delivered = [l \in Link |-> delivered[l]]
  /\ \A n \in Node : Own(n, sessions[n]) /\ Outgoing(n, wire[n])
  /\ \A l \in Link : LinkInv(l)

\* The four links.
LEMMA FourLinks ==
  /\ Link = {<<0, 1>>, <<1, 0>>, <<0, NO_ADDR>>, <<1, NO_ADDR>>}
  /\ NO_ADDR \notin {0, 1}
<1>1. Node = {0, 1} /\ NO_ADDR = 3
  BY PairAssumption DEF Node, Unicast, NO_ADDR
<1>. QED
  BY <1>1 DEF Link

\* The number of messages sent is that of the messages offered.
LEMMA SendsFacts ==
  ASSUME PairInv
  PROVE  /\ sends \in Nat
         /\ \A l \in Link, m \in Message :
              offered' = [offered EXCEPT ![l] = Append(offered[l], m)] => sends' = sends + 1
<1>. DEFINE a == <<0, 1>>
            b == <<1, 0>>
            c == <<0, NO_ADDR>>
            d == <<1, NO_ADDR>>
            A == Len(offered[a])
            B == Len(offered[b])
            C == Len(offered[c])
            D == Len(offered[d])
            A2 == Len(offered'[a])
            B2 == Len(offered'[b])
            C2 == Len(offered'[c])
            D2 == Len(offered'[d])
<1>1. Link = {a, b, c, d} /\ a # b /\ a # c /\ a # d /\ b # c /\ b # d /\ c # d
  BY FourLinks
<1>2. sends = A + B + C + D /\ sends' = A2 + B2 + C2 + D2
  BY DEF sends
<1>. HIDE DEF a, b, c, d
<1>3. \A l \in Link : offered[l] \in Seq(Message) /\ Len(offered[l]) \in Nat
  BY DEF PairInv, LinkInv, Numbered
<1>4. A \in Nat /\ B \in Nat /\ C \in Nat /\ D \in Nat
  BY <1>1, <1>3, Zenon
<1>5. ASSUME NEW l \in Link, NEW m \in Message,
             offered' = [offered EXCEPT ![l] = Append(offered[l], m)]
      PROVE  sends' = sends + 1
  <2>. DEFINE x == Append(offered[l], m)
  <2>1. Len(x) = Len(offered[l]) + 1
    BY <1>3
  <2>2. \A k \in Link : offered'[k] = IF k = l THEN x ELSE offered[k]
    BY <1>5 DEF PairInv
  <2>. HIDE DEF x
  <2>3. /\ Len(offered'[l]) = Len(offered[l]) + 1
        /\ \A k \in Link : k # l => Len(offered'[k]) = Len(offered[k])
    BY <2>1, <2>2, Zenon
  <2>4. \/ A2 = A + 1 /\ B2 = B /\ C2 = C /\ D2 = D
        \/ A2 = A /\ B2 = B + 1 /\ C2 = C /\ D2 = D
        \/ A2 = A /\ B2 = B /\ C2 = C + 1 /\ D2 = D
        \/ A2 = A /\ B2 = B /\ C2 = C /\ D2 = D + 1
    <3>1. l \in {a, b, c, d}
      BY <1>1
    <3>. QED
      BY <1>1, <2>3, <3>1, Zenon
  <2>. HIDE DEF A, B, C, D, A2, B2, C2, D2
  <2>. QED
    BY <1>2, <1>4, <2>4
<1>6. sends \in Nat
  <2>. HIDE DEF A, B, C, D
  <2>. QED
    BY <1>2, <1>4
<1>. QED
  BY <1>5, <1>6

\* Nothing is sent or received yet.
LEMMA PairInit == Init => PairInv
<1>. SUFFICES ASSUME Init PROVE PairInv
  OBVIOUS
<1>1. ASSUME NEW n \in Node
      PROVE  Own(n, sessions[n]) /\ Outgoing(n, wire[n])
  BY DEF Init, Own, Outgoing, EmptyMap, SessionMap
<1>2. ASSUME NEW l \in Link
      PROVE  LinkInv(l)
  <2>1. /\ wire[l[1]] = <<>> /\ offered[l] = <<>> /\ delivered[l] = <<>>
        /\ sessions[l[1]][l] = NoSession /\ sessions[peer(l[1])][l] = NoSession
    BY LinkFacts, NodeFacts, ZenonT(40) DEF Init, EmptyMap
  <2>2. Numbered(<<>>, <<>>, sends)
    BY DEF Numbered
  <2>3. LinkOK(<<>>, NoSession, NoSession, <<>>, <<>>, l[2])
    BY DEF LinkOK, Grouped, Ordered, Fed, Ahead, Sending, Receiving
  <2>. QED
    BY <2>1, <2>2, <2>3, SMTT(30) DEF LinkInv
<1>. QED
  BY <1>1, <1>2 DEF PairInv, Init

\* A link of the node that receives fr.
LEMMA ReceiveOwnLink ==
  ASSUME NEW n \in Node, NEW S, NEW fr, NEW e, Handled(n, S, fr, e),
         NEW l \in Link, l[1] = n, NEW w, Outgoing(n, w), NEW R, NEW off, NEW del,
         LinkOK(w, S[l], R, off, del, l[2])
  PROVE  /\ LinkOK(w \o e.out, e.sessions[l], R, off, del, l[2])
         /\ l = <<fr.src, fr.dst>> => e.up = <<>>
<1>1. Continues(S[l], e.sessions[l], e.out, l[2])
  BY Zenon DEF Handled
<1>2. w \in Seq(Frame) /\ e.out \in Seq(Frame)
  BY DEF Outgoing, Handled
<1>3. LinkOK(w \o e.out, e.sessions[l], R, off, del, l[2])
  BY <1>1, <1>2, LinkContinues, Zenon
<1>4. l = <<fr.src, fr.dst>> => fr.src = n
  BY LinkFacts
<1>5. e.up = <<>> \/ fr.src = peer(n)
  BY DEF Handled
<1>. QED
  BY <1>3, <1>4, <1>5, NodeFacts, ZenonT(40)

\* A link to that node.
LEMMA ReceivePeerLink ==
  ASSUME NEW n \in Node, NEW S, Own(n, S), NEW w, Outgoing(peer(n), w), w # <<>>,
         NEW e, Handled(n, S, Head(w), e),
         NEW l \in Link, l[1] = peer(n), NEW T, NEW off, NEW del \in Seq(Message),
         LinkOK(w, T, S[l], off, del, l[2]),
         NEW up, up = IF l = <<Head(w).src, Head(w).dst>> THEN e.up ELSE <<>>
  PROVE  /\ LinkOK(Tail(w), T, e.sessions[l], off, del \o up, l[2])
         /\ Following(up, off, del)
<1>1. Takes(S[l], e.sessions[l], Head(w), up, l[2])
  BY Zenon DEF Handled
<1>2. w \in Seq(Frame)
  BY DEF Outgoing
<1>3. l \in Key
  BY LinkFacts
<1>4. S[l] # NoSession => S[l] \in Session /\ Len(S[l].buf) = S[l].total
  BY <1>3 DEF Own, SessionMap, owned
<1>5. \A m \in Message : m.hdr \in Nat
  BY MessageFacts
<1>. QED
  BY <1>1, <1>2, <1>4, <1>5, LinkTakes, ZenonT(30)

\* The new state has the invariant if every node and every link has it.
LEMMA PairNext ==
  ASSUME PairInv, faults' = 0, NEW n \in Node, NEW U, NEW v, NEW x, Own(n, U), Outgoing(n, v),
         Outgoing(peer(n), x), sessions' = [sessions EXCEPT ![n] = U],
         wire' = [wire EXCEPT ![n] = v, ![peer(n)] = x],
         offered' = [l \in Link |-> offered'[l]], delivered' = [l \in Link |-> delivered'[l]],
         \A l \in Link : Numbered(offered'[l], delivered'[l], sends'),
         \A l \in Link : l[1] = n =>
           LinkOK(v, U[l], sessions[peer(n)][l], offered'[l], delivered'[l], l[2]),
         \A l \in Link : l[1] = peer(n) =>
           LinkOK(x, sessions[peer(n)][l], U[l], offered'[l], delivered'[l], l[2])
  PROVE  PairInv'
<1>. DEFINE p == peer(n)
<1>1. p \in Node /\ p # n /\ peer(p) = n /\ \A a \in Node : a \in {n, p}
  BY NodeFacts, ZenonT(40)
<1>2. /\ sessions'[n] = U /\ sessions'[p] = sessions[p]
      /\ wire'[n] = v /\ wire'[p] = x
      /\ sessions' = [a \in Node |-> sessions'[a]] /\ wire' = [a \in Node |-> wire'[a]]
  BY <1>1, ZenonT(40) DEF PairInv
<1>3. \A a \in Node : Own(a, sessions'[a]) /\ Outgoing(a, wire'[a])
  BY <1>1, <1>2, ZenonT(40) DEF PairInv
<1>4. ASSUME NEW l \in Link
      PROVE  LinkOK(wire'[l[1]], sessions'[l[1]][l], sessions'[peer(l[1])][l],
                    offered'[l], delivered'[l], l[2])
  <2>1. l[1] \in {n, p}
    BY <1>1, LinkFacts, SMTT(30)
  <2>2. CASE l[1] = n
    BY <1>1, <1>2, <2>2, ZenonT(40)
  <2>3. CASE l[1] = p
    BY <1>1, <1>2, <2>3, ZenonT(60)
  <2>. QED
    BY <2>1, <2>2, <2>3, SMTT(30)
<1>5. \A l \in Link : LinkInv(l)'
  BY <1>4, Zenon DEF LinkInv
<1>. QED
  BY <1>2, <1>3, <1>5, Zenon DEF PairInv

\* Node n sends more.
LEMMA OutgoingConcat ==
  ASSUME NEW n, NEW w, Outgoing(n, w), NEW out, Outgoing(n, out)
  PROVE  Outgoing(n, w \o out)
<1>. DEFINE v == w \o out
<1>1. w \in Seq(Frame) /\ out \in Seq(Frame) /\ v = w \o out
  BY DEF Outgoing
<1>. HIDE DEF v
<1>2. /\ v \in Seq(Frame) /\ Len(w) \in Nat /\ Len(v) \in Nat
      /\ \A i \in 1 .. Len(w) : v[i] = w[i]
      /\ \A i \in 1 .. Len(v) : i > Len(w) => i - Len(w) \in 1 .. Len(out) /\ v[i] = out[i - Len(w)]
  BY <1>1, ConcatFacts, SMTT(30)
<1>3. \A i \in 1 .. Len(v) : proper(n, v[i])
  BY <1>2, SMTT(30) DEF Outgoing
<1>. QED
  BY <1>2, <1>3, SMTT(30) DEF Outgoing, v

------------------------------------------------------------------------------
(* The steps *)

\* The abstract step of a message that is received, or none.
Passes ==
  \/ UNCHANGED delivered
  \/ \E l \in Link : \E i \in DOMAIN offered[l] : Delivery!Deliver(l, i)

\* Node n receives a frame.
LEMMA ReceiveStep ==
  ASSUME PairInv, NEW n \in Node, Receive(n, {})
  PROVE  PairInv' /\ UNCHANGED offered /\ Passes
<1>. DEFINE p == peer(n)
            S == sessions[n]
            w == wire[p]
            fr == Head(w)
            e == on_can_frame(S, n, fr, {})
            k == <<fr.src, fr.dst>>
            up(l) == IF l = k THEN e.up ELSE <<>>
<1>1. p \in Node /\ p # n /\ peer(p) = n
  BY NodeFacts, ZenonT(40)
<1>2. /\ Own(n, S) /\ Outgoing(n, wire[n]) /\ Outgoing(p, w) /\ w # <<>>
      /\ faults = 0
  BY <1>1, ZenonT(40) DEF PairInv, Receive
<1>3. fr \in Frame /\ proper(p, fr) /\ Tail(w) \in Seq(Frame) /\ Outgoing(p, Tail(w))
  <2>1. w \in Seq(Frame) /\ \A i \in 1 .. Len(w) : proper(p, w[i])
    BY <1>2, SMTT(30) DEF Outgoing
  <2>. DEFINE t == Tail(w)
  <2>2. /\ t \in Seq(Frame) /\ fr \in Frame /\ w[1] = fr /\ 1 \in 1 .. Len(w)
        /\ \A i \in 1 .. Len(t) : t[i] = w[i + 1] /\ i + 1 \in 1 .. Len(w)
    BY <1>2, <2>1, TailFacts, SMTT(30)
  <2>. HIDE DEF w, t, fr
  <2>3. Outgoing(p, t)
    BY <2>1, <2>2, SMTT(30) DEF Outgoing
  <2>. QED
    BY <2>1, <2>2, <2>3 DEF t
<1>4. Handled(n, S, fr, e)
  BY <1>2, <1>3, HandledAll, Zenon
<1>5. /\ sessions' = [sessions EXCEPT ![n] = e.sessions]
      /\ wire' = [wire EXCEPT ![n] = wire[n] \o e.out, ![p] = Tail(w)]
      /\ delivered' = IF e.up = <<>> THEN delivered
                      ELSE [delivered EXCEPT ![k] = delivered[k] \o e.up]
      /\ offered' = offered /\ faults' = 0
  <2>1. /\ sessions' = [sessions EXCEPT ![n] = e.sessions]
        /\ delivered' = IF e.up = <<>> THEN delivered
                        ELSE [delivered EXCEPT ![k] = delivered[k] \o e.up]
        /\ offered' = offered /\ faults' = 0
    BY <1>2, Zenon DEF Receive, count_faults
  <2>2. wire' = [wire EXCEPT ![n] = @ \o e.out, ![p] = Tail(@)]
    BY Zenon DEF Receive
  <2>. HIDE DEF e, k, p
  <2>3. wire' = [wire EXCEPT ![n] = wire[n] \o e.out, ![p] = Tail(w)]
    BY <1>1, <2>2, SMTT(30) DEF PairInv
  <2>. QED
    BY <2>1, <2>3
<1>. HIDE DEF e
<1>6. sends' = sends
  BY <1>5 DEF sends
<1>7. \A l \in Link : /\ offered[l] \in Seq(Message) /\ delivered[l] \in Seq(Message)
                      /\ Numbered(offered[l], delivered[l], sends)
                      /\ LinkOK(wire[l[1]], sessions[l[1]][l], sessions[peer(l[1])][l],
                                offered[l], delivered[l], l[2])
  BY DEF PairInv, LinkInv, Numbered
<1>. HIDE DEF fr, k
<1>8. \A l \in Link : /\ delivered'[l] = delivered[l] \o up(l)
                      /\ delivered[l] \o <<>> = delivered[l]
  <2>1. \A l \in Link : delivered[l] \o <<>> = delivered[l]
    BY <1>7, SMTT(30)
  <2>. QED
    BY <1>5, <2>1, ZenonT(40) DEF PairInv
<1>9. delivered' = [l \in Link |-> delivered'[l]]
  BY <1>5, ZenonT(40) DEF PairInv
<1>10. ASSUME NEW l \in Link, l[1] = n
       PROVE  /\ LinkOK(wire[n] \o e.out, e.sessions[l], sessions[p][l],
                        offered[l], delivered'[l], l[2])
              /\ up(l) = <<>>
  <2>1. LinkOK(wire[n], S[l], sessions[p][l], offered[l], delivered[l], l[2])
    BY <1>7, <1>10, SMTT(30)
  <2>. HIDE DEF p, S
  <2>2. /\ LinkOK(wire[n] \o e.out, e.sessions[l], sessions[p][l],
                  offered[l], delivered[l], l[2])
        /\ l = k => e.up = <<>>
    BY <1>2, <1>4, <1>10, <2>1, ReceiveOwnLink, SMTT(60) DEF k
  <2>3. up(l) = <<>> /\ delivered'[l] = delivered[l]
    BY <1>8, <2>2, ZenonT(40)
  <2>. QED
    BY <2>2, <2>3, SMTT(30)
<1>11. ASSUME NEW l \in Link, l[1] = p
       PROVE  /\ LinkOK(Tail(w), sessions[p][l], e.sessions[l],
                        offered[l], delivered'[l], l[2])
              /\ Following(up(l), offered[l], delivered[l])
  <2>1. LinkOK(w, sessions[p][l], S[l], offered[l], delivered[l], l[2])
    BY <1>1, <1>7, <1>11, SMTT(30)
  <2>. DEFINE u == up(l)
  <2>2. u = IF l = <<Head(w).src, Head(w).dst>> THEN e.up ELSE <<>>
    BY DEF k, fr
  <2>3. Handled(n, S, Head(w), e) /\ delivered'[l] = delivered[l] \o u
    BY <1>4, <1>8, ZenonT(40) DEF fr
  <2>4. delivered[l] \in Seq(Message)
    BY <1>7
  <2>. HIDE DEF u, w, S
  <2>5. /\ LinkOK(Tail(w), sessions[p][l], e.sessions[l], offered[l], delivered[l] \o u, l[2])
        /\ Following(u, offered[l], delivered[l])
    BY <1>2, <1>11, <2>1, <2>2, <2>3, <2>4, ReceivePeerLink, ZenonT(90)
  <2>. QED
    BY <2>3, <2>5, SMTT(30) DEF u
<1>12. \A l \in Link : Following(up(l), offered[l], delivered[l])
  <2>1. \A l \in Link : l[1] = n \/ l[1] = p
    BY LinkFacts, NodeFacts, ZenonT(40)
  <2>. QED
    BY <1>10, <1>11, <2>1 DEF Following
<1>13. ASSUME NEW l \in Link
       PROVE  /\ Numbered(offered[l], delivered'[l], sends)
              /\ \/ up(l) = <<>>
                 \/ \E m :
                      /\ up(l) = <<m>>
                      /\ delivered'[l] = Append(delivered[l], m)
                      /\ \E i \in DOMAIN offered[l] :
                           /\ offered[l][i] = m
                           /\ \A j \in DOMAIN offered[l], x \in DOMAIN delivered[l] :
                                offered[l][j] = delivered[l][x] => j < i
  <2>1. CASE up(l) = <<>>
    <3>1. delivered'[l] = delivered[l]
      BY <1>8, <2>1, ZenonT(40)
    <3>. QED
      BY <1>7, <2>1, <3>1, SMTT(30)
  <2>2. CASE up(l) # <<>>
    <3>1. PICK m : up(l) = <<m>> /\ Fresh(m, offered[l], delivered[l])
      BY <1>12, <2>2, SMTT(30) DEF Following
    <3>2. delivered'[l] = Append(delivered[l], m)
      <4>1. m \in Message
        <5>1. Range(offered[l]) \subseteq Message
          BY <1>7, SMTT(30) DEF Range
        <5>. QED
          BY <3>1, <5>1, SMTT(30) DEF Fresh
      <4>2. delivered[l] \o <<m>> = Append(delivered[l], m)
        BY <1>7, <4>1, SMTT(30)
      <4>. QED
        BY <1>8, <3>1, <4>2, ZenonT(40)
    <3>3. sends \in Nat /\ Numbered(offered[l], delivered[l], sends)
      BY <1>7, SendsFacts, SMTT(30)
    <3>. DEFINE off == offered[l]
                del == delivered[l]
                more == delivered'[l]
    <3>4. /\ Numbered(off, more, sends)
          /\ \E i \in DOMAIN off :
               off[i] = m /\ \A j \in DOMAIN off, x \in DOMAIN del : off[j] = del[x] => j < i
      <4>1. Numbered(off, del, sends) /\ Fresh(m, off, del) /\ more = Append(del, m)
        BY <3>1, <3>2, <3>3
      <4>. HIDE DEF off, del, more
      <4>. QED
        BY <3>3, <4>1, NumberedDeliver, ZenonT(40)
    <3>. QED
      BY <3>1, <3>2, <3>4, SMTT(30)
  <2>. QED
    BY <2>1, <2>2, SMTT(30)
<1>14. PairInv'
  <2>1. Own(n, e.sessions) /\ Outgoing(n, e.out)
    BY <1>4 DEF Handled
  <2>2. Outgoing(n, wire[n] \o e.out)
    BY <1>2, <2>1, OutgoingConcat, SMTT(30)
  <2>3. \A l \in Link : Numbered(offered'[l], delivered'[l], sends')
    BY <1>5, <1>6, <1>13, ZenonT(40)
  <2>4. /\ \A l \in Link : l[1] = n =>
             LinkOK(wire[n] \o e.out, e.sessions[l], sessions[p][l],
                    offered'[l], delivered'[l], l[2])
        /\ \A l \in Link : l[1] = p =>
             LinkOK(Tail(w), sessions[p][l], e.sessions[l], offered'[l], delivered'[l], l[2])
    BY <1>5, <1>10, <1>11, SMTT(30)
  <2>5. offered' = [l \in Link |-> offered'[l]]
    BY <1>5, SMTT(30) DEF PairInv
  <2>. HIDE DEF w, up, S
  <2>. QED
    BY <1>3, <1>5, <1>9, <2>1, <2>2, <2>3, <2>4, <2>5, PairNext, ZenonT(40)
<1>15. Passes
  <2>1. CASE e.up = <<>>
    BY <1>5, <2>1, SMTT(30) DEF Passes
  <2>2. CASE e.up # <<>> /\ k \notin Link
    <3>1. delivered' = delivered
      BY <1>5, <2>2, SMTT(30) DEF PairInv
    <3>. QED
      BY <3>1, SMTT(30) DEF Passes
  <2>3. CASE e.up # <<>> /\ k \in Link
    <3>1. up(k) # <<>>
      BY <2>3, SMTT(30)
    <3>2. PICK m : /\ delivered'[k] = Append(delivered[k], m)
                   /\ \E i \in DOMAIN offered[k] :
                        /\ offered[k][i] = m
                        /\ \A j \in DOMAIN offered[k], x \in DOMAIN delivered[k] :
                             offered[k][j] = delivered[k][x] => j < i
      BY <1>13, <2>3, <3>1, ZenonT(40)
    <3>3. delivered' = [delivered EXCEPT ![k] = Append(delivered[k], m)]
      <4>1. delivered' = [delivered EXCEPT ![k] = delivered'[k]]
        BY <1>5, <2>3, SMTT(30) DEF PairInv
      <4>. QED
        BY <3>2, <4>1, SMTT(30)
    <3>4. \E i \in DOMAIN offered[k] : Delivery!Deliver(k, i)
      BY <1>5, <3>2, <3>3, ZenonT(40) DEF Delivery!Deliver
    <3>. QED
      BY <2>3, <3>4, SMTT(30) DEF Passes
  <2>. QED
    BY <2>1, <2>2, <2>3, SMTT(30)
<1>. QED
  BY <1>5, <1>14, <1>15, SMTT(30)

\* A message is sent.
LEMMA SendStep ==
  ASSUME PairInv, NEW k \in Link, NEW size \in Sizes, Send(k[1], k[2], size, {})
  PROVE  PairInv' /\ \E m \in Message : Delivery!Offer(k, m)
<1>. DEFINE n == k[1]
            d == k[2]
            p == peer(n)
            S == sessions[n]
            m == numbered(sends + 1, size)
            e == start_tx(S, n, d, m.hdr, m.buf, {})
            more == Append(offered[k], m)
<1>1. /\ n \in Node /\ p \in Node /\ p # n /\ peer(p) = n /\ k = <<n, d>> /\ k \in Key
      /\ d \in {p, NO_ADDR}
  BY LinkFacts, NodeFacts, ZenonT(40)
<1>2. Own(n, S) /\ Outgoing(n, wire[n]) /\ Outgoing(p, wire[p]) /\ faults = 0
  BY <1>1, SMTT(30) DEF PairInv
<1>3. sends \in Nat /\ sends + 1 \in Nat /\ sends + 1 \in 1 .. MaxSend
  BY SendsFacts, PairAssumption, SMTT(30) DEF Send
<1>4. size \in 2 .. MaxPackets /\ m \in Message /\ m.hdr = sends + 1
  BY <1>3, PairAssumption, SMTT(30) DEF Message, numbered
<1>5. /\ sessions' = [sessions EXCEPT ![n] = e.sessions]
      /\ wire' = [wire EXCEPT ![n] = wire[n] \o announcing(e.out)]
      /\ offered' = [offered EXCEPT ![k] = more]
      /\ delivered' = delivered /\ faults' = 0
  <2>1. /\ sessions' = [sessions EXCEPT ![n] = e.sessions]
        /\ wire' = [wire EXCEPT ![n] = @ \o announcing(e.out)]
        /\ offered' = [offered EXCEPT ![<<n, d>>] = Append(@, m)]
        /\ delivered' = delivered /\ faults' = 0
    BY <1>2, Zenon DEF Send, transmit, count_faults
  <2>2. offered' = [offered EXCEPT ![k] = Append(@, m)]
    BY <1>1, <2>1, ZenonT(40)
  <2>. HIDE DEF e, m, n
  <2>. QED
    BY <2>1, <2>2, ZenonT(40)
<1>6. Started(n, S, d, sends + 1, size, e)
  <2>. DEFINE h == sends + 1
  <2>1. h \in Nat /\ m = numbered(h, size) /\ e = start_tx(S, n, d, m.hdr, m.buf, {})
    BY <1>3, SMTT(30)
  <2>. HIDE DEF h, m, e, S, n, d
  <2>2. Started(n, S, d, h, size, e)
    BY <1>1, <1>2, <1>4, <2>1, StartTx
  <2>. QED
    BY <2>2, SMTT(30) DEF h
<1>. HIDE DEF e
<1>7. PICK f, s, u, out :
        /\ e.sessions = put(S, <<n, d>>, u) /\ announcing(e.out) = <<f>> \o out
        /\ s \in Session /\ s.hdr = sends + 1 /\ s.total = size
        /\ u \in Session /\ owned(n, <<n, d>>, u) /\ same(u, s)
        /\ Announced(n, d, s, f, out)
  BY <1>6, Zenon DEF Started
<1>. DEFINE U == e.sessions
            v == wire[n] \o (<<f>> \o out)
<1>8. Own(n, U) /\ U[k] = u /\ \A l \in Key : l # k => U[l] = S[l]
  <2>1. /\ Own(n, put(S, k, u)) /\ put(S, k, u)[k] = u
        /\ \A l \in Key : l # k => put(S, k, u)[l] = S[l]
    <3>1. owned(n, k, u) /\ u \in Session
      BY <1>1, <1>7, ZenonT(40)
    <3>. HIDE DEF S, n
    <3>. QED
      BY <1>1, <1>2, <3>1, OwnPut, SMTT(30)
  <2>2. U = put(S, k, u)
    BY <1>1, <1>7, SMTT(30)
  <2>. HIDE DEF U, S
  <2>. QED
    BY <2>1, <2>2, SMTT(30)
<1>9. Outgoing(n, v) /\ wire[n] \in Seq(Frame)
  <2>1. Outgoing(n, <<f>> \o out)
    BY <1>7 DEF Announced
  <2>. QED
    BY <1>2, <2>1, OutgoingConcat, ZenonT(40) DEF Outgoing
<1>10. wire' = [wire EXCEPT ![n] = v, ![p] = wire[p]]
  BY <1>1, <1>5, <1>7, ZenonT(40) DEF PairInv
<1>. HIDE DEF U, v, S, m, n, d, p
<1>11. /\ offered' = [l \in Link |-> offered'[l]] /\ delivered' = [l \in Link |-> delivered'[l]]
       /\ offered'[k] = more /\ \A l \in Link : l # k => offered'[l] = offered[l]
  BY <1>5, ZenonT(40) DEF PairInv
<1>12. sends' = sends + 1
  BY <1>4, <1>5, SendsFacts, ZenonT(40)
<1>13. \A l \in Link : /\ Numbered(offered[l], delivered[l], sends)
                       /\ LinkOK(wire[l[1]], sessions[l[1]][l], sessions[peer(l[1])][l],
                                 offered[l], delivered[l], l[2])
  BY DEF PairInv, LinkInv
<1>14. /\ Numbered(more, delivered[k], sends + 1)
       /\ Range(offered[k]) \subseteq Range(more) /\ m \in Range(more)
       /\ \A x \in Range(offered[k]) : x.hdr < m.hdr
       /\ \A i \in DOMAIN offered[k] : offered[k][i] # m
  <2>1. Numbered(offered[k], delivered[k], sends) /\ more = Append(offered[k], m)
    BY <1>13
  <2>. DEFINE off == offered[k]
              del == delivered[k]
  <2>. HIDE DEF more, off, del
  <2>2. Numbered(off, del, sends) /\ more = Append(off, m)
    BY <2>1 DEF off, del
  <2>3. /\ Numbered(more, del, sends + 1)
        /\ Range(off) \subseteq Range(more) /\ m \in Range(more)
        /\ \A x \in Range(off) : x.hdr < m.hdr
        /\ \A i \in DOMAIN off : off[i] # m
    BY <1>3, <1>4, <2>2, NumberedOffer, ZenonT(40)
  <2>. QED
    BY <2>3 DEF off, del
<1>15. \A l \in Link : Numbered(offered'[l], delivered'[l], sends')
  <2>1. \A l \in Link : Numbered(offered[l], delivered[l], sends + 1)
    BY <1>3, <1>13, NumberedLater, SMTT(30)
  <2>. HIDE DEF more
  <2>. QED
    BY <1>5, <1>11, <1>12, <1>14, <2>1, SMTT(30)
<1>16. ASSUME NEW l \in Link, l[1] = n
       PROVE  LinkOK(v, U[l], sessions[p][l], offered'[l], delivered'[l], l[2])
  <2>1. /\ LinkOK(wire[n], S[l], sessions[p][l], offered[l], delivered[l], l[2])
        /\ delivered'[l] = delivered[l] /\ l \in Key
    BY <1>5, <1>13, <1>16, LinkFacts, SMTT(30) DEF S, p
  <2>2. CASE l = k
    <3>1. LinkOK(wire[n], S[k], sessions[p][k], offered[k], delivered[k], d)
      BY <2>1, <2>2, SMTT(30) DEF d
    <3>2. s # NoSession
      BY <1>7, NoneIsNoSession, SMTT(30)
    <3>3. numbered(s.hdr, s.total) \in Range(more) /\ \A x \in Range(offered[k]) : x.hdr < s.hdr
      BY <1>4, <1>7, <1>14, SMTT(30) DEF m
    <3>4. \A x \in 1 .. Len(delivered[k]) : delivered[k][x] \in Range(offered[k])
      BY <1>13 DEF Numbered
    <3>5. Announced(n, d, s, f, out) /\ same(u, s)
      BY <1>7
    <3>6. Range(offered[k]) \subseteq Range(more)
      BY <1>14
    <3>. HIDE DEF more
    <3>7. LinkOK(v, u, sessions[p][k], more, delivered[k], d)
      BY <1>9, <3>1, <3>2, <3>3, <3>4, <3>5, <3>6, LinkAnnounced, ZenonT(40) DEF v
    <3>. QED
      BY <1>8, <1>11, <2>1, <2>2, <3>7, SMTT(30) DEF d
  <2>3. CASE l # k
    <3>1. l[2] # d
      BY <1>1, <1>16, <2>3, LinkFacts, SMTT(30)
    <3>2. U[l] = S[l] /\ offered'[l] = offered[l]
      BY <1>8, <1>11, <2>1, <2>3, SMTT(30)
    <3>3. Announced(n, d, s, f, out)
      BY <1>7
    <3>4. LinkOK(v, S[l], sessions[p][l], offered[l], delivered[l], l[2])
      BY <1>9, <2>1, <3>1, <3>3, LinkElsewhere, SMTT(60) DEF v
    <3>. QED
      BY <2>1, <3>2, <3>4, SMTT(30)
  <2>. QED
    BY <2>2, <2>3, SMTT(30)
<1>17. ASSUME NEW l \in Link, l[1] = p
       PROVE  LinkOK(wire[p], sessions[p][l], U[l], offered'[l], delivered'[l], l[2])
  <2>1. /\ LinkOK(wire[p], sessions[p][l], S[l], offered[l], delivered[l], l[2])
        /\ delivered'[l] = delivered[l] /\ l \in Key /\ l # k
    BY <1>1, <1>5, <1>13, <1>17, LinkFacts, SMTT(30) DEF S, n
  <2>. QED
    BY <1>8, <1>11, <2>1, SMTT(30)
<1>18. PairInv'
  <2>1. /\ sessions' = [sessions EXCEPT ![n] = U]
        /\ wire' = [wire EXCEPT ![n] = v, ![peer(n)] = wire[peer(n)]]
        /\ Outgoing(peer(n), wire[peer(n)]) /\ n \in Node /\ faults' = 0
    BY <1>1, <1>2, <1>5, <1>10, ZenonT(40) DEF U, p
  <2>2. /\ \A l \in Link : l[1] = n =>
             LinkOK(v, U[l], sessions[peer(n)][l], offered'[l], delivered'[l], l[2])
        /\ \A l \in Link : l[1] = peer(n) =>
             LinkOK(wire[peer(n)], sessions[peer(n)][l], U[l], offered'[l], delivered'[l], l[2])
    BY <1>16, <1>17, Zenon DEF p
  <2>. QED
    BY <1>8, <1>9, <1>11, <1>15, <2>1, <2>2, PairNext, ZenonT(40)
<1>19. Delivery!Offer(k, m)
  BY <1>5, <1>14, SMTT(30) DEF Delivery!Offer
<1>. QED
  BY <1>4, <1>18, <1>19

\* Node n removes idle sessions.
LEMMA TickStep ==
  ASSUME PairInv, NEW n \in Node, NEW idle \in SUBSET active(sessions[n]),
         NEW ks \in orders(idle), Tick(n, idle, ks)
  PROVE  PairInv' /\ UNCHANGED <<offered, delivered>>
<1>. DEFINE p == peer(n)
            S == sessions[n]
            e == tick(S, idle, ks)
            U == e.sessions
            v == wire[n] \o e.out
<1>1. p \in Node /\ p # n /\ peer(p) = n
  BY NodeFacts, ZenonT(40)
<1>2. Own(n, S) /\ Outgoing(n, wire[n]) /\ Outgoing(p, wire[p]) /\ faults = 0
  BY <1>1 DEF PairInv
<1>3. /\ sessions' = [sessions EXCEPT ![n] = U]
      /\ wire' = [wire EXCEPT ![n] = v]
      /\ offered' = offered /\ delivered' = delivered /\ faults' = 0
  <2>1. idle \ Range(ks) = {}
    BY DEF orders
  <2>. QED
    BY <1>2, <2>1, ZenonT(40) DEF Tick, transmit, count_faults
<1>4. Own(n, U) /\ Quiet(n, e.out) /\ \A k \in Key : Still(S[k], U[k])
  <2>1. idle \in SUBSET active(S) /\ ks \in orders(idle) /\ e = tick(S, idle, ks)
    OBVIOUS
  <2>. HIDE DEF e, S
  <2>. QED
    BY <1>2, <2>1, Ticked, SMTT(30)
<1>. HIDE DEF e
<1>5. /\ Outgoing(n, e.out)
      /\ \A T, N, d : (N # NoSession => T # NoSession /\ same(N, T)) => Continues(T, N, e.out, d)
  BY <1>4, QuietFacts, SMTT(30)
<1>6. Outgoing(n, v)
  BY <1>2, <1>5, OutgoingConcat, SMTT(30)
<1>7. wire' = [wire EXCEPT ![n] = v, ![p] = wire[p]]
  BY <1>1, <1>3, ZenonT(40) DEF PairInv
<1>8. wire[n] \in Seq(Frame) /\ e.out \in Seq(Frame)
  BY <1>2, <1>5, SMTT(30) DEF Outgoing
<1>9. \A l \in Link : /\ Numbered(offered[l], delivered[l], sends)
                      /\ LinkOK(wire[l[1]], sessions[l[1]][l], sessions[peer(l[1])][l],
                                offered[l], delivered[l], l[2])
  BY DEF PairInv, LinkInv
<1>. HIDE DEF U, S, p
<1>10. ASSUME NEW l \in Link, l[1] = n
       PROVE  LinkOK(v, U[l], sessions[p][l], offered[l], delivered[l], l[2])
  <2>1. LinkOK(wire[n], S[l], sessions[p][l], offered[l], delivered[l], l[2])
    BY <1>9, <1>10, SMTT(30) DEF S, p
  <2>2. U[l] # NoSession => S[l] # NoSession /\ same(U[l], S[l])
    BY <1>4, LinkFacts, SMTT(30) DEF Still
  <2>3. Continues(S[l], U[l], e.out, l[2])
    BY <1>5, <2>2, Zenon
  <2>. QED
    BY <1>8, <2>1, <2>3, LinkContinues, Zenon
<1>11. ASSUME NEW l \in Link, l[1] = p
       PROVE  LinkOK(wire[p], sessions[p][l], U[l], offered[l], delivered[l], l[2])
  <2>1. LinkOK(wire[p], sessions[p][l], S[l], offered[l], delivered[l], l[2])
    BY <1>1, <1>9, <1>11, SMTT(30) DEF S
  <2>2. Still(S[l], U[l])
    BY <1>4, LinkFacts, SMTT(30)
  <2>. QED
    BY <2>1, <2>2, ReceiverGoesOn, ZenonT(30) DEF Still
<1>. HIDE DEF v
<1>12. PairInv'
  <2>1. sends' = sends
    BY <1>3 DEF sends
  <2>2. /\ offered' = [l \in Link |-> offered'[l]] /\ delivered' = [l \in Link |-> delivered'[l]]
        /\ \A l \in Link : Numbered(offered'[l], delivered'[l], sends')
    BY <1>3, <1>9, <2>1, SMTT(30) DEF PairInv
  <2>3. /\ wire' = [wire EXCEPT ![n] = v, ![peer(n)] = wire[peer(n)]]
        /\ Outgoing(peer(n), wire[peer(n)])
    BY <1>2, <1>7, SMTT(30) DEF p
  <2>4. /\ \A l \in Link : l[1] = n =>
             LinkOK(v, U[l], sessions[peer(n)][l], offered'[l], delivered'[l], l[2])
        /\ \A l \in Link : l[1] = peer(n) =>
             LinkOK(wire[peer(n)], sessions[peer(n)][l], U[l], offered'[l], delivered'[l], l[2])
    BY <1>3, <1>10, <1>11, SMTT(30) DEF p
  <2>. QED
    BY <1>3, <1>4, <1>6, <2>2, <2>3, <2>4, PairNext, ZenonT(40)
<1>. QED
  BY <1>3, <1>12, SMTT(30)

------------------------------------------------------------------------------
(* The theorems *)

\* Without faults a step is one of the above, and keeps the invariant while it
\* puts in a message, delivers one, or does neither.
LEMMA PairStep ==
  ASSUME MaxFaults = 0, PairInv, [Next]_vars
  PROVE  PairInv' /\ [Delivery!Next]_(Delivery!vars)
<1>1. faults = MaxFaults /\ MayFail = {{}}
  BY DEF PairInv, MayFail
<1>2. CASE SomeSend
  <2>1. PICK k \in Link, size \in Sizes : Send(k[1], k[2], size, {})
    BY <1>1, <1>2, SMTT(30) DEF SomeSend
  <2>2. PairInv' /\ \E m \in Message : Delivery!Offer(k, m)
    BY <2>1, SendStep, Zenon
  <2>. QED
    BY <2>2 DEF Delivery!Next
<1>3. ASSUME NEW n \in Node, SomeReceive(n)
      PROVE  PairInv' /\ [Delivery!Next]_(Delivery!vars)
  <2>1. Receive(n, {})
    BY <1>1, <1>3, SMTT(30) DEF SomeReceive
  <2>2. PairInv' /\ UNCHANGED offered /\ Passes
    BY <2>1, ReceiveStep, Zenon
  <2>. QED
    BY <2>2 DEF Passes, Delivery!Next, Delivery!vars
<1>4. ASSUME NEW n \in Node, SomeTick(n)
      PROVE  PairInv' /\ [Delivery!Next]_(Delivery!vars)
  <2>1. PICK idle \in SUBSET active(sessions[n]) : \E ks \in orders(idle) : Tick(n, idle, ks)
    BY <1>1, <1>4, ZenonT(40) DEF SomeTick
  <2>2. PairInv' /\ UNCHANGED <<offered, delivered>>
    BY <2>1, TickStep, Zenon
  <2>. QED
    BY <2>2 DEF Delivery!vars
<1>5. ASSUME NEW n \in Node
      PROVE  ~Lose(n) /\ ~Repeat(n)
  BY <1>1 DEF Lose, Repeat
<1>6. CASE UNCHANGED vars
  <2>1. /\ sessions' = sessions /\ wire' = wire /\ offered' = offered
        /\ delivered' = delivered /\ faults' = faults
    BY <1>6 DEF vars
  <2>2. \A l \in Link : LinkInv(l)'
    <3>1. sends' = sends
      BY <2>1 DEF sends
    <3>. QED
      BY <2>1, <3>1 DEF PairInv, LinkInv
  <2>. QED
    BY <2>1, <2>2, SMTT(30) DEF PairInv, Delivery!vars
<1>. QED
  BY <1>2, <1>3, <1>4, <1>5, <1>6, SMTT(30) DEF Next

\* Without faults, the two nodes' sessions, the frames between them and the
\* messages of every link stay in step, whatever is sent, received and timed out,
\* and however sessions replace each other.
THEOREM PairAlwaysInStep ==
  ASSUME MaxFaults = 0
  PROVE  Spec => []PairInv
<1>1. PairInv /\ [Next]_vars => PairInv'
  BY PairStep
<1>. QED
  BY <1>1, PairInit, PTL DEF Spec

\* What rx_callback_ gets on a link without faults is a message that was given to
\* send for that link, unchanged, at most once and in order (transport_protocol.hpp:
\* send_data_packets, handle_dt, start_rx_rts, tick), for any sizes, any window, any
\* number of calls of send, with or without sessions under way, and timeouts at any
\* moment.
THEOREM PairDelivers ==
  ASSUME MaxFaults = 0
  PROVE  Spec => DeliversMessages
<1>1. Init => Delivery!Init
  BY DEF Init, Delivery!Init
<1>2. PairInv /\ [Next]_vars => PairInv' /\ [Delivery!Next]_(Delivery!vars)
  BY PairStep
<1>. QED
  BY <1>1, <1>2, PairInit, PTL DEF Spec, DeliversMessages, Delivery!Spec
==============================================================================
