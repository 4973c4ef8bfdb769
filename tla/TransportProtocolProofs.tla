----------------------- MODULE TransportProtocolProofs -----------------------
(***************************************************************************)
(* Facts about the sessions and the frames of TransportProtocol, for any   *)
(* address of the node.  The second half is about a link of two nodes: its *)
(* invariant, which steps of the two ends keep it, and that every handler  *)
(* is such a step.                                                         *)
(***************************************************************************)
EXTENDS TransportLink, TLAPS

States == {"InProgress", "Completed", "ABorted"}

------------------------------------------------------------------------------
(* Elementary facts *)

\* The addresses and numbers that occur.
LEMMA NumberRanges ==
  /\ Unicast \subseteq Address /\ NO_ADDR \in Address /\ NO_ADDR \notin Unicast
  /\ MaxPackets \in Nat /\ MaxPackets \in Number /\ 0 \in Number /\ 1 \in Number
  /\ Blank \in Data
BY TransportAssumption
   DEF Unicast, Address, NO_ADDR, MaxPackets, Number, Data, Blank

\* A session is told from the absence of one by its direction.
LEMMA NoneIsNoSession ==
  /\ NoSession \notin Session
  /\ NoSession.dir \notin {"Tx", "Rx"}
<1>1. NoSession.dir = "none"
  BY DEF NoSession
<1>2. \A s \in Session : s.dir \in {"Tx", "Rx"}
  BY DEF Session
<1>. QED
  BY <1>1, <1>2

\* A function on 1 .. n is a sequence of length n.
LEMMA FunctionIsSeq ==
  ASSUME NEW S, NEW n \in Nat, NEW f \in [1 .. n -> S]
  PROVE  f \in Seq(S) /\ Len(f) = n
<1>1. f \in Seq(S)
  OBVIOUS
<1>2. DOMAIN f = 1 .. n /\ DOMAIN f = 1 .. Len(f) /\ Len(f) \in Nat
  BY <1>1
<1>. QED
  BY <1>1, <1>2

\* The elements of a sequence over S are in S.
LEMMA SeqElements ==
  ASSUME NEW S, NEW s \in Seq(S)
  PROVE  \A i \in 1 .. Len(s) : s[i] \in S
OBVIOUS

\* So is what it holds as a set.
LEMMA SeqRange ==
  ASSUME NEW S, NEW s \in Seq(S)
  PROVE  Range(s) \in SUBSET S
BY DEF Range

\* The two remainders that next_seq takes when it is increased.
LEMMA Wraps ==
  ASSUME NEW a \in Nat, NEW b \in Nat, b > 0, a <= b
  PROVE  a % b = IF a = b THEN 0 ELSE a
OBVIOUS

\* A new buffer is a sequence of blanks (buffer.resize).
LEMMA BlankBuffer ==
  ASSUME NEW n \in Number
  PROVE  /\ blank_buffer(n) \in Seq(Data) /\ Len(blank_buffer(n)) = n
         /\ \A i \in 1 .. n : blank_buffer(n)[i] = Blank
<1>1. n \in Nat
  BY DEF Number
<1>2. blank_buffer(n) \in [1 .. n -> Data]
  BY NumberRanges DEF blank_buffer
<1>. QED
  BY <1>1, <1>2, FunctionIsSeq DEF blank_buffer
------------------------------------------------------------------------------
(* What is sent *)

\* No frame of the sequence is a CTS.
NoCts(out) == \A f \in Range(out) : f.type # "CTS"

\* A sequence over frames that are not CTS has none.
LEMMA NoCtsSeq ==
  ASSUME NEW S, NEW out \in Seq(S), \A f \in S : f.type # "CTS"
  PROVE  NoCts(out)
BY SeqRange DEF NoCts

\* Nothing but a CTS frame has the type of one.
LEMMA FrameTypes ==
  ASSUME NEW s, NEW i
  PROVE  /\ abort_frame(s).type = "ABORT" /\ eom_frame(s).type = "EOM"
         /\ rts_frame(s).type = "RTS" /\ bam_frame(s).type = "BAM"
         /\ dt_frame(s, i).type = "DT"
BY DEF abort_frame, eom_frame, rts_frame, bam_frame, dt_frame, cm_frame

\* An attempt sends the frame or nothing.
LEMMA BusSend ==
  ASSUME NEW S, NEW f \in S, NEW i, NEW fails
  PROVE  bus_send(f, i, fails) \in Seq(S)
BY DEF bus_send

\* An attempt to send a frame other than a CTS sends no CTS.
LEMMA BusSendNoCts ==
  ASSUME NEW f, f.type # "CTS", NEW i, NEW fails
  PROVE  NoCts(bus_send(f, i, fails))
<1>1. bus_send(f, i, fails) \in Seq({f})
  BY BusSend
<1>2. \A g \in {f} : g.type # "CTS"
  OBVIOUS
<1>. HIDE DEF bus_send
<1>. QED
  BY <1>1, <1>2, NoCtsSeq

\* The empty sequence has no CTS.
LEMMA EmptyNoCts == NoCts(<<>>)
<1>1. <<>> \in Seq({})
  OBVIOUS
<1>2. Range(<<>>) \in SUBSET {}
  BY <1>1, SeqRange, Zenon
<1>. QED
  BY <1>2 DEF NoCts

\* No attempt may fail.
LEMMA NoFailure == {} \in Failures
BY DEF Failures

\* The first attempt of send_data_packets that fails.
LEMMA FirstFailure ==
  ASSUME NEW fails \in Failures, NEW n \in Nat, fails \cap 1 .. n # {}
  PROVE  Min(fails \cap 1 .. n) \in 1 .. n
<1>. DEFINE failed == fails \cap 1 .. n
<1>1. PICK i \in 1 .. SeqSize + 1 : fails = {i} \/ fails = {i, i + 1}
  BY TransportAssumption DEF Failures
<1>2. i \in failed /\ \A y \in failed : i <= y
  BY <1>1, TransportAssumption
<1>. HIDE DEF failed
<1>3. Min(failed) \in failed
  BY <1>2, Zenon DEF Min
<1>. QED
  BY <1>3 DEF failed

\* The attempts after the first fail as those of a handler do.
LEMMA LaterFailures ==
  ASSUME NEW fails \in Failures
  PROVE  later(fails) \in Failures
<1>1. CASE fails = {}
  BY <1>1 DEF later, Failures
<1>2. ASSUME NEW i \in 1 .. SeqSize + 1, fails = {i}
      PROVE  later(fails) \in Failures
  <2>1. later(fails) = IF i = 1 THEN {} ELSE {i - 1}
    BY <1>2, TransportAssumption DEF later
  <2>2. i # 1 => i - 1 \in 1 .. SeqSize + 1
    BY TransportAssumption
  <2>. QED
    BY <2>1, <2>2 DEF Failures
<1>3. ASSUME NEW i \in 1 .. SeqSize, fails = {i, i + 1}
      PROVE  later(fails) \in Failures
  <2>1. later(fails) = IF i = 1 THEN {i} ELSE {i - 1, i - 1 + 1}
    BY <1>3, TransportAssumption DEF later
  <2>2. i \in 1 .. SeqSize + 1 /\ (i # 1 => i - 1 \in 1 .. SeqSize)
    BY TransportAssumption
  <2>. QED
    BY <2>1, <2>2 DEF Failures
<1>. QED
  BY <1>1, <1>2, <1>3 DEF Failures

\* The passes of the loop are a number, and short of the largest message they
\* end with the last packet.
LEMMA BurstLength ==
  ASSUME NEW s \in Session
  PROVE  /\ burst_length(s) \in Nat
         /\ s.next > s.total => burst_length(s) = 0
         /\ s.next <= s.total /\ s.total # MaxPackets =>
              burst_length(s) <= s.total - s.next + 1
<1>1. s.window \in Nat /\ s.next \in Nat /\ s.total \in Nat
  BY DEF Session, Number
<1>2. CASE s.next <= s.total
  <2>. DEFINE left == s.total - s.next + 1
  <2>1. left \in Nat
    BY <1>1, <1>2
  <2>. HIDE DEF left
  <2>2. Min({s.window, left}) \in Nat /\ Min({s.window, left}) <= left
    <3>1. \E x \in {s.window, left} : \A y \in {s.window, left} : x <= y
      BY <1>1, <2>1
    <3>. QED
      BY <1>1, <2>1, <3>1 DEF Min
  <2>. QED
    BY <1>1, <1>2, <2>2 DEF burst_length, left
<1>. QED
  BY <1>1, <1>2 DEF burst_length

\* The frames of a burst of session s.
BurstFrames(s) == {dt_frame(s, i) : i \in 0 .. s.total} \cup {abort_frame(s), eom_frame(s)}

\* The frames that the sender of session s may send.
SenderFrames(s) == BurstFrames(s) \cup {rts_frame(s), bam_frame(s)}

\* A sender sends no CTS.
LEMMA SenderNoCts ==
  ASSUME NEW s, NEW out \in Seq(SenderFrames(s))
  PROVE  NoCts(out)
<1>1. \A f \in SenderFrames(s) : f.type # "CTS"
  BY FrameTypes DEF SenderFrames, BurstFrames
<1>. QED
  BY <1>1, NoCtsSeq

\* The packets of a burst are packets of the message, or number 0 after the last.
LEMMA PacketsFacts ==
  ASSUME NEW s \in Session, NEW n \in 0 .. burst_length(s)
  PROVE  packets(s, n) \in Seq(BurstFrames(s))
<1>1. /\ s.next \in Nat /\ s.total \in Nat /\ s.total <= MaxPackets
      /\ MaxPackets = SeqSize - 1 /\ SeqSize \in Nat /\ SeqSize > 2
  BY TransportAssumption DEF Session, Number, MaxPackets
<1>2. n \in Nat
  BY BurstLength
<1>3. ASSUME NEW j \in 1 .. n
      PROVE  number_after(s, j - 1) \in 0 .. s.total
  <2>1. s.next <= s.total
    BY <1>1, <1>2, BurstLength
  <2>2. CASE s.total = MaxPackets
    BY <1>1, <1>2, <2>2 DEF number_after
  <2>3. CASE s.total # MaxPackets
    <3>1. s.next + (j - 1) \in 0 .. s.total
      BY <1>1, <1>2, <2>1, <2>3, BurstLength
    <3>. QED
      BY <1>1, <3>1 DEF number_after
  <2>. QED
    BY <2>2, <2>3
<1>4. packets(s, n) \in [1 .. n -> BurstFrames(s)]
  BY <1>3 DEF packets, BurstFrames
<1>. QED
  BY <1>2, <1>4, FunctionIsSeq

\* A burst changes next_seq and the state of its session only, and sends
\* packets, an abort or an end.
LEMMA BurstFacts ==
  ASSUME NEW s \in Session, NEW fails \in Failures
  PROVE  LET b == send_data_packets(s, fails)
         IN  /\ \E n \in Number, x \in States :
                  b.session = [s EXCEPT !.next = n, !.state = x]
             /\ b.out \in Seq(BurstFrames(s)) /\ b.out \in Seq(SenderFrames(s))
<1>. DEFINE n      == burst_length(s)
            failed == fails \cap 1 .. n
            gone   == IF failed = {} THEN n ELSE Min(failed) - 1
            after  == [s EXCEPT !.next = number_after(s, gone)]
            F      == BurstFrames(s)
<1>1. n \in Nat
  BY BurstLength
<1>2. gone \in 0 .. n
  <2>. HIDE DEF n
  <2>1. failed # {} => Min(failed) \in 1 .. n
    BY <1>1, FirstFailure
  <2>. HIDE DEF failed
  <2>. QED
    BY <1>1, <2>1
<1>3. /\ packets(s, n) \in Seq(F) /\ packets(s, gone) \in Seq(F)
  <2>1. n \in 0 .. n
    BY <1>1
  <2>. HIDE DEF gone
  <2>. QED
    BY <1>2, <2>1, PacketsFacts
<1>4. /\ \A i : bus_send(abort_frame(s), i, fails) \in Seq(F)
      /\ \A i : bus_send(eom_frame(s), i, fails) \in Seq(F)
  BY BusSend, Zenon DEF BurstFrames
<1>5. /\ \A i : packets(s, gone) \o bus_send(abort_frame(s), i, fails) \in Seq(F)
      /\ \A i : packets(s, n) \o bus_send(eom_frame(s), i, fails) \in Seq(F)
      /\ packets(s, n) \o <<>> \in Seq(F)
  <2>. HIDE DEF n, gone, F
  <2>1. <<>> \in Seq(F)
    OBVIOUS
  <2>. QED
    BY <1>3, <1>4, <2>1
<1>6. number_after(s, gone) \in Number /\ s.state \in States
  <2>1. gone \in Nat
    BY <1>1, <1>2
  <2>. HIDE DEF gone
  <2>. QED
    BY <2>1, TransportAssumption DEF number_after, Session, Number, MaxPackets, States
<1>7. \E m \in Number, x \in States : after = [s EXCEPT !.next = m, !.state = x]
  <2>1. after = [s EXCEPT !.next = number_after(s, gone), !.state = s.state]
    BY Zenon DEF Session
  <2>. QED
    BY <1>6, <2>1, Zenon
<1>8. \E m \in Number, x \in States :
        [after EXCEPT !.state = "Completed"] = [s EXCEPT !.next = m, !.state = x]
  <2>1. [after EXCEPT !.state = "Completed"] =
          [s EXCEPT !.next = number_after(s, gone), !.state = "Completed"]
    BY DEF Session
  <2>. QED
    BY <1>6, <2>1, Zenon DEF States
<1>. DEFINE b == send_data_packets(s, fails)
<1>9. /\ b.session \in {after, [after EXCEPT !.state = "Completed"]}
       /\ \/ \E i : b.out = packets(s, gone) \o bus_send(abort_frame(s), i, fails)
          \/ \E i : b.out = packets(s, n) \o bus_send(eom_frame(s), i, fails)
          \/ b.out = packets(s, n) \o <<>>
          \/ b.out = packets(s, n)
  BY Zenon DEF send_data_packets
<1>10. b.out \in Seq(F) /\ b.out \in Seq(SenderFrames(s))
  <2>1. F \subseteq SenderFrames(s)
    BY DEF SenderFrames
  <2>. HIDE DEF b, n, gone, F
  <2>2. b.out \in Seq(F)
    BY <1>3, <1>5, <1>9, Zenon
  <2>. QED
    BY <2>1, <2>2
<1>. HIDE DEF b, after
<1>. QED
  BY <1>7, <1>8, <1>9, <1>10, ZenonT(30) DEF b
------------------------------------------------------------------------------
(* Beginning to send *)

\* A key of two addresses.
LEMMA KeyFacts ==
  ASSUME NEW a \in Address, NEW b \in Address
  PROVE  /\ make_key(a, b) \in Key
         /\ make_key(a, b)[1] = a /\ make_key(a, b)[2] = b
BY DEF make_key, Key

\* The session that start_tx stores.
LEMMA NewTxSession ==
  ASSUME NEW self \in Address, NEW dst \in Address, NEW hdr \in Nat,
         NEW buf \in Seq(Data), Len(buf) \in 2 .. MaxPackets
  PROVE  LET s == [new_session("Tx", self, dst, hdr, buf) EXCEPT !.bam = (dst = NO_ADDR)]
         IN  /\ s \in Session
             /\ s.dir = "Tx" /\ s.src = self /\ s.dst = dst /\ s.buf = buf
             /\ s.total = Len(buf) /\ s.hdr = hdr /\ s.bam = (dst = NO_ADDR)
<1>1. Len(buf) \in Number
  BY NumberRanges DEF Number
<1>2. (dst = NO_ADDR) \in BOOLEAN
  OBVIOUS
<1>. QED
  BY <1>1, <1>2, NumberRanges, Zenon DEF new_session, Session

\* Effect e stores a session from self to dst and sends a sender's frames, or is
\* none.
TxStarted(S, self, dst, e) ==
  \/ e.sessions = S /\ e.out = <<>>
  \/ \E s, t \in Session :
       /\ e.sessions = put(S, make_key(self, dst), t)
       /\ t.dir = "Tx" /\ t.src = self /\ t.dst = dst /\ Len(t.buf) = t.total
       /\ e.out \in Seq(SenderFrames(s)) /\ s.src = self

\* What start_tx does.
LEMMA StartTxFacts ==
  ASSUME NEW S, S = [k \in Key |-> S[k]], NEW self \in Address, NEW dst \in Address,
         NEW buf \in Seq(Data), NEW fails \in Failures
  PROVE  TxStarted(S, self, dst, start_tx(S, self, dst, 0, buf, fails))
<1>. DEFINE k == make_key(self, dst)
            s == [new_session("Tx", self, dst, 0, buf) EXCEPT !.bam = (dst = NO_ADDR)]
            T == put(S, k, s)
            b == send_data_packets(s, later(fails))
            e == start_tx(S, self, dst, 0, buf, fails)
<1>1. CASE Len(buf) \notin 2 .. MaxPackets
  BY <1>1 DEF start_tx, TxStarted
<1>2. CASE Len(buf) \in 2 .. MaxPackets
  <2>1. /\ s \in Session /\ s.dir = "Tx" /\ s.src = self /\ s.dst = dst
        /\ Len(s.buf) = s.total
    <3>. DEFINE h == 0
                n == [new_session("Tx", self, dst, h, buf) EXCEPT !.bam = (dst = NO_ADDR)]
    <3>1. h \in Nat
      OBVIOUS
    <3>. HIDE DEF h
    <3>2. /\ n \in Session /\ n.dir = "Tx" /\ n.src = self /\ n.dst = dst
          /\ n.buf = buf /\ n.total = Len(buf)
      BY <1>2, <3>1, NewTxSession
    <3>. QED
      BY <3>2 DEF h
  <2>2. k \in Key
    BY KeyFacts
  <2>3. e \in {send_bam_start(T, k, fails), send_rts(T, k, fails)}
    BY <1>2 DEF start_tx
  <2>. HIDE DEF s, k, e
  <2>4. T[k] = s /\ \A t : put(T, k, t) = put(S, k, t)
    BY <2>2 DEF put
  <2>. HIDE DEF T
  <2>5. /\ <<rts_frame(s)>> \in Seq(SenderFrames(s))
        /\ <<bam_frame(s)>> \in Seq(SenderFrames(s))
        /\ bus_send(abort_frame(s), 2, fails) \in Seq(SenderFrames(s))
    <3>1. /\ rts_frame(s) \in SenderFrames(s) /\ bam_frame(s) \in SenderFrames(s)
          /\ abort_frame(s) \in SenderFrames(s)
      BY DEF SenderFrames, BurstFrames
    <3>. QED
      BY <3>1, BusSend
  <2>6. /\ b.out \in Seq(SenderFrames(s))
        /\ \E n \in Number, x \in States : b.session = [s EXCEPT !.next = n, !.state = x]
    BY <2>1, BurstFacts, LaterFailures, Zenon
  <2>. HIDE DEF b
  <2>7. <<bam_frame(s)>> \o b.out \in Seq(SenderFrames(s))
    BY <2>5, <2>6
  <2>8. /\ send_rts(T, k, fails).sessions = T
        /\ send_rts(T, k, fails).out \in Seq(SenderFrames(s))
    BY <2>4, <2>5 DEF send_rts
  <2>9. /\ send_bam_start(T, k, fails).sessions \in {T, put(T, k, b.session)}
        /\ send_bam_start(T, k, fails).out \in Seq(SenderFrames(s))
    BY <2>4, <2>5, <2>7 DEF send_bam_start, b
  <2>10. e.out \in Seq(SenderFrames(s))
    BY <2>3, <2>8, <2>9
  <2>11. \E t \in {s, b.session} : e.sessions = put(S, k, t)
    BY <2>3, <2>4, <2>8, <2>9 DEF T
  <2>12. /\ b.session \in Session /\ b.session.dir = "Tx"
         /\ b.session.src = self /\ b.session.dst = dst
         /\ b.session.buf = s.buf /\ b.session.total = s.total
    BY <2>1, <2>6, Zenon DEF Session, States
  <2>13. \E t \in Session :
           /\ e.sessions = put(S, k, t)
           /\ t.dir = "Tx" /\ t.src = self /\ t.dst = dst /\ Len(t.buf) = t.total
    BY <2>1, <2>11, <2>12
  <2>. QED
    BY <2>1, <2>10, <2>13, Zenon DEF e, k, TxStarted
<1>. QED
  BY <1>1, <1>2, Zenon

------------------------------------------------------------------------------
(* The invariant of a link to d: w is the sender's wire, T and R are the     *)
(* sessions at the two ends, off and del the messages offered and delivered. *)

announces(f, d) == f.type \in {"RTS", "BAM"} /\ f.dst = d

carries(f, d) == f.type = "DT" /\ f.dst = d

\* No announcement lies between two positions of the wire.
clear(w, a, b, d) == \A k \in a .. b : ~announces(w[k], d)

\* Packet f is of the message of s, a session or an announcement, if its number
\* is one of that message.
matches(f, s) == f.seq \in 1 .. s.total => f.data = s.hdr * SeqSize + f.seq

same(s, t) == s.hdr = t.hdr /\ s.total = t.total

\* Packets are of the message announced last before them,
Grouped(w, d) ==
  \A i, j \in 1 .. Len(w) :
    j < i /\ announces(w[j], d) /\ carries(w[i], d) /\ clear(w, j + 1, i - 1, d)
      => matches(w[i], w[j])

\* and in front of all announcements of the message that is being received.
Fed(w, R, d) ==
  \A i \in 1 .. Len(w) :
    carries(w[i], d) /\ clear(w, 1, i - 1, d) /\ R # NoSession => matches(w[i], R)

\* Messages are announced in the order of their numbers.
Ordered(w, d) ==
  \A i, j \in 1 .. Len(w) :
    j < i /\ announces(w[j], d) /\ announces(w[i], d) => w[j].hdr < w[i].hdr

\* What is still announced was offered, and is later than what was received.
Ahead(w, R, off, del, d) ==
  \A j \in 1 .. Len(w) : announces(w[j], d) =>
    /\ R # NoSession => R.hdr < w[j].hdr
    /\ \A x \in 1 .. Len(del) : del[x].hdr < w[j].hdr
    /\ numbered(w[j].hdr, w[j].total) \in Range(off)

\* The sender's session is of the message announced last.
Sending(w, T, R, d) ==
  T # NoSession =>
    /\ \A j \in 1 .. Len(w) :
         announces(w[j], d) /\ clear(w, j + 1, Len(w), d) => same(w[j], T)
    /\ clear(w, 1, Len(w), d) /\ R # NoSession => same(R, T)

\* The receiver's session has the packets in front of the next one, and its
\* message is delivered with the last.
Receiving(R, off, del) ==
  R # NoSession =>
    /\ numbered(R.hdr, R.total) \in Range(off)
    /\ \A i \in 1 .. R.total : i < R.next => R.buf[i] = R.hdr * SeqSize + i
    /\ \A x \in 1 .. Len(del) : del[x].hdr <= R.hdr
    /\ R.next \in 1 .. R.total => \A x \in 1 .. Len(del) : del[x].hdr < R.hdr

LinkOK(w, T, R, off, del, d) ==
  /\ Grouped(w, d) /\ Ordered(w, d) /\ Fed(w, R, d)
  /\ Ahead(w, R, off, del, d) /\ Sending(w, T, R, d) /\ Receiving(R, off, del)

------------------------------------------------------------------------------
(* The wire *)

\* The wire without its first frame.
LEMMA TailFacts ==
  ASSUME NEW w \in Seq(Frame), w # <<>>, NEW t, t = Tail(w)
  PROVE  /\ t \in Seq(Frame) /\ Len(t) = Len(w) - 1 /\ Len(w) \in Nat /\ Len(t) \in Nat
         /\ \A i \in 1 .. Len(t) : t[i] = w[i + 1] /\ i + 1 \in 1 .. Len(w)
         /\ Head(w) \in Frame /\ w[1] = Head(w) /\ 1 \in 1 .. Len(w)
OBVIOUS

\* Where it is clear of announcements.
LEMMA ClearTail ==
  ASSUME NEW w \in Seq(Frame), w # <<>>, NEW t, t = Tail(w), NEW d
  PROVE  /\ \A i, j \in 1 .. Len(t) : clear(t, j + 1, i - 1, d) => clear(w, (j + 1) + 1, i, d)
         /\ \A j \in 1 .. Len(t) : clear(t, j + 1, Len(t), d) => clear(w, (j + 1) + 1, Len(w), d)
         /\ \A i \in 1 .. Len(t) : clear(t, 1, i - 1, d) => clear(w, 2, i, d)
         /\ clear(t, 1, Len(t), d) => clear(w, 2, Len(w), d)
         /\ ~announces(Head(w), d) =>
              \A i \in 1 .. Len(w) : clear(w, 2, i, d) => clear(w, 1, i, d)
<1>1. /\ Len(t) = Len(w) - 1 /\ Len(w) \in Nat /\ w[1] = Head(w)
      /\ \A i \in 1 .. Len(t) : t[i] = w[i + 1]
  BY TailFacts
<1>2. ASSUME NEW a \in Nat, a >= 1, NEW b \in Int, b < Len(w), clear(t, a, b, d),
             NEW k \in a + 1 .. b + 1
      PROVE  ~announces(w[k], d)
  <2>1. k - 1 \in a .. b /\ k - 1 \in 1 .. Len(t) /\ (k - 1) + 1 = k
    BY <1>1, <1>2
  <2>2. ~announces(t[k - 1], d)
    BY <1>2, <2>1, ZenonT(40) DEF clear
  <2>. QED
    BY <1>1, <2>1, <2>2
<1>3. \A a \in Nat, b \in Int :
        a >= 1 /\ b < Len(w) /\ clear(t, a, b, d) => clear(w, a + 1, b + 1, d)
  BY <1>2 DEF clear
<1>4. \A i, j \in 1 .. Len(t) : clear(t, j + 1, i - 1, d) => clear(w, (j + 1) + 1, i, d)
  <2>1. ASSUME NEW i \in 1 .. Len(t), NEW j \in 1 .. Len(t), clear(t, j + 1, i - 1, d)
        PROVE  clear(w, (j + 1) + 1, i, d)
    <3>1. j + 1 \in Nat /\ j + 1 >= 1 /\ i - 1 \in Int /\ i - 1 < Len(w) /\ (i - 1) + 1 = i
      BY <1>1
    <3>. QED
      BY <1>3, <2>1, <3>1
  <2>. QED
    BY <2>1
<1>5. \A j \in 1 .. Len(t) : clear(t, j + 1, Len(t), d) => clear(w, (j + 1) + 1, Len(w), d)
  BY <1>1, <1>3
<1>6. \A i \in 1 .. Len(t) : clear(t, 1, i - 1, d) => clear(w, 2, i, d)
  BY <1>1, <1>3
<1>7. clear(t, 1, Len(t), d) => clear(w, 2, Len(w), d)
  BY <1>1, <1>3
<1>8. ASSUME ~announces(Head(w), d), NEW i \in 1 .. Len(w), clear(w, 2, i, d)
      PROVE  clear(w, 1, i, d)
  BY <1>1, <1>8 DEF clear
<1>. QED
  BY <1>4, <1>5, <1>6, <1>7, <1>8

\* What is said of the wire alone does not need its first frame.
LEMMA TailWire ==
  ASSUME NEW w \in Seq(Frame), w # <<>>, NEW t, t = Tail(w), NEW d,
         Grouped(w, d), Ordered(w, d)
  PROVE  Grouped(t, d) /\ Ordered(t, d)
<1>1. /\ Len(t) \in Nat
      /\ \A i \in 1 .. Len(t) : t[i] = w[i + 1] /\ i + 1 \in 1 .. Len(w)
  BY TailFacts
<1>2. ASSUME NEW i \in 1 .. Len(t), NEW j \in 1 .. Len(t), j < i, announces(t[j], d),
             carries(t[i], d), clear(t, j + 1, i - 1, d)
      PROVE  matches(t[i], t[j])
  <2>1. clear(w, (j + 1) + 1, (i + 1) - 1, d) /\ j + 1 < i + 1
    <3>1. clear(w, (j + 1) + 1, i, d)
      BY <1>2, ClearTail, Zenon
    <3>. QED
      BY <1>1, <1>2, <3>1
  <2>2. /\ i + 1 \in 1 .. Len(w) /\ j + 1 \in 1 .. Len(w)
        /\ t[i] = w[i + 1] /\ t[j] = w[j + 1]
    BY <1>1
  <2>. QED
    BY <1>2, <2>1, <2>2 DEF Grouped
<1>3. ASSUME NEW i \in 1 .. Len(t), NEW j \in 1 .. Len(t), j < i, announces(t[j], d),
             announces(t[i], d)
      PROVE  t[j].hdr < t[i].hdr
  <2>1. /\ i + 1 \in 1 .. Len(w) /\ j + 1 \in 1 .. Len(w) /\ j + 1 < i + 1
        /\ t[i] = w[i + 1] /\ t[j] = w[j + 1]
    BY <1>1, <1>3
  <2>. QED
    BY <1>3, <2>1 DEF Ordered
<1>. QED
  BY <1>2, <1>3 DEF Grouped, Ordered

\* A link stays as it is when a frame that announces nothing for it is received.
LEMMA PopOther ==
  ASSUME NEW w \in Seq(Frame), w # <<>>, NEW d, ~announces(Head(w), d),
         NEW T, NEW R, NEW off, NEW del, LinkOK(w, T, R, off, del, d)
  PROVE  LinkOK(Tail(w), T, R, off, del, d)
<1>. DEFINE t == Tail(w)
<1>1. /\ Len(t) = Len(w) - 1 /\ Len(w) \in Nat /\ Len(t) \in Nat
      /\ \A i \in 1 .. Len(t) : t[i] = w[i + 1] /\ i + 1 \in 1 .. Len(w)
  BY TailFacts
<1>2. /\ \A j \in 1 .. Len(t) : clear(t, j + 1, Len(t), d) => clear(w, (j + 1) + 1, Len(w), d)
      /\ \A i \in 1 .. Len(t) : clear(t, 1, i - 1, d) => clear(w, 1, i, d)
      /\ clear(t, 1, Len(t), d) => clear(w, 1, Len(w), d)
  <2>1. /\ \A j \in 1 .. Len(t) : clear(t, j + 1, Len(t), d) => clear(w, (j + 1) + 1, Len(w), d)
        /\ \A i \in 1 .. Len(t) : clear(t, 1, i - 1, d) => clear(w, 2, i, d)
        /\ clear(t, 1, Len(t), d) => clear(w, 2, Len(w), d)
        /\ \A i \in 1 .. Len(w) : clear(w, 2, i, d) => clear(w, 1, i, d)
    BY ClearTail, Zenon
  <2>2. Len(w) \in 1 .. Len(w) /\ \A i \in 1 .. Len(t) : i \in 1 .. Len(w)
    BY <1>1, TailFacts
  <2>. QED
    BY <2>1, <2>2, Zenon
<1>3. Grouped(t, d) /\ Ordered(t, d)
  BY TailWire, ZenonT(40) DEF LinkOK
<1>. HIDE DEF t
<1>4. Fed(t, R, d)
  <2>1. ASSUME NEW i \in 1 .. Len(t), carries(t[i], d), clear(t, 1, i - 1, d), R # NoSession
        PROVE  matches(t[i], R)
    <3>1. clear(w, 1, (i + 1) - 1, d)
      BY <1>1, <1>2, <2>1
    <3>. QED
      BY <1>1, <2>1, <3>1 DEF LinkOK, Fed
  <2>. QED
    BY <2>1 DEF Fed
<1>5. Ahead(t, R, off, del, d)
  BY <1>1 DEF LinkOK, Ahead
<1>6. Sending(t, T, R, d)
  <2>1. ASSUME T # NoSession, NEW j \in 1 .. Len(t), announces(t[j], d),
               clear(t, j + 1, Len(t), d)
        PROVE  same(t[j], T)
    BY <1>1, <1>2, <2>1, SMTT(30) DEF LinkOK, Sending
  <2>. QED
    BY <1>2, <2>1 DEF LinkOK, Sending
<1>. QED
  BY <1>3, <1>4, <1>5, <1>6 DEF LinkOK, t

\* The receiver begins the message announced by the frame it receives.
LEMMA PopAnnounced ==
  ASSUME NEW w \in Seq(Frame), w # <<>>, NEW d, announces(Head(w), d),
         NEW T, NEW R, NEW N, NEW off, NEW del, LinkOK(w, T, R, off, del, d),
         N # NoSession, same(N, Head(w)), N.next = 1,
         \A x \in 1 .. Len(del) : del[x].hdr \in Nat
  PROVE  LinkOK(Tail(w), T, N, off, del, d)
<1>. DEFINE t == Tail(w)
            f == Head(w)
<1>1. /\ Len(t) = Len(w) - 1 /\ Len(w) \in Nat /\ Len(t) \in Nat
      /\ \A i \in 1 .. Len(t) : t[i] = w[i + 1] /\ i + 1 \in 1 .. Len(w)
      /\ w[1] = f /\ 1 \in 1 .. Len(w)
  BY TailFacts
<1>2. /\ \A j \in 1 .. Len(t) : clear(t, j + 1, Len(t), d) => clear(w, (j + 1) + 1, Len(w), d)
      /\ \A i \in 1 .. Len(t) : clear(t, 1, i - 1, d) => clear(w, 2, i, d)
      /\ clear(t, 1, Len(t), d) => clear(w, 2, Len(w), d)
  BY ClearTail, Zenon
<1>3. f.hdr \in Nat
  <2>1. f \in Frame
    BY TailFacts
  <2>. QED
    BY <2>1 DEF Frame
<1>4. Grouped(t, d) /\ Ordered(t, d)
  BY TailWire, ZenonT(40) DEF LinkOK
<1>5. /\ announces(f, d) /\ N.hdr = f.hdr /\ N.total = f.total
      /\ Grouped(w, d) /\ Ordered(w, d)
  BY DEF same, LinkOK
<1>. HIDE DEF t, f
<1>6. Fed(t, N, d)
  <2>1. ASSUME NEW i \in 1 .. Len(t), carries(t[i], d), clear(t, 1, i - 1, d)
        PROVE  matches(t[i], N)
    <3>1. clear(w, 1 + 1, (i + 1) - 1, d) /\ 1 < i + 1
      BY <1>1, <1>2, <2>1
    <3>2. matches(w[i + 1], w[1])
      BY <1>1, <1>5, <2>1, <3>1, ZenonT(40) DEF Grouped
    <3>. QED
      BY <1>1, <1>5, <3>2 DEF matches
  <2>. QED
    BY <2>1 DEF Fed
<1>7. Ahead(t, N, off, del, d)
  <2>1. ASSUME NEW j \in 1 .. Len(t), announces(t[j], d)
        PROVE  N.hdr < t[j].hdr
    <3>1. j + 1 \in 1 .. Len(w) /\ 1 < j + 1 /\ announces(w[j + 1], d) /\ announces(w[1], d)
      BY <1>1, <1>5, <2>1
    <3>2. w[1].hdr < w[j + 1].hdr
      BY <1>1, <1>5, <3>1 DEF Ordered
    <3>. QED
      BY <1>1, <1>5, <3>2
  <2>. QED
    BY <1>1, <2>1 DEF LinkOK, Ahead
<1>8. Sending(t, T, N, d)
  <2>1. ASSUME T # NoSession, NEW j \in 1 .. Len(t), announces(t[j], d),
               clear(t, j + 1, Len(t), d)
        PROVE  same(t[j], T)
    BY <1>1, <1>2, <2>1 DEF LinkOK, Sending
  <2>2. ASSUME T # NoSession, clear(t, 1, Len(t), d)
        PROVE  same(N, T)
    <3>1. clear(w, 1 + 1, Len(w), d)
      BY <1>2, <2>2
    <3>2. same(w[1], T)
      BY <1>1, <1>5, <2>2, <3>1 DEF LinkOK, Sending
    <3>. QED
      BY <1>1, <1>5, <3>2 DEF same
  <2>. QED
    BY <2>1, <2>2 DEF LinkOK, Sending
<1>9. Receiving(N, off, del)
  <2>1. /\ numbered(f.hdr, f.total) \in Range(off)
        /\ \A x \in 1 .. Len(del) : del[x].hdr < f.hdr
    BY <1>1, <1>5 DEF LinkOK, Ahead
  <2>2. \A x \in 1 .. Len(del) : del[x].hdr < N.hdr /\ del[x].hdr <= N.hdr
    BY <1>3, <1>5, <2>1
  <2>. QED
    BY <1>5, <2>1, <2>2 DEF Receiving
<1>. QED
  BY <1>4, <1>6, <1>7, <1>8, <1>9 DEF LinkOK, t

\* The wire with frames added at its end.
LEMMA ConcatFacts ==
  ASSUME NEW w \in Seq(Frame), NEW out \in Seq(Frame), NEW v, v = w \o out
  PROVE  /\ v \in Seq(Frame) /\ Len(w) \in Nat /\ Len(out) \in Nat
         /\ Len(v) = Len(w) + Len(out)
         /\ \A i \in 1 .. Len(w) : v[i] = w[i] /\ i \in 1 .. Len(v)
         /\ \A i \in 1 .. Len(v) : i > Len(w) =>
              i - Len(w) \in 1 .. Len(out) /\ v[i] = out[i - Len(w)]
OBVIOUS

\* Where it is clear of announcements.
LEMMA ClearConcat ==
  ASSUME NEW w \in Seq(Frame), NEW out \in Seq(Frame), NEW v, v = w \o out, NEW d,
         NEW a \in Nat, a >= 1, NEW b \in Int, clear(v, a, b, d)
  PROVE  /\ b <= Len(w) => clear(w, a, b, d)
         /\ b >= Len(w) => clear(w, a, Len(w), d)
<1>1. Len(w) \in Nat /\ \A i \in 1 .. Len(w) : v[i] = w[i]
  BY ConcatFacts
<1>2. ASSUME NEW k \in a .. b, k <= Len(w)
      PROVE  ~announces(w[k], d)
  <2>1. k \in 1 .. Len(w)
    BY <1>1, <1>2
  <2>. QED
    BY <1>1, <2>1 DEF clear
<1>. QED
  BY <1>1, <1>2 DEF clear

\* A link stays as it is when the sender sends packets of its session, or frames
\* that are no matter of the link.
LEMMA AppendOther ==
  ASSUME NEW w \in Seq(Frame), NEW out \in Seq(Frame), NEW d,
         NEW T, NEW R, NEW off, NEW del, LinkOK(w, T, R, off, del, d),
         \A i \in 1 .. Len(out) :
           /\ ~announces(out[i], d)
           /\ carries(out[i], d) => T # NoSession /\ matches(out[i], T)
  PROVE  LinkOK(w \o out, T, R, off, del, d)
<1>. DEFINE v == w \o out
<1>1. /\ Len(w) \in Nat /\ Len(v) \in Nat /\ Len(v) >= Len(w)
      /\ \A i \in 1 .. Len(w) : v[i] = w[i] /\ i \in 1 .. Len(v)
  BY ConcatFacts
<1>2. /\ \A i \in 1 .. Len(v) : announces(v[i], d) => i \in 1 .. Len(w) /\ v[i] = w[i]
      /\ \A i \in 1 .. Len(v) : carries(v[i], d) /\ i > Len(w) => T # NoSession /\ matches(v[i], T)
  <2>1. \A i \in 1 .. Len(v) : i > Len(w) =>
          i - Len(w) \in 1 .. Len(out) /\ v[i] = out[i - Len(w)]
    BY ConcatFacts
  <2>. HIDE DEF v
  <2>. QED
    BY <1>1, <2>1
<1>3. \A a \in Nat, b \in Int : a >= 1 /\ clear(v, a, b, d) =>
        /\ b <= Len(w) => clear(w, a, b, d)
        /\ b >= Len(w) => clear(w, a, Len(w), d)
  BY ClearConcat, ZenonT(40)
<1>4. /\ \A i, j \in 1 .. Len(v) : clear(v, j + 1, i - 1, d) =>
           IF i <= Len(w) THEN clear(w, j + 1, i - 1, d) ELSE clear(w, j + 1, Len(w), d)
      /\ \A i \in 1 .. Len(v) : clear(v, 1, i - 1, d) =>
           IF i <= Len(w) THEN clear(w, 1, i - 1, d) ELSE clear(w, 1, Len(w), d)
      /\ \A j \in 1 .. Len(v) : clear(v, j + 1, Len(v), d) => clear(w, j + 1, Len(w), d)
      /\ clear(v, 1, Len(v), d) => clear(w, 1, Len(w), d)
  <2>. HIDE DEF v
  <2>1. ASSUME NEW i \in 1 .. Len(v), NEW a \in Nat, a >= 1, clear(v, a, i - 1, d)
        PROVE  IF i <= Len(w) THEN clear(w, a, i - 1, d) ELSE clear(w, a, Len(w), d)
    BY <1>1, <1>3, <2>1
  <2>2. ASSUME NEW a \in Nat, a >= 1, clear(v, a, Len(v), d)
        PROVE  clear(w, a, Len(w), d)
    BY <1>1, <1>3, <2>2
  <2>3. \A j \in 1 .. Len(v) : j + 1 \in Nat /\ j + 1 >= 1
    BY <1>1
  <2>4. 1 \in Nat /\ 1 >= 1
    OBVIOUS
  <2>. QED
    BY <2>1, <2>2, <2>3, <2>4, Zenon
<1>. HIDE DEF v
<1>5. Grouped(v, d)
  <2>1. ASSUME NEW i \in 1 .. Len(v), NEW j \in 1 .. Len(v), j < i, announces(v[j], d),
               carries(v[i], d), clear(v, j + 1, i - 1, d)
        PROVE  matches(v[i], v[j])
    <3>1. j \in 1 .. Len(w) /\ v[j] = w[j] /\ announces(w[j], d)
      BY <1>2, <2>1
    <3>2. CASE i <= Len(w)
      <4>1. clear(w, j + 1, i - 1, d) /\ i \in 1 .. Len(w) /\ v[i] = w[i]
        BY <1>1, <1>4, <2>1, <3>2
      <4>. QED
        BY <2>1, <3>1, <4>1 DEF LinkOK, Grouped
    <3>3. CASE i > Len(w)
      <4>1. clear(w, j + 1, Len(w), d)
        BY <1>1, <1>4, <2>1, <3>3
      <4>2. T # NoSession /\ matches(v[i], T)
        BY <1>2, <2>1, <3>3, SMTT(30)
      <4>3. same(w[j], T)
        BY <3>1, <4>1, <4>2, SMTT(30) DEF LinkOK, Sending
      <4>. QED
        BY <3>1, <4>2, <4>3, SMTT(30) DEF same, matches
    <3>. QED
      BY <1>1, <3>2, <3>3
  <2>. QED
    BY <2>1 DEF Grouped
<1>6. Fed(v, R, d)
  <2>1. ASSUME NEW i \in 1 .. Len(v), carries(v[i], d), clear(v, 1, i - 1, d), R # NoSession
        PROVE  matches(v[i], R)
    <3>1. CASE i <= Len(w)
      <4>1. clear(w, 1, i - 1, d) /\ i \in 1 .. Len(w) /\ v[i] = w[i]
        BY <1>1, <1>4, <2>1, <3>1
      <4>. QED
        BY <2>1, <4>1 DEF LinkOK, Fed
    <3>2. CASE i > Len(w)
      <4>1. clear(w, 1, Len(w), d)
        BY <1>1, <1>4, <2>1, <3>2, SMTT(30)
      <4>2. T # NoSession /\ matches(v[i], T)
        BY <1>2, <2>1, <3>2
      <4>3. same(R, T)
        BY <2>1, <4>1, <4>2, SMTT(30) DEF LinkOK, Sending
      <4>. QED
        BY <4>2, <4>3 DEF same, matches
    <3>. QED
      BY <1>1, <3>1, <3>2, SMTT(30)
  <2>. QED
    BY <2>1 DEF Fed
<1>7. Ordered(v, d) /\ Ahead(v, R, off, del, d)
  BY <1>2 DEF LinkOK, Ordered, Ahead
<1>8. Sending(v, T, R, d)
  BY <1>2, <1>4 DEF LinkOK, Sending
<1>. QED
  BY <1>5, <1>6, <1>7, <1>8 DEF LinkOK, v

\* The sender announces its next message.
LEMMA AppendAnnounced ==
  ASSUME NEW w \in Seq(Frame), NEW f \in Frame, NEW d, announces(f, d),
         NEW T, NEW N, NEW R, NEW off, NEW more, NEW del, LinkOK(w, T, R, off, del, d),
         same(f, N),
         Range(off) \subseteq Range(more), numbered(f.hdr, f.total) \in Range(more),
         \A m \in Range(off) : m.hdr < f.hdr,
         \A x \in 1 .. Len(del) : del[x] \in Range(off)
  PROVE  LinkOK(w \o <<f>>, N, R, more, del, d)
<1>. DEFINE v == w \o <<f>>
            z == Len(w) + 1
<1>1. /\ Len(w) \in Nat /\ Len(v) = z /\ v[z] = f
      /\ \A i \in 1 .. Len(w) : v[i] = w[i] /\ i \in 1 .. Len(v)
  <2>1. <<f>> \in Seq(Frame) /\ Len(<<f>>) = 1 /\ <<f>>[1] = f
    OBVIOUS
  <2>. DEFINE out == <<f>>
  <2>2. /\ Len(w) \in Nat /\ Len(v) = Len(w) + Len(out)
        /\ \A i \in 1 .. Len(w) : v[i] = w[i] /\ i \in 1 .. Len(v)
        /\ \A i \in 1 .. Len(v) : i > Len(w) =>
             i - Len(w) \in 1 .. Len(out) /\ v[i] = out[i - Len(w)]
    BY <2>1, ConcatFacts
  <2>. HIDE DEF out, v
  <2>3. Len(out) = 1 /\ out[1] = f
    BY <2>1 DEF out
  <2>4. z \in 1 .. Len(v) /\ z > Len(w) /\ z - Len(w) = 1 /\ Len(v) = z
    BY <2>2, <2>3
  <2>. QED
    BY <2>2, <2>3, <2>4
<1>2. /\ \A i, j \in 1 .. Len(w) : clear(v, j + 1, i - 1, d) => clear(w, j + 1, i - 1, d)
      /\ \A i \in 1 .. Len(w) : clear(v, 1, i - 1, d) => clear(w, 1, i - 1, d)
  <2>. HIDE DEF v, z
  <2>. QED
    BY <1>1 DEF clear
<1>3. \A i \in 1 .. Len(v) : (i \in 1 .. Len(w) /\ v[i] = w[i]) \/ (i = z /\ v[i] = f)
  <2>. HIDE DEF v
  <2>. QED
    BY <1>1
<1>4. ~carries(f, d)
  BY DEF announces, carries
<1>5. /\ \A j \in 1 .. Len(w) : announces(w[j], d) => w[j].hdr < f.hdr
      /\ R # NoSession => R.hdr < f.hdr
      /\ \A x \in 1 .. Len(del) : del[x].hdr < f.hdr
  <2>1. \A h, n : numbered(h, n).hdr = h
    BY DEF numbered
  <2>2. /\ \A j \in 1 .. Len(w) :
             announces(w[j], d) => numbered(w[j].hdr, w[j].total) \in Range(off)
        /\ R # NoSession => numbered(R.hdr, R.total) \in Range(off)
    BY DEF LinkOK, Ahead, Receiving
  <2>. QED
    BY <2>1, <2>2, Zenon
<1>. HIDE DEF v
<1>6. Grouped(v, d)
  <2>1. ASSUME NEW i \in 1 .. Len(v), NEW j \in 1 .. Len(v), j < i, announces(v[j], d),
               carries(v[i], d), clear(v, j + 1, i - 1, d)
        PROVE  matches(v[i], v[j])
    <3>1. i \in 1 .. Len(w) /\ v[i] = w[i]
      BY <1>3, <1>4, <2>1
    <3>2. j \in 1 .. Len(w) /\ v[j] = w[j]
      BY <1>1, <2>1, <3>1, SMTT(30)
    <3>. QED
      BY <1>2, <2>1, <3>1, <3>2 DEF LinkOK, Grouped
  <2>. QED
    BY <2>1 DEF Grouped
<1>7. Fed(v, R, d)
  BY <1>2, <1>3, <1>4, SMTT(30) DEF LinkOK, Fed
<1>8. Ordered(v, d)
  <2>1. ASSUME NEW i \in 1 .. Len(v), NEW j \in 1 .. Len(v), j < i, announces(v[j], d),
               announces(v[i], d)
        PROVE  v[j].hdr < v[i].hdr
    <3>1. j \in 1 .. Len(w) /\ v[j] = w[j]
      BY <1>1, <2>1
    <3>. QED
      BY <1>3, <1>5, <2>1, <3>1, SMTT(30) DEF LinkOK, Ordered
  <2>. QED
    BY <2>1 DEF Ordered
<1>9. Ahead(v, R, more, del, d)
  BY <1>3, <1>5 DEF LinkOK, Ahead
<1>10. Sending(v, N, R, d)
  <2>1. ASSUME NEW a \in Nat, a <= z
        PROVE  ~clear(v, a, Len(v), d)
    <3>1. z \in a .. Len(v) /\ announces(v[z], d)
      BY <1>1, <2>1
    <3>. QED
      BY <3>1 DEF clear
  <2>2. ~clear(v, 1, Len(v), d)
    BY <1>1, <2>1
  <2>3. \A j \in 1 .. Len(w) : ~clear(v, j + 1, Len(v), d)
    BY <1>1, <2>1
  <2>. QED
    BY <1>3, <2>2, <2>3 DEF Sending
<1>11. Receiving(R, more, del)
  BY DEF LinkOK, Receiving
<1>. QED
  BY <1>6, <1>7, <1>8, <1>9, <1>10, <1>11 DEF LinkOK, v

------------------------------------------------------------------------------
(* The sessions *)

\* The sender's session goes, or changes next_seq, window or state.
LEMMA SenderGoesOn ==
  ASSUME NEW w, NEW d, NEW T, NEW N, NEW R, NEW off, NEW del,
         LinkOK(w, T, R, off, del, d), N # NoSession => T # NoSession /\ same(N, T)
  PROVE  LinkOK(w, N, R, off, del, d)
<1>1. Sending(w, N, R, d)
  BY Zenon DEF LinkOK, Sending, same
<1>. QED
  BY <1>1 DEF LinkOK

\* The receiver's session goes, or changes its state.
LEMMA ReceiverGoesOn ==
  ASSUME NEW w, NEW d, NEW T, NEW R, NEW N, NEW off, NEW del,
         LinkOK(w, T, R, off, del, d),
         N # NoSession => R # NoSession /\ same(N, R) /\ N.buf = R.buf /\ N.next = R.next
  PROVE  LinkOK(w, T, N, off, del, d)
<1>1. Fed(w, N, d)
  BY DEF LinkOK, Fed, same, matches
<1>2. Ahead(w, N, off, del, d)
  BY DEF LinkOK, Ahead, same
<1>3. Sending(w, T, N, d)
  BY DEF LinkOK, Sending, same
<1>4. Receiving(N, off, del)
  BY DEF LinkOK, Receiving, same
<1>. QED
  BY <1>1, <1>2, <1>3, <1>4, SMTT(30) DEF LinkOK

\* The buffer of session R with packet fr.
stored_buffer(R, fr) == [i \in 1 .. R.total |-> IF i = fr.seq THEN fr.data ELSE R.buf[i]]

\* Storing a packet changes the buffer at one place, and next_seq.
LEMMA StoredFields ==
  ASSUME NEW R \in Session, NEW fr \in Frame, Len(R.buf) = R.total,
         dt_in_sequence(R, fr), NEW N, N = store(R, fr)
  PROVE  /\ N \in Session /\ Len(N.buf) = N.total /\ N.dir = R.dir
         /\ N.src = R.src /\ N.dst = R.dst /\ N.bam = R.bam
         /\ N.hdr = R.hdr /\ N.total = R.total
         /\ N.buf = stored_buffer(R, fr)
         /\ N.next = fr.seq + 1 \/ (N.next = 0 /\ fr.seq = R.total)
<1>. DEFINE B == stored_buffer(R, fr)
            n == (fr.seq + 1) % SeqSize
<1>1. /\ R.total \in Nat /\ R.total <= MaxPackets
      /\ fr.seq \in 1 .. R.total /\ MaxPackets = SeqSize - 1 /\ SeqSize \in Nat
      /\ R.buf \in Seq(Data) /\ fr.data \in Data
  BY TransportAssumption DEF Session, Frame, Number, dt_in_sequence, MaxPackets
<1>2. n \in Number /\ (n = fr.seq + 1 \/ (n = 0 /\ fr.seq = R.total))
  <2>1. fr.seq + 1 \in Nat /\ SeqSize > 0 /\ fr.seq + 1 <= SeqSize
    BY <1>1
  <2>2. n = IF fr.seq + 1 = SeqSize THEN 0 ELSE fr.seq + 1
    BY <1>1, <2>1, Wraps, SMTT(30)
  <2>. HIDE DEF n
  <2>. QED
    BY <1>1, <2>1, <2>2 DEF Number
<1>3. \A i \in 1 .. R.total : R.buf[i] \in Data
  BY <1>1
<1>4. B \in [1 .. R.total -> Data]
  BY <1>1, <1>3 DEF stored_buffer
<1>5. B \in Seq(Data) /\ Len(B) = R.total
  <2>. HIDE DEF B
  <2>. QED
    BY <1>1, <1>4, FunctionIsSeq, SMTT(30)
<1>6. N = [R EXCEPT !.buf = B, !.next = n]
  BY DEF store, stored_buffer
<1>. HIDE DEF B, n
<1>7. /\ N \in Session /\ N.dir = R.dir /\ N.buf = B /\ N.next = n
      /\ N.src = R.src /\ N.dst = R.dst /\ N.bam = R.bam
      /\ N.hdr = R.hdr /\ N.total = R.total
  BY <1>2, <1>5, <1>6, Zenon DEF Session
<1>. QED
  BY <1>2, <1>5, <1>7 DEF B

\* A packet that the receiver stores is the next one of its message.  With the
\* last one the buffer is the message.
LEMMA StoredPacket ==
  ASSUME NEW R \in Session, NEW fr \in Frame, Len(R.buf) = R.total,
         dt_in_sequence(R, fr), matches(fr, R),
         \A i \in 1 .. R.total : i < R.next => R.buf[i] = R.hdr * SeqSize + i,
         NEW N, N = store(R, fr)
  PROVE  /\ N.hdr = R.hdr /\ N.total = R.total
         /\ \A i \in 1 .. N.total : i < N.next => N.buf[i] = N.hdr * SeqSize + i
         /\ R.next \in 1 .. R.total
         /\ fr.seq = N.total =>
              N.next \notin 1 .. N.total /\ message(N) = numbered(N.hdr, N.total)
<1>. DEFINE B == stored_buffer(R, fr)
<1>1. R.total \in Nat /\ R.next = fr.seq /\ R.hdr \in Nat /\ fr.seq \in 1 .. R.total
  BY DEF Session, Number, dt_in_sequence
<1>2. /\ N.hdr = R.hdr /\ N.total = R.total /\ N.buf = B
      /\ N.next = fr.seq + 1 \/ (N.next = 0 /\ fr.seq = R.total)
  BY StoredFields, ZenonT(40)
<1>3. \A i \in 1 .. R.total : i <= fr.seq => B[i] = R.hdr * SeqSize + i
  BY <1>1 DEF matches, stored_buffer
<1>4. B = [i \in 1 .. R.total |-> B[i]]
  BY DEF stored_buffer
<1>. HIDE DEF B
<1>5. \A i \in 1 .. N.total : i < N.next => N.buf[i] = N.hdr * SeqSize + i
  BY <1>1, <1>2, <1>3
<1>6. ASSUME fr.seq = N.total
      PROVE  N.next \notin 1 .. N.total /\ message(N) = numbered(N.hdr, N.total)
  <2>1. N.next \notin 1 .. N.total
    BY <1>1, <1>2, <1>6, SMTT(30)
  <2>2. \A i \in 1 .. R.total : B[i] = R.hdr * SeqSize + i
    BY <1>1, <1>2, <1>3, <1>6
  <2>3. B = [i \in 1 .. R.total |-> R.hdr * SeqSize + i]
    BY <1>4, <2>2, Zenon
  <2>. QED
    BY <1>2, <2>1, <2>3, SMTT(30) DEF message, numbered
<1>. QED
  BY <1>1, <1>2, <1>5, <1>6

\* The receiver stores the packet at the head of the wire; del becomes more.
LEMMA ReceiverStores ==
  ASSUME NEW w \in Seq(Frame), w # <<>>, NEW d, NEW T, NEW R \in Session, NEW S, NEW N,
         NEW off, NEW M, NEW del \in Seq(M), NEW more, LinkOK(w, T, R, off, del, d),
         Len(R.buf) = R.total, \A x \in 1 .. Len(del) : del[x].hdr \in Nat,
         carries(Head(w), d), dt_in_sequence(R, Head(w)), S = store(R, Head(w)),
         N # NoSession, same(N, S), N.buf = S.buf, N.next = S.next,
         message(S) \in M,
         more = IF Head(w).seq = S.total THEN Append(del, message(S)) ELSE del
  PROVE  /\ LinkOK(w, T, N, off, more, d)
         /\ Head(w).seq = S.total =>
              /\ message(S) \in Range(off)
              /\ \A x \in 1 .. Len(del) : del[x].hdr < message(S).hdr
<1>. DEFINE fr == Head(w)
<1>1. fr \in Frame /\ w[1] = fr /\ 1 \in 1 .. Len(w)
  BY TailFacts
<1>2. R # NoSession
  BY NoneIsNoSession
<1>3. matches(fr, R)
  <2>1. clear(w, 1, 1 - 1, d)
    BY DEF clear
  <2>. QED
    BY <1>1, <1>2, <2>1, SMTT(30) DEF LinkOK, Fed
<1>4. /\ R.hdr \in Nat /\ S.hdr = R.hdr /\ S.total = R.total
      /\ \A i \in 1 .. S.total : i < S.next => S.buf[i] = S.hdr * SeqSize + i
      /\ R.next \in 1 .. R.total
      /\ fr.seq = S.total =>
           S.next \notin 1 .. S.total /\ message(S) = numbered(S.hdr, S.total)
  <2>1. \A i \in 1 .. R.total : i < R.next => R.buf[i] = R.hdr * SeqSize + i
    BY <1>2 DEF LinkOK, Receiving
  <2>2. R.hdr \in Nat
    BY DEF Session
  <2>. QED
    BY <1>1, <1>3, <2>1, <2>2, StoredPacket, ZenonT(40)
<1>5. /\ N.hdr = R.hdr /\ N.total = R.total
      /\ \A i \in 1 .. N.total : i < N.next => N.buf[i] = N.hdr * SeqSize + i
  BY <1>4 DEF same
<1>6. /\ \A x \in 1 .. Len(del) : del[x].hdr < R.hdr
      /\ numbered(R.hdr, R.total) \in Range(off)
  BY <1>2, <1>4, SMTT(30) DEF LinkOK, Receiving
<1>7. CASE fr.seq = S.total
  <2>. DEFINE m == message(S)
  <2>1. m = numbered(R.hdr, R.total) /\ m.hdr = R.hdr /\ N.next \notin 1 .. N.total
    <3>1. m = numbered(R.hdr, R.total) /\ N.next \notin 1 .. N.total
      BY <1>4, <1>5, <1>7, SMTT(30)
    <3>2. numbered(R.hdr, R.total).hdr = R.hdr
      BY DEF numbered
    <3>. QED
      BY <3>1, <3>2
  <2>2. more = Append(del, m) /\ m \in M
    BY <1>7
  <2>. HIDE DEF m
  <2>3. \A x \in 1 .. Len(more) :
          (x \in 1 .. Len(del) /\ more[x] = del[x]) \/ more[x] = m
    BY <2>2, SMTT(30)
  <2>4. \A x \in 1 .. Len(more) : more[x].hdr <= R.hdr
    BY <1>4, <1>6, <2>1, <2>3, SMTT(30)
  <2>5. Receiving(N, off, more)
    BY <1>5, <1>6, <2>1, <2>4, SMTT(30) DEF Receiving
  <2>6. Ahead(w, N, off, more, d)
    BY <1>2, <1>5, <2>1, <2>3, SMTT(30) DEF LinkOK, Ahead
  <2>7. Fed(w, N, d) /\ Sending(w, T, N, d)
    BY <1>2, <1>5, SMTT(30) DEF LinkOK, Fed, Sending, matches, same
  <2>. QED
    BY <1>6, <2>1, <2>5, <2>6, <2>7 DEF LinkOK, m
<1>8. CASE fr.seq # S.total
  <2>1. more = del
    BY <1>8, SMTT(30)
  <2>2. Receiving(N, off, del)
    BY <1>2, <1>5, <1>6, SMTT(30) DEF LinkOK, Receiving
  <2>3. Ahead(w, N, off, del, d)
    BY <1>2, <1>5 DEF LinkOK, Ahead
  <2>4. Fed(w, N, d) /\ Sending(w, T, N, d)
    BY <1>2, <1>5 DEF LinkOK, Fed, Sending, matches, same
  <2>. QED
    BY <1>8, <2>1, <2>2, <2>3, <2>4 DEF LinkOK
<1>. QED
  BY <1>7, <1>8

------------------------------------------------------------------------------
(* Nodes, links and frames *)

\* Frame f is one that node n sends.
proper(n, f) ==
  /\ f.type = "RTS" => f.src = n /\ f.dst = peer(n)
  /\ f.type = "BAM" => f.src = n /\ f.dst = NO_ADDR
  /\ f.type = "DT" => f.src = n /\ f.dst \in {peer(n), NO_ADDR}
  /\ f.type = "CTS" => f.src = n

\* Session s is one that node n keeps under key k.
owned(n, k, s) ==
  /\ s.src = k[1] /\ s.dst = k[2] /\ s.bam = (k[2] = NO_ADDR) /\ Len(s.buf) = s.total
  /\ \/ /\ s.dir = "Tx" /\ k \in {<<n, peer(n)>>, <<n, NO_ADDR>>}
        /\ message(s) = numbered(s.hdr, s.total)
     \/ s.dir = "Rx" /\ k \in {<<peer(n), n>>, <<peer(n), NO_ADDR>>}

\* S is the session map of node n.
Own(n, S) == S \in SessionMap /\ \A k \in Key : S[k] # NoSession => owned(n, k, S[k])

\* Node n sends out.
Outgoing(n, out) == out \in Seq(Frame) /\ \A i \in 1 .. Len(out) : proper(n, out[i])

\* Two nodes, and the links between them.
LEMMA NodeFacts ==
  ASSUME NEW n \in Node
  PROVE  /\ n \in Address /\ n # NO_ADDR /\ NO_ADDR \in Address
         /\ peer(n) \in Node /\ peer(n) # n /\ peer(peer(n)) = n
         /\ peer(n) \in Address /\ peer(n) # NO_ADDR
         /\ \A m \in Node : m \in {n, peer(n)}
         /\ <<n, peer(n)>> \in Link /\ <<n, NO_ADDR>> \in Link
         /\ <<n, peer(n)>> \in Key /\ <<n, NO_ADDR>> \in Key
         /\ \A l \in Link : l[1] = n => l \in {<<n, peer(n)>>, <<n, NO_ADDR>>}
<1>1. n \in {0, 1} /\ Node = {0, 1} /\ MaxUnicast \in Nat
  BY TransportAssumption DEF Node
<1>2. /\ n \in Address /\ n # NO_ADDR /\ NO_ADDR \in Address
      /\ peer(n) \in Node /\ peer(n) # n /\ peer(peer(n)) = n
      /\ peer(n) \in Address /\ peer(n) # NO_ADDR
      /\ \A m \in Node : m \in {n, peer(n)}
  BY <1>1 DEF peer, Address, NO_ADDR, Unicast
<1>3. <<n, peer(n)>> \in Key /\ <<n, NO_ADDR>> \in Key
  BY <1>2 DEF Key
<1>4. <<n, peer(n)>> \in Link /\ <<n, NO_ADDR>> \in Link
  BY <1>2 DEF Link
<1>5. \A l \in Link : l[1] = n => l \in {<<n, peer(n)>>, <<n, NO_ADDR>>}
  BY <1>2 DEF Link
<1>. QED
  BY <1>2, <1>3, <1>4, <1>5

\* A link is the key of its sessions.
LEMMA LinkFacts ==
  ASSUME NEW l \in Link
  PROVE  /\ l \in Key /\ l = <<l[1], l[2]>> /\ l[1] \in Node
         /\ l[2] \in {peer(l[1]), NO_ADDR}
<1>1. l[1] \in Node
  BY DEF Link
<1>2. l \in {<<l[1], peer(l[1])>>, <<l[1], NO_ADDR>>}
  BY <1>1, NodeFacts, ZenonT(40)
<1>3. <<l[1], peer(l[1])>> \in Key /\ <<l[1], NO_ADDR>> \in Key
  BY <1>1, NodeFacts
<1>. QED
  BY <1>1, <1>2, <1>3

\* The frames that are made from a session.
LEMMA SessionFrames ==
  ASSUME NEW s \in Session, Len(s.buf) = s.total
  PROVE  /\ rts_frame(s) \in Frame /\ bam_frame(s) \in Frame /\ cts_frame(s) \in Frame
         /\ eom_frame(s) \in Frame /\ abort_frame(s) \in Frame
         /\ \A i \in 0 .. s.total : dt_frame(s, i) \in Frame
<1>1. /\ s.total \in Number /\ s.window \in Number /\ s.hdr \in Nat /\ s.next \in Number
      /\ s.src \in Address /\ s.dst \in Address /\ s.buf \in Seq(Data)
      /\ s.total \in Nat /\ s.total <= MaxPackets
  BY DEF Session, Number
<1>2. NO_ADDR \in Address /\ 0 \in Number /\ MaxPackets \in Number /\ Blank \in Data
  BY NumberRanges
<1>3. rts_frame(s) \in Frame /\ bam_frame(s) \in Frame
  BY <1>1, <1>2, Zenon DEF rts_frame, bam_frame, cm_frame, Frame
<1>4. cts_frame(s) \in Frame /\ eom_frame(s) \in Frame /\ abort_frame(s) \in Frame
  BY <1>1, <1>2, ZenonT(40) DEF cts_frame, eom_frame, abort_frame, cm_frame, Frame
<1>5. ASSUME NEW i \in 0 .. s.total
      PROVE  dt_frame(s, i) \in Frame
  <2>1. i \in Number
    BY <1>1, NumberRanges DEF Number
  <2>2. content(s, i) \in Data
    <3>1. CASE i = 0
      BY <3>1 DEF content, Data, Garbage
    <3>2. CASE i # 0
      <4>1. i \in 1 .. Len(s.buf)
        BY <1>1, <3>2
      <4>. QED
        BY <1>1, <3>2, <4>1 DEF content
    <3>. QED
      BY <3>1, <3>2
  <2>. HIDE DEF content
  <2>. QED
    BY <1>1, <1>2, <2>1, <2>2 DEF dt_frame, Frame
<1>. QED
  BY <1>3, <1>4, <1>5

------------------------------------------------------------------------------
(* What a step does to a link *)

\* Session t is s in another state, or is removed.
Still(s, t) ==
  t # NoSession => s # NoSession /\ same(t, s) /\ t.buf = s.buf /\ t.next = s.next

\* The sender's session goes from T to N while out is sent.
Continues(T, N, out, d) ==
  /\ N # NoSession => T # NoSession /\ same(N, T)
  /\ \A i \in 1 .. Len(out) :
       /\ ~announces(out[i], d)
       /\ carries(out[i], d) => T # NoSession /\ matches(out[i], T)

\* The receiver's session goes from R to N when fr is received, and up is delivered.
Takes(R, N, fr, up, d) ==
  \/ announces(fr, d) /\ N # NoSession /\ same(N, fr) /\ N.next = 1 /\ up = <<>>
  \/ ~announces(fr, d) /\ Still(R, N) /\ up = <<>>
  \/ /\ carries(fr, d) /\ R # NoSession /\ dt_in_sequence(R, fr)
     /\ N # NoSession /\ Still(store(R, fr), N)
     /\ up = IF fr.seq = store(R, fr).total THEN <<message(store(R, fr))>> ELSE <<>>

\* Message m comes after all that was delivered.
Fresh(m, off, del) == m \in Range(off) /\ \A x \in 1 .. Len(del) : del[x].hdr < m.hdr

\* up is nothing, or one message that does.
Following(up, off, del) == up = <<>> \/ \E m : up = <<m>> /\ Fresh(m, off, del)

\* The sender's side.
LEMMA LinkContinues ==
  ASSUME NEW w \in Seq(Frame), NEW out \in Seq(Frame), NEW d, NEW T, NEW N, NEW R,
         NEW off, NEW del, LinkOK(w, T, R, off, del, d), Continues(T, N, out, d)
  PROVE  LinkOK(w \o out, N, R, off, del, d)
<1>1. LinkOK(w \o out, T, R, off, del, d)
  BY AppendOther, Zenon DEF Continues
<1>. QED
  BY <1>1, SenderGoesOn, Zenon DEF Continues

\* The receiver's side.
LEMMA LinkTakes ==
  ASSUME NEW w \in Seq(Frame), w # <<>>, NEW d, NEW T, NEW R,
         NEW N, NEW off, NEW Msg, \A m \in Msg : m.hdr \in Nat, NEW del \in Seq(Msg), NEW up,
         LinkOK(w, T, R, off, del, d),
         R # NoSession => R \in Session /\ Len(R.buf) = R.total,
         Takes(R, N, Head(w), up, d)
  PROVE  LinkOK(Tail(w), T, N, off, del \o up, d) /\ Following(up, off, del)
<1>. DEFINE fr == Head(w)
            S  == store(R, fr)
<1>1. \A x \in 1 .. Len(del) : del[x].hdr \in Nat
  OBVIOUS
<1>2. up = <<>> => del \o up = del
  OBVIOUS
<1>3. CASE announces(fr, d) /\ N # NoSession /\ same(N, fr) /\ N.next = 1 /\ up = <<>>
  <2>1. LinkOK(Tail(w), T, N, off, del, d)
    BY <1>1, <1>3, PopAnnounced, Zenon
  <2>. QED
    BY <1>2, <1>3, <2>1 DEF Following
<1>4. CASE ~announces(fr, d) /\ Still(R, N) /\ up = <<>>
  <2>1. LinkOK(Tail(w), T, R, off, del, d)
    BY <1>4, PopOther, Zenon
  <2>2. LinkOK(Tail(w), T, N, off, del, d)
    BY <1>4, <2>1, ReceiverGoesOn, Zenon DEF Still
  <2>. QED
    BY <1>2, <1>4, <2>2 DEF Following
<1>5. CASE /\ carries(fr, d) /\ R # NoSession /\ dt_in_sequence(R, fr)
           /\ N # NoSession /\ Still(S, N)
           /\ up = IF fr.seq = S.total THEN <<message(S)>> ELSE <<>>
  <2>. DEFINE M == Msg \cup {message(S)}
              more == IF fr.seq = S.total THEN Append(del, message(S)) ELSE del
  <2>1. del \in Seq(M) /\ message(S) \in M
    OBVIOUS
  <2>2. more = del \o up
    <3>. HIDE DEF M, S, fr
    <3>. QED
      BY <1>2, <1>5, <2>1, SMTT(30)
  <2>3. R \in Session /\ Len(R.buf) = R.total
    BY <1>5
  <2>4. N # NoSession /\ same(N, S) /\ N.buf = S.buf /\ N.next = S.next
    BY <1>5, Zenon DEF Still
  <2>5. /\ LinkOK(w, T, N, off, more, d)
        /\ fr.seq = S.total =>
             /\ message(S) \in Range(off)
             /\ \A x \in 1 .. Len(del) : del[x].hdr < message(S).hdr
    <3>. HIDE DEF M
    <3>. QED
      BY <1>1, <1>5, <2>1, <2>3, <2>4, ReceiverStores, ZenonT(40)
  <2>6. ~announces(fr, d)
    BY <1>5 DEF carries, announces
  <2>. HIDE DEF more, S
  <2>7. LinkOK(Tail(w), T, N, off, more, d)
    BY <2>5, <2>6, PopOther, Zenon
  <2>8. Following(up, off, del)
    <3>. HIDE DEF fr
    <3>. QED
      BY <1>5, <2>5, Zenon DEF Fresh, Following
  <2>. QED
    BY <2>2, <2>7, <2>8, Zenon
<1>. QED
  BY <1>3, <1>4, <1>5, Zenon DEF Takes

------------------------------------------------------------------------------
(* The handlers, when no attempt to send fails *)

\* Node n, with sessions S, receives fr with effect e.
Handled(n, S, fr, e) ==
  /\ Own(n, e.sessions) /\ Outgoing(n, e.out)
  /\ \A l \in Link : l[1] = n => Continues(S[l], e.sessions[l], e.out, l[2])
  /\ \A l \in Link : l[1] = peer(n) =>
       Takes(S[l], e.sessions[l], fr, IF l = <<fr.src, fr.dst>> THEN e.up ELSE <<>>, l[2])
  /\ e.up = <<>> \/ fr.src = peer(n)

\* Node n answers with frames that are no matter of its own links.
Quiet(n, out) ==
  /\ out \in Seq(Frame)
  /\ \A i \in 1 .. Len(out) :
       out[i].type \in {"CTS", "EOM", "ABORT"} /\ (out[i].type = "CTS" => out[i].src = n)

\* Such frames continue every link.
LEMMA QuietFacts ==
  ASSUME NEW n, NEW out, Quiet(n, out)
  PROVE  /\ Outgoing(n, out)
         /\ \A T, N, d : (N # NoSession => T # NoSession /\ same(N, T)) =>
                           Continues(T, N, out, d)
BY DEF Quiet, Outgoing, proper, Continues, announces, carries

\* Nothing is such a sequence.
LEMMA QuietNothing == \A n : Quiet(n, <<>>)
<1>1. <<>> \in Seq(Frame) /\ Len(<<>>) = 0
  OBVIOUS
<1>. QED
  BY <1>1 DEF Quiet

\* So is one frame.
LEMMA QuietSend ==
  ASSUME NEW n, NEW f \in Frame, f.type \in {"CTS", "EOM", "ABORT"},
         f.type = "CTS" => f.src = n, NEW i
  PROVE  Quiet(n, bus_send(f, i, {}))
<1>1. bus_send(f, i, {}) = <<f>>
  BY DEF bus_send
<1>2. <<f>> \in Seq(Frame) /\ Len(<<f>>) = 1 /\ <<f>>[1] = f
  OBVIOUS
<1>3. Quiet(n, <<f>>)
  BY <1>2 DEF Quiet
<1>. QED
  BY <1>1, <1>3, SMTT(30)

\* Session s in state x.
LEMMA OwnChange ==
  ASSUME NEW s \in Session, NEW x \in States, NEW t, t = [s EXCEPT !.state = x]
  PROVE  /\ t \in Session /\ t # NoSession /\ Still(s, t) /\ same(t, s)
         /\ \A n, k : owned(n, k, s) => owned(n, k, t)
<1>1. /\ t \in Session
      /\ t.dir = s.dir /\ t.src = s.src /\ t.dst = s.dst /\ t.bam = s.bam
      /\ t.buf = s.buf /\ t.total = s.total /\ t.hdr = s.hdr /\ t.next = s.next
  BY Zenon DEF Session, States
<1>2. t # NoSession /\ s # NoSession
  BY <1>1, NoneIsNoSession
<1>3. Still(s, t) /\ same(t, s)
  BY <1>1, <1>2 DEF Still, same
<1>4. message(t) = message(s)
  BY <1>1 DEF message
<1>5. \A n, k : owned(n, k, s) => owned(n, k, t)
  BY <1>1, <1>4, Zenon DEF owned
<1>. QED
  BY <1>1, <1>2, <1>3, <1>5, SMTT(30)

\* A session stored in the map of its node.
LEMMA OwnPut ==
  ASSUME NEW n, NEW S, Own(n, S), NEW k, NEW s \in Session,
         k \in Key => owned(n, k, s)
  PROVE  /\ Own(n, put(S, k, s))
         /\ k \in Key => put(S, k, s)[k] = s
         /\ \A l \in Key : l # k => put(S, k, s)[l] = S[l]
<1>1. /\ put(S, k, s) \in SessionMap
      /\ k \in Key => put(S, k, s)[k] = s
      /\ \A l \in Key : l # k => put(S, k, s)[l] = S[l]
  BY ZenonT(40) DEF Own, put, SessionMap
<1>. QED
  BY <1>1 DEF Own

\* What a map holds.
LEMMA OwnFacts ==
  ASSUME NEW n, NEW S, Own(n, S), NEW k \in Key, S[k] # NoSession
  PROVE  S[k] \in Session /\ owned(n, k, S[k]) /\ Len(S[k].buf) = S[k].total
BY DEF Own, SessionMap, owned

\* A frame that opens no session and stores nothing, whatever state it sets.
LEMMA HandledQuiet ==
  ASSUME NEW n \in Node, NEW S, NEW fr, fr.type \notin {"RTS", "BAM"},
         NEW U, Own(n, U), NEW out, Quiet(n, out),
         \A k \in Key : Still(S[k], U[k]),
         NEW e, e.sessions = U, e.out = out, e.up = <<>>
  PROVE  Handled(n, S, fr, e)
<1>1. Own(n, e.sessions) /\ Outgoing(n, e.out)
  BY QuietFacts
<1>2. ASSUME NEW l \in Link
      PROVE  /\ Continues(S[l], e.sessions[l], e.out, l[2])
             /\ Takes(S[l], e.sessions[l], fr, <<>>, l[2])
  <2>1. Still(S[l], U[l])
    BY LinkFacts
  <2>2. Continues(S[l], U[l], out, l[2])
    BY <2>1, QuietFacts, Zenon DEF Still
  <2>3. ~announces(fr, l[2])
    BY DEF announces
  <2>. QED
    BY <2>1, <2>2, <2>3, Zenon DEF Takes
<1>. QED
  BY <1>1, <1>2, Zenon DEF Handled

\* The abort for a frame without a session.
LEMMA DummyAbort ==
  ASSUME NEW n \in Node, NEW fr \in Frame, NEW dir \in {"Tx", "Rx"}
  PROVE  dummy_abort(n, fr, dir) \in Frame /\ dummy_abort(n, fr, dir).type = "ABORT"
<1>1. fr.src \in Address /\ fr.hdr \in Nat /\ n \in Address
  BY NodeFacts, ZenonT(40) DEF Frame
<1>2. 0 \in Number /\ MaxPackets \in Number /\ Blank \in Data
  BY NumberRanges
<1>. QED
  BY <1>1, <1>2, ZenonT(40) DEF dummy_abort, new_session, abort_frame, cm_frame, Frame

\* A session does not change by itself.
LEMMA StillSame == \A s : Still(s, s)
BY DEF Still, same

\* The session that an announcement opens.
OpenedBy(s, src, dst, hdr, total) ==
  /\ s \in Session /\ Len(s.buf) = s.total /\ s.dir = "Rx" /\ s.bam = FALSE
  /\ s.src = src /\ s.dst = dst /\ s.hdr = hdr /\ s.total = total /\ s.next = 1

\* It is new_session with a blank buffer.
LEMMA OpenedSession ==
  ASSUME NEW src \in Address, NEW dst \in Address, NEW hdr \in Nat, NEW total \in Number
  PROVE  OpenedBy(new_session("Rx", src, dst, hdr, blank_buffer(total)), src, dst, hdr, total)
<1>. DEFINE b == blank_buffer(total)
            s == new_session("Rx", src, dst, hdr, b)
<1>1. b \in Seq(Data) /\ Len(b) = total
  BY BlankBuffer
<1>. HIDE DEF b
<1>2. MaxPackets \in Number /\ 1 \in Number
  BY NumberRanges
<1>3. /\ s \in Session /\ s.dir = "Rx" /\ s.next = 1 /\ s.total = total /\ s.bam = FALSE
      /\ s.src = src /\ s.dst = dst /\ s.buf = b /\ s.hdr = hdr
  BY <1>1, <1>2 DEF new_session, Session
<1>. HIDE DEF s
<1>4. OpenedBy(s, src, dst, hdr, total)
  BY <1>1, <1>3 DEF OpenedBy
<1>. QED
  BY <1>4 DEF s, b

\* A session is opened for the sender of an announcement.
LEMMA HandledOpen ==
  ASSUME NEW n \in Node, NEW S, Own(n, S), NEW fr \in Frame,
         fr.type \in {"RTS", "BAM"}, fr.src = peer(n), fr.dst \in {n, NO_ADDR},
         NEW s \in Session, owned(n, <<fr.src, fr.dst>>, s), same(s, fr), s.next = 1,
         NEW out, Quiet(n, out),
         NEW e, e.sessions = put(S, <<fr.src, fr.dst>>, s), e.out = out, e.up = <<>>
  PROVE  Handled(n, S, fr, e)
<1>. DEFINE k == <<fr.src, fr.dst>>
            U == put(S, k, s)
<1>1. k \in Key /\ peer(n) # n /\ n # NO_ADDR
  BY NodeFacts, ZenonT(40) DEF Key, Frame
<1>2. Own(n, U) /\ U[k] = s /\ \A l \in Key : l # k => U[l] = S[l]
  BY <1>1, OwnPut
<1>3. s # NoSession
  BY NoneIsNoSession
<1>. HIDE DEF U
<1>4. ASSUME NEW l \in Link, l[1] = n
      PROVE  Continues(S[l], U[l], out, l[2])
  <2>1. l # k /\ l \in Key
    BY <1>1, <1>4, LinkFacts, SMTT(30)
  <2>2. U[l] = S[l] /\ same(U[l], S[l])
    BY <1>2, <2>1, SMTT(30) DEF same
  <2>. QED
    BY <2>2, QuietFacts, Zenon
<1>5. ASSUME NEW l \in Link, l[1] = peer(n)
      PROVE  Takes(S[l], U[l], fr, <<>>, l[2])
  <2>1. l \in Key /\ l = <<l[1], l[2]>>
    BY LinkFacts
  <2>2. CASE l[2] = fr.dst
    <3>1. announces(fr, l[2]) /\ U[l] = s
      BY <1>2, <1>5, <2>1, <2>2, SMTT(30) DEF announces
    <3>. QED
      BY <1>3, <3>1, Zenon DEF Takes
  <2>3. CASE l[2] # fr.dst
    <3>1. ~announces(fr, l[2]) /\ U[l] = S[l]
      BY <1>2, <2>1, <2>3, SMTT(30) DEF announces
    <3>. QED
      BY <3>1, StillSame, Zenon DEF Takes
  <2>. QED
    BY <2>2, <2>3
<1>6. Outgoing(n, out)
  BY QuietFacts
<1>. QED
  BY <1>2, <1>4, <1>5, <1>6, Zenon DEF Handled, U

\* RTS and BAM.
LEMMA HandledAnnouncement ==
  ASSUME NEW n \in Node, NEW S, Own(n, S), NEW fr \in Frame, proper(peer(n), fr),
         fr.type \in {"RTS", "BAM"}, NEW e, e = on_can_frame(S, n, fr, {})
  PROVE  Handled(n, S, fr, e)
<1>. DEFINE p == peer(n)
            r == new_session("Rx", p, fr.dst, fr.hdr, blank_buffer(fr.total))
            k == <<fr.src, fr.dst>>
<1>1. /\ p \in Address /\ n \in Address /\ peer(p) = n /\ p # n /\ n # NO_ADDR
      /\ fr.src = p /\ fr.dst \in {n, NO_ADDR} /\ fr.dst \in Address
      /\ fr.type = "RTS" => fr.dst = n
      /\ fr.type = "BAM" => fr.dst = NO_ADDR
  BY NodeFacts, ZenonT(40) DEF proper, Frame
<1>2. fr.hdr \in Nat /\ fr.total \in Number /\ fr.count \in Number
  BY DEF Frame
<1>3. /\ r \in Session /\ Len(r.buf) = r.total /\ r.dir = "Rx" /\ r.bam = FALSE
      /\ r.src = p /\ r.dst = fr.dst /\ r.hdr = fr.hdr /\ r.total = fr.total /\ r.next = 1
  <2>1. p \in Address /\ fr.dst \in Address
    BY <1>1
  <2>2. OpenedBy(r, p, fr.dst, fr.hdr, fr.total)
    BY <1>2, <2>1, OpenedSession, Zenon
  <2>. HIDE DEF r
  <2>. QED
    BY <2>2 DEF OpenedBy
<1>4. k \in {<<peer(n), n>>, <<peer(n), NO_ADDR>>} /\ k[1] = p /\ k[2] = fr.dst
  BY <1>1
<1>5. CASE fr.type = "RTS"
  <2>. DEFINE s == [r EXCEPT !.window = fr.count]
  <2>1. e = only_sends(put(S, k, s), response_cts(s, {}))
    BY <1>1, <1>5 DEF on_can_frame, start_rx_rts, make_key
  <2>. HIDE DEF r, k
  <2>2. /\ s \in Session /\ Len(s.buf) = s.total /\ s.dir = "Rx" /\ s.bam = FALSE
        /\ s.src = p /\ s.dst = fr.dst /\ s.hdr = fr.hdr /\ s.total = fr.total /\ s.next = 1
    BY <1>2, <1>3, Zenon DEF Session
  <2>. HIDE DEF s
  <2>3. owned(n, k, s)
    BY <1>1, <1>4, <1>5, <2>2, ZenonT(40) DEF owned
  <2>4. Quiet(n, response_cts(s, {}))
    <3>1. cts_frame(s) \in Frame
      BY <2>2, SessionFrames, SMTT(30)
    <3>2. cts_frame(s).type = "CTS" /\ cts_frame(s).src = n
      BY <1>1, <1>5, <2>2, SMTT(30) DEF cts_frame, cm_frame
    <3>. QED
      BY <3>1, <3>2, QuietSend DEF response_cts
  <2>5. e.sessions = put(S, k, s) /\ e.out = response_cts(s, {}) /\ e.up = <<>>
    BY <2>1, SMTT(30) DEF only_sends, effect
  <2>6. same(s, fr)
    BY <2>2, SMTT(30) DEF same
  <2>. QED
    BY <1>1, <2>2, <2>3, <2>4, <2>5, <2>6, HandledOpen, Zenon DEF k
<1>6. CASE fr.type = "BAM"
  <2>. DEFINE s == [r EXCEPT !.bam = TRUE]
  <2>1. e = nothing(put(S, k, s))
    BY <1>1, <1>6, ZenonT(40) DEF on_can_frame, start_rx_bam, make_key
  <2>. HIDE DEF r, k
  <2>2. /\ s \in Session /\ Len(s.buf) = s.total /\ s.dir = "Rx" /\ s.bam = TRUE
        /\ s.src = p /\ s.dst = fr.dst /\ s.hdr = fr.hdr /\ s.total = fr.total /\ s.next = 1
    BY <1>2, <1>3, Zenon DEF Session
  <2>. HIDE DEF s
  <2>3. owned(n, k, s)
    BY <1>1, <1>4, <1>6, <2>2, ZenonT(40) DEF owned
  <2>4. e.sessions = put(S, k, s) /\ e.out = <<>> /\ e.up = <<>>
    BY <2>1, SMTT(30) DEF nothing, effect
  <2>5. same(s, fr)
    BY <2>2, SMTT(30) DEF same
  <2>. QED
    BY <1>1, <2>2, <2>3, <2>4, <2>5, QuietNothing, HandledOpen, ZenonT(40) DEF k
<1>. QED
  BY <1>5, <1>6, SMTT(30)

\* EOM and ABORT set the state of the session they find, if any.
LEMMA HandledEnd ==
  ASSUME NEW n \in Node, NEW S, Own(n, S), NEW fr \in Frame,
         fr.type \in {"EOM", "ABORT"}, NEW e, e = on_can_frame(S, n, fr, {})
  PROVE  Handled(n, S, fr, e)
<1>1. fr.src \in Address /\ fr.dst \in Address /\ n \in Address
  BY NodeFacts, ZenonT(40) DEF Frame
<1>2. ASSUME NEW k \in Key, NEW x \in States, S[k] # NoSession
      PROVE  LET U == put(S, k, [S[k] EXCEPT !.state = x])
             IN  Own(n, U) /\ \A l \in Key : Still(S[l], U[l])
  <2>. DEFINE t == [S[k] EXCEPT !.state = x]
              U == put(S, k, t)
  <2>1. t \in Session /\ Still(S[k], t) /\ owned(n, k, t)
    BY <1>2, OwnFacts, OwnChange, SMTT(30)
  <2>. HIDE DEF t
  <2>2. Own(n, U) /\ U[k] = t /\ \A l \in Key : l # k => U[l] = S[l]
    BY <2>1, OwnPut, SMTT(30)
  <2>. HIDE DEF U
  <2>3. \A l \in Key : Still(S[l], U[l])
    BY <2>1, <2>2, StillSame, Zenon
  <2>. QED
    BY <2>2, <2>3 DEF U, t
<1>3. Quiet(n, <<>>) /\ Quiet(n, bus_send(dummy_abort(n, fr, "Rx"), 1, {}))
  <2>1. dummy_abort(n, fr, "Rx") \in Frame /\ dummy_abort(n, fr, "Rx").type = "ABORT"
    BY DummyAbort, SMTT(30)
  <2>. QED
    BY <2>1, QuietNothing, QuietSend, SMTT(30)
<1>4. \E U, out : /\ e.sessions = U /\ e.out = out /\ e.up = <<>>
                  /\ Own(n, U) /\ (\A k \in Key : Still(S[k], U[k])) /\ Quiet(n, out)
  <2>1. CASE fr.type = "EOM"
    <3>. DEFINE k == make_key(fr.src, fr.dst)
                U == put(S, k, [S[k] EXCEPT !.state = "Completed"])
    <3>1. k \in Key
      BY <1>1, KeyFacts, SMTT(30)
    <3>2. e = IF S[k] = NoSession
              THEN only_sends(S, bus_send(dummy_abort(n, fr, "Rx"), 1, {}))
              ELSE nothing(U)
      BY <2>1 DEF on_can_frame, complete_rx
    <3>. HIDE DEF k
    <3>3. S[k] # NoSession => Own(n, U) /\ \A l \in Key : Still(S[l], U[l])
      BY <1>2, <3>1, ZenonT(40) DEF States
    <3>. HIDE DEF U
    <3>4. \/ /\ e.sessions = S /\ e.up = <<>>
             /\ e.out = bus_send(dummy_abort(n, fr, "Rx"), 1, {})
          \/ S[k] # NoSession /\ e.sessions = U /\ e.out = <<>> /\ e.up = <<>>
      BY <3>2 DEF only_sends, nothing, effect
    <3>. QED
      BY <1>3, <3>3, <3>4, StillSame, Zenon
  <2>2. CASE fr.type = "ABORT"
    <3>. DEFINE k == make_key(n, fr.src)
                U == put(S, k, [S[k] EXCEPT !.state = "ABorted"])
    <3>1. k \in Key
      BY <1>1, KeyFacts
    <3>2. e = nothing(IF S[k] = NoSession THEN S ELSE U)
      BY <2>2 DEF on_can_frame, handle_abort
    <3>. HIDE DEF k
    <3>3. S[k] # NoSession => Own(n, U) /\ \A l \in Key : Still(S[l], U[l])
      BY <1>2, <3>1, ZenonT(40) DEF States
    <3>. HIDE DEF U
    <3>4. /\ e.out = <<>> /\ e.up = <<>>
          /\ e.sessions = S \/ (S[k] # NoSession /\ e.sessions = U)
      BY <3>2 DEF nothing, effect
    <3>. QED
      BY <1>3, <3>3, <3>4, StillSame, Zenon
  <2>. QED
    BY <2>1, <2>2
<1>5. fr.type \notin {"RTS", "BAM"}
  OBVIOUS
<1>. QED
  BY <1>4, <1>5, HandledQuiet, Zenon

\* Frame f may follow the announcement of the message of s to d.
follows(f, d, s) ==
  f.type \notin {"RTS", "BAM"} /\ (f.type = "DT" => f.dst = d /\ matches(f, s))

\* Such frames continue the links of their node.
LEMMA FollowsFacts ==
  ASSUME NEW f, NEW d, NEW s, follows(f, d, s), NEW c
  PROVE  ~announces(f, c) /\ (carries(f, c) => c = d /\ matches(f, s))
BY DEF follows, announces, carries

\* The frames of a burst are packets of the session's message.
LEMMA BurstSent ==
  ASSUME NEW n \in Node, NEW d \in {peer(n), NO_ADDR}, NEW t \in Session,
         owned(n, <<n, d>>, t), NEW out \in Seq(BurstFrames(t))
  PROVE  Outgoing(n, out) /\ \A i \in 1 .. Len(out) : follows(out[i], d, t)
<1>1. /\ t.src = n /\ t.dst = d /\ Len(t.buf) = t.total
      /\ t.total \in Nat /\ t.hdr \in Nat
  BY DEF owned, Session, Number
<1>2. message(t) = numbered(t.hdr, t.total)
  BY NodeFacts, ZenonT(40) DEF owned
<1>3. \A i \in 1 .. t.total : t.buf[i] = t.hdr * SeqSize + i
  BY <1>1, <1>2 DEF message, numbered
<1>4. ASSUME NEW f \in BurstFrames(t)
      PROVE  f \in Frame /\ proper(n, f) /\ follows(f, d, t)
  <2>1. CASE f \in {abort_frame(t), eom_frame(t)}
    <3>1. f \in Frame /\ f.type \in {"ABORT", "EOM"}
      BY <1>1, <2>1, SessionFrames, FrameTypes
    <3>. QED
      BY <3>1 DEF proper, follows
  <2>2. ASSUME NEW i \in 0 .. t.total, f = dt_frame(t, i)
        PROVE  f \in Frame /\ proper(n, f) /\ follows(f, d, t)
    <3>1. f \in Frame
      BY <1>1, <2>2, SessionFrames, SMTT(30)
    <3>2. f.type = "DT" /\ f.src = n /\ f.dst = d /\ f.seq = i /\ f.data = content(t, i)
      BY <1>1, <2>2 DEF dt_frame
    <3>3. matches(f, t)
      BY <1>1, <1>3, <3>2, SMTT(30) DEF matches, content
    <3>. QED
      BY <3>1, <3>2, <3>3 DEF proper, follows
  <2>. QED
    BY <2>1, <2>2 DEF BurstFrames
<1>5. \A i \in 1 .. Len(out) : out[i] \in BurstFrames(t)
  OBVIOUS
<1>6. out \in Seq(Frame)
  BY <1>4
<1>. QED
  BY <1>4, <1>5, <1>6, Zenon DEF Outgoing

\* CTS: the sender goes on with the packets that are asked for.
LEMMA HandledCts ==
  ASSUME NEW n \in Node, NEW S, Own(n, S), NEW fr \in Frame, proper(peer(n), fr),
         fr.type = "CTS", NEW e, e = on_can_frame(S, n, fr, {})
  PROVE  Handled(n, S, fr, e)
<1>. DEFINE k == <<n, peer(n)>>
            t == [S[k] EXCEPT !.window = fr.count, !.next = fr.seq]
            b == send_data_packets(t, {})
<1>1. fr.src = peer(n) /\ k \in Key /\ k[1] = n /\ k[2] = peer(n) /\ peer(n) # NO_ADDR
  BY NodeFacts, ZenonT(40) DEF proper
<1>2. e = IF S[k] = NoSession THEN only_sends(S, bus_send(dummy_abort(n, fr, "Tx"), 1, {}))
          ELSE only_sends(put(S, k, b.session), b.out)
  BY <1>1 DEF on_can_frame, handle_cts, make_key
<1>3. CASE S[k] = NoSession
  <2>1. dummy_abort(n, fr, "Tx") \in Frame /\ dummy_abort(n, fr, "Tx").type = "ABORT"
    BY DummyAbort
  <2>2. Quiet(n, bus_send(dummy_abort(n, fr, "Tx"), 1, {}))
    BY <2>1, QuietSend
  <2>3. /\ e.sessions = S /\ e.up = <<>>
        /\ e.out = bus_send(dummy_abort(n, fr, "Tx"), 1, {})
    BY <1>2, <1>3 DEF only_sends, effect
  <2>4. fr.type \notin {"RTS", "BAM"}
    OBVIOUS
  <2>. QED
    BY <2>2, <2>3, <2>4, StillSame, HandledQuiet, Zenon
<1>4. CASE S[k] # NoSession
  <2>. DEFINE s == S[k]
  <2>1. s \in Session /\ owned(n, k, s)
    BY <1>1, <1>4, OwnFacts, SMTT(30)
  <2>2. fr.count \in Number /\ fr.seq \in Number
    BY DEF Frame
  <2>. HIDE DEF s
  <2>3. /\ t \in Session
        /\ t.dir = s.dir /\ t.src = s.src /\ t.dst = s.dst /\ t.bam = s.bam
        /\ t.buf = s.buf /\ t.total = s.total /\ t.hdr = s.hdr
    BY <2>1, <2>2, Zenon DEF Session, s
  <2>. HIDE DEF t
  <2>4. owned(n, k, t) /\ same(t, s)
    <3>1. message(t) = message(s)
      BY <2>3, Zenon DEF message
    <3>. QED
      BY <2>1, <2>3, <3>1, Zenon DEF owned, same
  <2>5. /\ b.out \in Seq(BurstFrames(t))
        /\ \E x \in Number, y \in States : b.session = [t EXCEPT !.next = x, !.state = y]
    BY <2>3, BurstFacts, NoFailure, ZenonT(60)
  <2>. DEFINE out == b.out
              u == b.session
              U == put(S, k, u)
  <2>6. u \in Session /\ owned(n, k, u) /\ same(u, s)
    <3>. HIDE DEF b
    <3>1. PICK x \in Number, y \in States : u = [t EXCEPT !.next = x, !.state = y]
      BY <2>5, ZenonT(40)
    <3>2. /\ u \in Session
          /\ u.dir = t.dir /\ u.src = t.src /\ u.dst = t.dst /\ u.bam = t.bam
          /\ u.buf = t.buf /\ u.total = t.total /\ u.hdr = t.hdr
      BY <2>3, <3>1, ZenonT(40) DEF Session, States
    <3>3. message(u) = message(t)
      BY <3>2 DEF message
    <3>. QED
      BY <2>4, <3>2, <3>3, Zenon DEF owned, same
  <2>7. e.sessions = U /\ e.out = out /\ e.up = <<>>
    BY <1>2, <1>4 DEF only_sends, effect
  <2>. HIDE DEF u, out
  <2>8. Outgoing(n, out) /\ \A i \in 1 .. Len(out) : follows(out[i], k[2], t)
    <3>1. out \in Seq(BurstFrames(t))
      BY <2>5 DEF out
    <3>2. k[2] \in {peer(n), NO_ADDR} /\ <<n, k[2]>> = k
      BY <1>1
    <3>. QED
      BY <2>3, <2>4, <3>1, <3>2, BurstSent, ZenonT(30)
  <2>9. Own(n, U) /\ U[k] = u /\ \A l \in Key : l # k => U[l] = S[l]
    BY <1>1, <2>6, OwnPut
  <2>. HIDE DEF U, b
  <2>10. s # NoSession /\ u # NoSession
    BY <2>1, <2>6, NoneIsNoSession, SMTT(30)
  <2>11. ASSUME NEW l \in Link, l[1] = n
         PROVE  Continues(S[l], U[l], out, l[2])
    <3>1. l \in Key /\ l = <<l[1], l[2]>>
      BY LinkFacts
    <3>2. CASE l[2] = k[2]
      <4>1. S[l] = s /\ U[l] = u
        BY <1>1, <2>9, <2>11, <3>1, <3>2, SMTT(30) DEF s
      <4>2. \A i \in 1 .. Len(out) :
              ~announces(out[i], l[2]) /\ (carries(out[i], l[2]) => matches(out[i], s))
        BY <2>4, <2>8, FollowsFacts, SMTT(30) DEF matches, same
      <4>. QED
        BY <2>6, <2>10, <4>1, <4>2, Zenon DEF Continues
    <3>3. CASE l[2] # k[2]
      <4>1. U[l] = S[l] /\ same(U[l], S[l])
        BY <2>9, <3>1, <3>3, SMTT(30) DEF same
      <4>2. \A i \in 1 .. Len(out) : ~announces(out[i], l[2]) /\ ~carries(out[i], l[2])
        BY <2>8, <3>3, FollowsFacts, SMTT(30)
      <4>. QED
        BY <4>1, <4>2, Zenon DEF Continues
    <3>. QED
      BY <3>2, <3>3, SMTT(30)
  <2>12. ASSUME NEW l \in Link, l[1] = peer(n)
         PROVE  Takes(S[l], U[l], fr, <<>>, l[2])
    <3>1. l \in Key /\ l # k
      BY <1>1, <2>12, LinkFacts, NodeFacts, ZenonT(40)
    <3>2. U[l] = S[l] /\ ~announces(fr, l[2])
      BY <2>9, <3>1 DEF announces
    <3>. QED
      BY <3>2, StillSame, Zenon DEF Takes
  <2>. QED
    BY <2>7, <2>8, <2>9, <2>11, <2>12, Zenon DEF Handled
<1>. QED
  BY <1>3, <1>4

\* A packet that is in sequence is stored.
LEMMA HandledPacket ==
  ASSUME NEW n \in Node, NEW S, Own(n, S), NEW fr \in Frame,
         fr.type = "DT", fr.src = peer(n), fr.dst \in {n, NO_ADDR},
         NEW k, k = <<fr.src, fr.dst>>, S[k] # NoSession, dt_in_sequence(S[k], fr),
         NEW s, s = store(S[k], fr), NEW u \in Session, owned(n, k, u), Still(s, u),
         NEW out, Quiet(n, out), NEW e, e.sessions = put(S, k, u), e.out = out,
         e.up = IF fr.seq = s.total THEN <<message(s)>> ELSE <<>>
  PROVE  Handled(n, S, fr, e)
<1>. DEFINE U == put(S, k, u)
<1>1. /\ k \in Key /\ k \in Link /\ k[1] = peer(n) /\ k[2] = fr.dst
      /\ peer(n) # n /\ n # NO_ADDR
  <2>1. /\ peer(n) \in Node /\ peer(peer(n)) = n /\ peer(n) # n /\ n # NO_ADDR
        /\ fr.src \in Address /\ fr.dst \in Address
    BY NodeFacts, ZenonT(40) DEF Frame
  <2>2. <<peer(n), n>> \in Link /\ <<peer(n), NO_ADDR>> \in Link
    BY <2>1, NodeFacts, ZenonT(40)
  <2>. QED
    BY <2>1, <2>2 DEF Key
<1>2. Own(n, U) /\ U[k] = u /\ \A l \in Key : l # k => U[l] = S[l]
  BY <1>1, OwnPut, SMTT(30)
<1>3. u # NoSession
  BY NoneIsNoSession
<1>. HIDE DEF U
<1>4. ASSUME NEW l \in Link, l[1] = n
      PROVE  Continues(S[l], U[l], out, l[2])
  <2>1. l # k /\ l \in Key
    BY <1>1, <1>4, LinkFacts
  <2>2. U[l] = S[l] /\ same(U[l], S[l])
    BY <1>2, <2>1, SMTT(30) DEF same
  <2>. QED
    BY <2>2, QuietFacts, Zenon
<1>5. ASSUME NEW l \in Link, l[1] = peer(n), l # k
      PROVE  Takes(S[l], U[l], fr, <<>>, l[2])
  <2>1. U[l] = S[l] /\ ~announces(fr, l[2])
    BY <1>2, <1>5, LinkFacts, SMTT(30) DEF announces
  <2>. QED
    BY <2>1, StillSame, Zenon DEF Takes
<1>6. Takes(S[k], U[k], fr, e.up, k[2])
  <2>1. carries(fr, k[2])
    BY <1>1, SMTT(30) DEF carries
  <2>. QED
    BY <1>2, <1>3, <2>1, Zenon DEF Takes
<1>7. Outgoing(n, out)
  BY QuietFacts
<1>. QED
  BY <1>2, <1>4, <1>5, <1>6, <1>7, Zenon DEF Handled, U

\* What accept_dt yields: the session it leaves, what it sends and hands up.
LEMMA AcceptCases ==
  ASSUME NEW S, NEW k, NEW fr, NEW s, s = store(S[k], fr),
         NEW c, c = [s EXCEPT !.state = "Completed"],
         NEW e, e = accept_dt(S, k, fr, {})
  PROVE  /\ e.up = IF fr.seq = s.total THEN <<message(s)>> ELSE <<>>
         /\ \/ e.sessions = put(S, k, c) /\ e.out = <<>>
            \/ e.sessions = put(S, k, s) /\ e.out = bus_send(eom_frame(s), 1, {})
            \/ /\ e.sessions = put(S, k, s)
               /\ cts_due(s, fr.seq) /\ e.out = response_cts(s, {})
            \/ e.sessions = put(S, k, s) /\ e.out = <<>>
BY DEF accept_dt, only_sends, effect

\* What a CTS says.
LEMMA CtsFields ==
  ASSUME NEW s
  PROVE  cts_frame(s).type = "CTS" /\ cts_frame(s).src = s.dst
BY DEF cts_frame, cm_frame

\* The answers to a packet that is stored in session s.
LEMMA QuietAnswer ==
  ASSUME NEW n, NEW s \in Session, Len(s.buf) = s.total, s.bam \/ s.dst = n, NEW seq
  PROVE  /\ Quiet(n, <<>>) /\ Quiet(n, bus_send(eom_frame(s), 1, {}))
         /\ cts_due(s, seq) => Quiet(n, response_cts(s, {}))
<1>1. eom_frame(s) \in Frame /\ eom_frame(s).type = "EOM" /\ cts_frame(s) \in Frame
  BY SessionFrames, FrameTypes
<1>2. Quiet(n, <<>>) /\ Quiet(n, bus_send(eom_frame(s), 1, {}))
  BY <1>1, QuietNothing, QuietSend
<1>3. cts_due(s, seq) => Quiet(n, response_cts(s, {}))
  <2>1. cts_due(s, seq) => s.dst = n
    BY Zenon DEF cts_due
  <2>. QED
    BY <1>1, <2>1, CtsFields, QuietSend DEF response_cts
<1>. QED
  BY <1>2, <1>3

\* A packet that is in sequence.
LEMMA HandledAccepted ==
  ASSUME NEW n \in Node, NEW S, Own(n, S), NEW fr \in Frame,
         fr.type = "DT", fr.src = peer(n), fr.dst \in {n, NO_ADDR},
         NEW k \in Key, k = <<fr.src, fr.dst>>, S[k] # NoSession,
         dt_in_sequence(S[k], fr), NEW e, e = accept_dt(S, k, fr, {})
  PROVE  Handled(n, S, fr, e)
<1>. DEFINE R == S[k]
            s == store(R, fr)
            c == [s EXCEPT !.state = "Completed"]
<1>1. R \in Session /\ owned(n, k, R) /\ Len(R.buf) = R.total
  BY OwnFacts
<1>2. s = store(R, fr) /\ dt_in_sequence(R, fr) /\ s = store(S[k], fr)
  OBVIOUS
<1>3. c = [s EXCEPT !.state = "Completed"]
  OBVIOUS
<1>. HIDE DEF R, s
<1>4. /\ s \in Session /\ Len(s.buf) = s.total /\ s.dir = R.dir
      /\ s.src = R.src /\ s.dst = R.dst /\ s.bam = R.bam
      /\ s.hdr = R.hdr /\ s.total = R.total
  BY <1>1, <1>2, StoredFields, ZenonT(60)
<1>5. R.dir = "Rx" /\ s.dst = fr.dst /\ s.bam = (fr.dst = NO_ADDR)
  <2>1. k[1] # n /\ k[2] = fr.dst
    BY NodeFacts, Zenon
  <2>. QED
    BY <1>1, <1>4, <2>1, Zenon DEF owned
<1>6. owned(n, k, s) /\ (s.bam \/ s.dst = n)
  BY <1>1, <1>4, <1>5, Zenon DEF owned
<1>7. c \in Session /\ Still(s, c) /\ owned(n, k, c)
  <2>1. "Completed" \in States
    BY DEF States
  <2>. QED
    BY <1>4, <1>6, <2>1, OwnChange, Zenon
<1>8. /\ Quiet(n, <<>>) /\ Quiet(n, bus_send(eom_frame(s), 1, {}))
      /\ cts_due(s, fr.seq) => Quiet(n, response_cts(s, {}))
  BY <1>4, <1>6, QuietAnswer, Zenon
<1>. HIDE DEF c
<1>9. /\ e.up = IF fr.seq = s.total THEN <<message(s)>> ELSE <<>>
      /\ \/ e.sessions = put(S, k, c) /\ e.out = <<>>
         \/ e.sessions = put(S, k, s) /\ e.out = bus_send(eom_frame(s), 1, {})
         \/ /\ e.sessions = put(S, k, s)
            /\ cts_due(s, fr.seq) /\ e.out = response_cts(s, {})
         \/ e.sessions = put(S, k, s) /\ e.out = <<>>
  BY <1>2, <1>3, AcceptCases, SMTT(30)
<1>10. \E u : u \in Session /\ owned(n, k, u) /\ Still(s, u) /\ e.sessions = put(S, k, u)
  BY <1>4, <1>6, <1>7, <1>9, StillSame, Zenon
<1>11. Quiet(n, e.out)
  BY <1>8, <1>9, Zenon
<1>. QED
  BY <1>2, <1>9, <1>10, <1>11, HandledPacket, Zenon

\* DT
LEMMA HandledDt ==
  ASSUME NEW n \in Node, NEW S, Own(n, S), NEW fr \in Frame, proper(peer(n), fr),
         fr.type = "DT", NEW e, e = on_can_frame(S, n, fr, {})
  PROVE  Handled(n, S, fr, e)
<1>. DEFINE k == <<fr.src, fr.dst>>
            R == S[k]
            d == bus_send(dummy_abort(n, fr, "Rx"), 1, {})
            a == [R EXCEPT !.state = "ABorted"]
<1>1. /\ fr.src = peer(n) /\ fr.dst \in {n, NO_ADDR} /\ k \in Key
      /\ peer(n) # n /\ n # NO_ADDR /\ fr.type \notin {"RTS", "BAM"}
  BY NodeFacts, ZenonT(40) DEF proper, Frame, Key
<1>2. e = IF S[k] = NoSession THEN only_sends(S, d)
          ELSE IF dt_in_sequence(S[k], fr) THEN accept_dt(S, k, fr, {})
          ELSE only_sends(put(S, k, a), bus_send(abort_frame(S[k]), 1, {}))
  BY DEF on_can_frame, handle_dt, make_key
<1>3. CASE S[k] = NoSession
  <2>1. dummy_abort(n, fr, "Rx") \in Frame /\ dummy_abort(n, fr, "Rx").type = "ABORT"
    BY DummyAbort
  <2>2. Quiet(n, d)
    BY <2>1, QuietSend
  <2>3. e.sessions = S /\ e.up = <<>> /\ e.out = d
    BY <1>2, <1>3 DEF only_sends, effect
  <2>. QED
    BY <1>1, <2>2, <2>3, StillSame, HandledQuiet, Zenon
<1>4. CASE S[k] # NoSession /\ ~dt_in_sequence(S[k], fr)
  <2>. DEFINE U == put(S, k, a)
              f == abort_frame(S[k])
  <2>1. S[k] \in Session /\ owned(n, k, S[k]) /\ Len(S[k].buf) = S[k].total
    BY <1>1, <1>4, OwnFacts
  <2>2. f \in Frame /\ f.type = "ABORT"
    BY <2>1, SessionFrames, FrameTypes, Zenon
  <2>3. Quiet(n, bus_send(f, 1, {}))
    BY <2>2, QuietSend
  <2>4. e.sessions = U /\ e.out = bus_send(f, 1, {}) /\ e.up = <<>>
    BY <1>2, <1>4 DEF only_sends, effect
  <2>5. a \in Session /\ Still(S[k], a) /\ owned(n, k, a)
    <3>1. "ABorted" \in States
      BY DEF States
    <3>2. R \in Session /\ owned(n, k, R)
      BY <2>1
    <3>. HIDE DEF R, k
    <3>3. a \in Session /\ Still(R, a) /\ owned(n, k, a)
      BY <3>1, <3>2, OwnChange, SMTT(30)
    <3>. QED
      BY <3>3 DEF R
  <2>. HIDE DEF f, a, k
  <2>6. Own(n, U) /\ U[k] = a /\ \A l \in Key : l # k => U[l] = S[l]
    BY <1>1, <2>5, OwnPut
  <2>. HIDE DEF U
  <2>7. \A l \in Key : Still(S[l], U[l])
    BY <2>5, <2>6, StillSame, Zenon
  <2>. QED
    BY <1>1, <2>3, <2>4, <2>6, <2>7, HandledQuiet, Zenon
<1>5. CASE S[k] # NoSession /\ dt_in_sequence(S[k], fr)
  <2>1. e = accept_dt(S, k, fr, {})
    BY <1>2, <1>5, Zenon
  <2>2. k = <<fr.src, fr.dst>>
    OBVIOUS
  <2>. HIDE DEF k
  <2>. QED
    BY <1>1, <1>5, <2>1, <2>2, HandledAccepted, Zenon
<1>. QED
  BY <1>3, <1>4, <1>5, Zenon

\* Every frame.
LEMMA HandledAll ==
  ASSUME NEW n \in Node, NEW S, Own(n, S), NEW fr \in Frame, proper(peer(n), fr)
  PROVE  Handled(n, S, fr, on_can_frame(S, n, fr, {}))
<1>1. fr.type \in {"RTS", "CTS", "BAM", "EOM", "ABORT", "DT"}
  BY DEF Frame
<1>. DEFINE e == on_can_frame(S, n, fr, {})
<1>2. e = on_can_frame(S, n, fr, {})
  OBVIOUS
<1>. HIDE DEF e
<1>3. Handled(n, S, fr, e)
  BY <1>1, <1>2, HandledAnnouncement, HandledEnd, HandledCts, HandledDt, Zenon
<1>. QED
  BY <1>3 DEF e

------------------------------------------------------------------------------
(* tick *)

\* A tick removes the idle sessions and says so to their other ends.
LEMMA Ticked ==
  ASSUME NEW n \in Node, NEW S, Own(n, S), NEW idle \in SUBSET active(S),
         NEW ks \in orders(idle), NEW e, e = tick(S, idle, ks)
  PROVE  /\ Own(n, e.sessions) /\ Quiet(n, e.out)
         /\ \A k \in Key : Still(S[k], e.sessions[k])
<1>. DEFINE c == Cardinality(idle)
            U == [k \in Key |-> IF k \in idle THEN NoSession ELSE S[k]]
            out == [i \in DOMAIN ks |-> abort_frame(S[ks[i]])]
<1>1. idle \in SUBSET Key /\ \A k \in idle : S[k] # NoSession
  BY DEF active
<1>2. c \in Nat /\ ks \in [1 .. c -> idle]
  BY DEF orders
<1>3. e.sessions = U /\ e.out = out
  <2>1. e = only_sends(U, out)
    BY DEF tick
  <2>. HIDE DEF U, out
  <2>. QED
    BY <2>1 DEF only_sends, effect
<1>. HIDE DEF c
<1>4. ASSUME NEW i \in 1 .. c
      PROVE  out[i] \in Frame /\ out[i].type = "ABORT"
  <2>. DEFINE k == ks[i]
  <2>1. k \in Key /\ S[k] # NoSession /\ out[i] = abort_frame(S[k])
    BY <1>1, <1>2
  <2>. HIDE DEF k, out
  <2>2. S[k] \in Session /\ Len(S[k].buf) = S[k].total
    BY <2>1, OwnFacts
  <2>3. abort_frame(S[k]) \in Frame /\ abort_frame(S[k]).type = "ABORT"
    BY <2>2, SessionFrames, FrameTypes
  <2>. QED
    BY <2>1, <2>3
<1>5. Quiet(n, out)
  <2>1. DOMAIN out = 1 .. c /\ out = [i \in 1 .. c |-> out[i]]
    BY <1>2
  <2>. HIDE DEF out
  <2>2. out \in [1 .. c -> Frame]
    BY <1>4, <2>1
  <2>3. out \in Seq(Frame) /\ Len(out) = c
    BY <1>2, <2>2, FunctionIsSeq
  <2>. QED
    BY <1>4, <2>3 DEF Quiet
<1>6. U \in SessionMap /\ \A k \in Key : U[k] \in {NoSession, S[k]}
  BY DEF Own, SessionMap
<1>. HIDE DEF U, out
<1>7. Own(n, U) /\ \A k \in Key : Still(S[k], U[k])
  BY <1>6 DEF Own, Still, same
<1>. QED
  BY <1>3, <1>5, <1>7
==============================================================================
