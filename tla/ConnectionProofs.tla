--------------------------- MODULE ConnectionProofs ---------------------------
(***************************************************************************)
(* That a connection takes a message from one node only and sends under    *)
(* the address of its name, proved for any number of names, addresses,     *)
(* packets and sessions.  The first rests on what NetworkTableProofs shows *)
(* of the network: no address has two holders.                             *)
(***************************************************************************)
EXTENDS Connection, NetworkTableProofs, TransportProtocolProofs

------------------------------------------------------------------------------
(* Who is listened to *)

\* The inductive invariant: the maps of the network agree, and the sources of a
\* session are what OneSender allows.
OneSource ==
  /\ net \in Table /\ HoldersMatch(net) /\ NamesKnown(net)
  /\ target_name \in Name \cup {NoName}
  /\ holders \in [Key -> SUBSET (Name \cup {NoName})]
  /\ OneSender

\* What a frame that check_address lets pass comes from: the holder of the source
\* address is the target and no other name.
LEMMA HolderIsTarget ==
  ASSUME NEW fr, fr.src \in Unicast, OneSource, target_name # NoName, check_address(fr)
  PROVE  holder(fr.src) = {target_name}
<1>1. target_name \in Name /\ get_address(net, target_name) = fr.src
  BY DEF OneSource, check_address, from_target
<1>2. ASSUME NEW n \in Name, get_address(net, n) = fr.src
      PROVE  n = target_name
  BY <1>1, <1>2 DEF OneSource, HoldersMatch, get_address
<1>3. {n \in Name : get_address(net, n) = fr.src} = {target_name}
  BY <1>1, <1>2
<1>. QED
  BY <1>3 DEF holder

\* An accepted frame adds nothing but the target to the sources of a session.
LEMMA SourcesStay ==
  ASSUME NEW fr, fr.src \in Unicast, fr.dst \in Address, OneSource, check_address(fr)
  PROVE  /\ sources(fr) \in [Key -> SUBSET (Name \cup {NoName})]
         /\ target_name # NoName => \A k \in Key : sources(fr)[k] \subseteq {target_name}
<1>1. make_key(fr.src, fr.dst) \in Key
  BY UnicastIsAddress DEF make_key, Key
<1>2. CASE target_name = NoName
  BY <1>2 DEF sources, OneSource
<1>3. CASE target_name # NoName
  <2>1. holder(fr.src) = {target_name}
    BY <1>3, HolderIsTarget
  <2>2. /\ holders \in [Key -> SUBSET (Name \cup {NoName})]
        /\ target_name \in Name
        /\ \A k \in Key : holders[k] \subseteq {target_name}
    BY <1>3 DEF OneSource, OneSender
  <2>. QED
    BY <1>1, <1>3, <2>1, <2>2, SMTT(20) DEF sources
<1>. QED
  BY <1>2, <1>3

\* Addresses of what the bus brings.
LEMMA IncomingAddresses ==
  ASSUME NEW fr \in Incoming
  PROVE  fr.src \in Unicast /\ fr.dst \in Address
BY UnicastIsAddress, NoAddrIsAddress DEF Incoming, incoming

\* OneSource holds of a new connection.
LEMMA OneSourceInit == Init => OneSource
BY EmptyTableType, EmptyConsistent, ConnectionAssumption, SMTT(20)
   DEF Init, OneSource, OneSender

\* Every operation of a connection, and every change of the network, keeps
\* OneSource.
LEMMA OneSourceStep == OneSource /\ [Next]_vars => OneSource'
<1>. SUFFICES ASSUME OneSource, [Next]_vars PROVE OneSource'
  OBVIOUS
<1>0. ASSUME UNCHANGED <<net, target_name, holders>>
      PROVE  OneSource'
  BY <1>0 DEF OneSource, OneSender, HoldersMatch, NamesKnown, occupied, in_network
<1>1. CASE start
  BY <1>0, <1>1 DEF start
<1>2. ASSUME NEW n \in Local, set_local_name(n)
      PROVE  OneSource'
  BY <1>0, <1>2 DEF set_local_name
<1>3. ASSUME NEW n \in Target, set_target_name(n)
      PROVE  OneSource'
  BY <1>3, ConnectionAssumption
     DEF set_target_name, OneSource, OneSender, HoldersMatch, NamesKnown, occupied, in_network
<1>4. ASSUME NEW n \in Name, NEW a \in Unicast \cup {IDLE},
             network_changes(insert(net, n, a))
      PROVE  OneSource'
  <2>1. a \in Address
    BY UnicastIsAddress, IdleIsAddress
  <2>2. net' = insert(net, n, a) /\ UNCHANGED <<target_name, holders>>
    BY <1>4 DEF network_changes
  <2>3. net' \in Table /\ HoldersMatch(net') /\ NamesKnown(net')
    BY <2>1, <2>2, InsertType, InsertConsistent DEF OneSource
  <2>. QED
    BY <2>2, <2>3 DEF OneSource, OneSender, HoldersMatch, NamesKnown, occupied, in_network
<1>5. ASSUME NEW type, NEW fails, send_frame(type, NO_ADDR, fails)
      PROVE  OneSource'
  BY <1>0, <1>5 DEF send_frame, send_to, refuse, write
<1>6. ASSUME NEW type, NEW fails, NEW n \in Name, send_to(n, type, NO_ADDR, fails)
      PROVE  OneSource'
  BY <1>0, <1>6 DEF send_to, refuse, write
<1>7. ASSUME NEW ps, NEW n, send_data(ps, blank_buffer(n), {})
      PROVE  OneSource'
  <2>. HIDE DEF blank_buffer
  <2>. QED
    BY <1>0, <1>7 DEF send_data, refuse
<1>8. ASSUME NEW fr \in Incoming, read(fr, {})
      PROVE  OneSource'
  <2>1. UNCHANGED <<net, target_name>>
    BY <1>8 DEF read
  <2>2. CASE check_address(fr)
    <3>1. holders' = sources(fr)
      BY <1>8, <2>2 DEF read
    <3>2. /\ sources(fr) \in [Key -> SUBSET (Name \cup {NoName})]
          /\ target_name # NoName => \A k \in Key : sources(fr)[k] \subseteq {target_name}
      BY <2>2, SourcesStay, IncomingAddresses
    <3>. QED
      BY <2>1, <3>1, <3>2
         DEF OneSource, OneSender, HoldersMatch, NamesKnown, occupied, in_network
  <2>3. CASE ~check_address(fr)
    BY <1>0, <1>8, <2>1, <2>3, SMTT(30) DEF read
  <2>. QED
    BY <2>2, <2>3
<1>9. ASSUME NEW idle, NEW ks, tp_tick(idle, ks)
      PROVE  OneSource'
  <2>1. /\ UNCHANGED <<net, target_name>>
        /\ holders' = [k \in Key |-> IF k \in idle THEN {} ELSE holders[k]]
    BY <1>9 DEF tp_tick
  <2>. QED
    BY <2>1 DEF OneSource, OneSender, HoldersMatch, NamesKnown, occupied, in_network
<1>10. CASE UNCHANGED vars
  BY <1>0, <1>10 DEF vars
<1>. QED
  BY <1>1, <1>2, <1>3, <1>4, <1>5, <1>6, <1>7, <1>8, <1>9, <1>10 DEF Next

\* A connection with a target puts messages together from frames that the target
\* sent while it held the source address, whatever the network does between the
\* announcement and the last packet (check_address).
THEOREM OneSenderCorrect == Spec => []OneSender
<1>1. OneSource => OneSender
  BY DEF OneSource
<1>. QED
  BY <1>1, OneSourceInit, OneSourceStep, PTL DEF Spec
------------------------------------------------------------------------------
(* What the handlers send, and where they store sessions *)

\* A session under key k.
Kept(k, s) == s \in Session /\ k = make_key(s.src, s.dst) /\ Len(s.buf) = s.total

\* Sessions are stored under their own addresses.
Keyed(S) ==
  /\ S = [k \in Key |-> S[k]]
  /\ \A k \in Key : S[k] = NoSession \/ Kept(k, S[k])

\* The frames that a node sends as itself bear address a.
Bears(out, a) == \A f \in Range(out) : f.type \in OwnFrame => f.src = a

\* One entry of the map is replaced.
LEMMA PutKeyed ==
  ASSUME NEW S, Keyed(S), NEW k \in Key, NEW s, Kept(k, s)
  PROVE  Keyed(put(S, k, s))
<1>1. \A j \in Key : put(S, k, s)[j] = IF j = k THEN s ELSE S[j]
  BY DEF put, Keyed
<1>2. put(S, k, s) = [j \in Key |-> put(S, k, s)[j]]
  BY DEF put, Keyed
<1>. HIDE DEF put
<1>. QED
  BY <1>1, <1>2 DEF Keyed

\* A sequence over frames that bear address a.
LEMMA BearsSeq ==
  ASSUME NEW F, NEW out \in Seq(F), NEW a, \A f \in F : f.type \in OwnFrame => f.src = a
  PROVE  Bears(out, a)
BY SeqRange DEF Bears

\* The empty sequence has no frames.
LEMMA EmptyRange == Range(<<>>) = {} /\ \A a : Bears(<<>>, a)
<1>1. <<>> \in Seq({})
  OBVIOUS
<1>2. Range(<<>>) \in SUBSET {}
  BY <1>1, SeqRange, Zenon
<1>. QED
  BY <1>2 DEF Bears

\* An attempt to send a frame that bears address a, or none of its own.
LEMMA BusSendBears ==
  ASSUME NEW f, NEW a, f.type \in OwnFrame => f.src = a, NEW i, NEW fails
  PROVE  Bears(bus_send(f, i, fails), a)
<1>1. bus_send(f, i, fails) \in Seq({f})
  BY BusSend
<1>2. \A g \in {f} : g.type \in OwnFrame => g.src = a
  OBVIOUS
<1>. HIDE DEF bus_send
<1>. QED
  BY <1>1, <1>2, BearsSeq

\* Aborts and EOMs are not counted among the frames of its own.
LEMMA OtherFrames ==
  ASSUME NEW s, NEW i, NEW fails, NEW a
  PROVE  Bears(bus_send(abort_frame(s), i, fails), a) /\ Bears(bus_send(eom_frame(s), i, fails), a)
<1>1. abort_frame(s).type \notin OwnFrame /\ eom_frame(s).type \notin OwnFrame
  BY FrameTypes, SMTT(30) DEF OwnFrame
<1>. HIDE DEF abort_frame, eom_frame
<1>. QED
  BY <1>1, BusSendBears

\* A sender's frames bear the source of its session.
LEMMA SenderBears ==
  ASSUME NEW s, NEW out \in Seq(SenderFrames(s))
  PROVE  Bears(out, s.src)
<1>1. \A i : dt_frame(s, i).src = s.src
  BY DEF dt_frame
<1>2. rts_frame(s).src = s.src /\ bam_frame(s).src = s.src
  BY DEF rts_frame, bam_frame, cm_frame
<1>3. abort_frame(s).type \notin OwnFrame /\ eom_frame(s).type \notin OwnFrame
  BY FrameTypes, SMTT(30) DEF OwnFrame
<1>4. \A f \in SenderFrames(s) : f.type \in OwnFrame => f.src = s.src
  BY <1>1, <1>2, <1>3, Zenon DEF SenderFrames, BurstFrames
<1>. QED
  BY <1>4, BearsSeq

\* A CTS bears the destination of its session.
LEMMA CtsBears ==
  ASSUME NEW s, NEW fails
  PROVE  Bears(response_cts(s, fails), s.dst)
<1>1. cts_frame(s).src = s.dst
  BY DEF cts_frame, cm_frame
<1>. HIDE DEF cts_frame
<1>. QED
  BY <1>1, BusSendBears DEF response_cts

\* The fields of what the bus brings.
LEMMA IncomingFields ==
  ASSUME NEW fr \in Incoming
  PROVE  /\ fr.dst \in Unicast \cup {NO_ADDR}
         /\ fr.hdr = 0 /\ fr.data = Blank
         /\ fr.type \in {"RTS", "BAM"} => fr.total \in 2 .. MaxPackets
         /\ fr.count \in Number /\ fr.seq \in Number
BY TransportAssumption DEF Incoming, incoming, Number, MaxPackets

\* A session of an RTS or a BAM.
LEMMA NewRx ==
  ASSUME NEW src \in Address, NEW dst \in Address, NEW total \in 2 .. MaxPackets,
         NEW window \in Number
  PROVE  LET s == new_session("Rx", src, dst, 0, blank_buffer(total))
         IN  /\ Kept(make_key(src, dst), [s EXCEPT !.window = window])
             /\ Kept(make_key(src, dst), [s EXCEPT !.bam = TRUE])
<1>. DEFINE buf == blank_buffer(total)
            s   == new_session("Rx", src, dst, 0, buf)
<1>1. total \in Number
  BY NumberRanges DEF Number
<1>2. buf \in Seq(Data) /\ Len(buf) = total
  BY <1>1, BlankBuffer
<1>. HIDE DEF buf
<1>3. s \in Session
  BY <1>1, <1>2, NumberRanges, Zenon DEF new_session, Session
<1>4. s.src = src /\ s.dst = dst /\ s.buf = buf /\ s.total = Len(buf)
  BY DEF new_session
<1>. HIDE DEF s
<1>5. ASSUME NEW t \in {[s EXCEPT !.window = window], [s EXCEPT !.bam = TRUE]}
      PROVE  Kept(make_key(src, dst), t)
  <2>1. /\ t \in Session
        /\ t.src = s.src /\ t.dst = s.dst /\ t.buf = s.buf /\ t.total = s.total
    BY <1>3, Zenon DEF Session
  <2>. QED
    BY <1>2, <1>4, <2>1 DEF Kept
<1>. QED
  BY <1>5 DEF s, buf

\* A session keeps its place as long as its addresses and its buffer's size stay.
LEMMA KeptChange ==
  ASSUME NEW k, NEW s, Kept(k, s), NEW t \in Session,
         t.src = s.src, t.dst = s.dst, Len(t.buf) = Len(s.buf), t.total = s.total
  PROVE  Kept(k, t)
BY DEF Kept

\* Effect e keeps the map in order, and what it sends as itself bears address a.
Orderly(e, a) == Keyed(e.sessions) /\ Bears(e.out, a)

\* An effect that leaves the map alone or replaces one entry.
LEMMA OrderlyPut ==
  ASSUME NEW S, Keyed(S), NEW k \in Key, NEW s, Kept(k, s), NEW a, NEW out, Bears(out, a),
         NEW up
  PROVE  Orderly(effect(put(S, k, s), out, up), a) /\ Orderly(effect(S, out, up), a)
<1>1. Keyed(put(S, k, s))
  BY PutKeyed
<1>. HIDE DEF put
<1>. QED
  BY <1>1 DEF Orderly, effect

\* An effect that leaves the map alone.
LEMMA OrderlySame ==
  ASSUME NEW S, Keyed(S), NEW a, NEW out, Bears(out, a), NEW up
  PROVE  Orderly(effect(S, out, up), a)
BY DEF Orderly, effect

\* The abort for a frame that met no session.
LEMMA DummyBears ==
  ASSUME NEW self, NEW fr, NEW dir, NEW fails, NEW a
  PROVE  Bears(bus_send(dummy_abort(self, fr, dir), 1, fails), a)
<1>1. \E s : dummy_abort(self, fr, dir) = abort_frame(s)
  BY Zenon DEF dummy_abort
<1>. QED
  BY <1>1, OtherFrames, Zenon

\* An RTS is answered under the address it was sent to, a BAM not at all.
LEMMA AnnouncementOrderly ==
  ASSUME NEW S, Keyed(S), NEW self \in Address, NEW fr \in Incoming,
         fr.type \in {"RTS", "BAM"}, NEW fails
  PROVE  Orderly(on_can_frame(S, self, fr, fails), self)
<1>1. /\ fr.src \in Address /\ fr.dst \in Address /\ NO_ADDR \in Address
      /\ fr.total \in 2 .. MaxPackets /\ fr.count \in Number /\ fr.hdr = 0
  BY IncomingAddresses, IncomingFields, UnicastIsAddress, NoAddrIsAddress, SMTT(20)
<1>. DEFINE r == [new_session("Rx", fr.src, fr.dst, fr.hdr, blank_buffer(fr.total)) EXCEPT
                    !.window = fr.count]
            b == [new_session("Rx", fr.src, NO_ADDR, fr.hdr, blank_buffer(fr.total)) EXCEPT
                    !.bam = TRUE]
<1>2. /\ make_key(fr.src, fr.dst) \in Key /\ make_key(fr.src, NO_ADDR) \in Key
      /\ Kept(make_key(fr.src, fr.dst), r) /\ Kept(make_key(fr.src, NO_ADDR), b)
  BY <1>1, KeyFacts, NewRx, Zenon
<1>3. r.dst = fr.dst
  BY DEF new_session
<1>. HIDE DEF r, b
<1>4. CASE fr.type = "RTS" /\ fr.dst = self
  <2>1. on_can_frame(S, self, fr, fails) =
          effect(put(S, make_key(fr.src, fr.dst), r), response_cts(r, fails), <<>>)
    BY <1>4 DEF on_can_frame, start_rx_rts, only_sends, r
  <2>2. Bears(response_cts(r, fails), self)
    BY <1>3, <1>4, CtsBears
  <2>. QED
    BY <1>2, <2>1, <2>2, OrderlyPut
<1>5. CASE fr.type = "RTS" /\ fr.dst # self
  <2>1. on_can_frame(S, self, fr, fails) = effect(S, <<>>, <<>>)
    BY <1>5 DEF on_can_frame, start_rx_rts, nothing
  <2>. QED
    BY <2>1, EmptyRange, OrderlySame
<1>6. CASE fr.type = "BAM"
  <2>1. on_can_frame(S, self, fr, fails) =
          effect(put(S, make_key(fr.src, NO_ADDR), b), <<>>, <<>>)
    BY <1>6 DEF on_can_frame, start_rx_bam, nothing, b
  <2>. QED
    BY <1>2, <2>1, EmptyRange, OrderlyPut
<1>. QED
  BY <1>4, <1>5, <1>6

\* A CTS makes the session of self send its packets.
LEMMA CtsOrderly ==
  ASSUME NEW S, Keyed(S), NEW self \in Address, NEW fr \in Incoming,
         fr.type = "CTS", NEW fails \in Failures
  PROVE  Orderly(on_can_frame(S, self, fr, fails), self)
<1>. DEFINE k == make_key(self, fr.src)
            s == [S[k] EXCEPT !.window = fr.count, !.next = fr.seq]
            b == send_data_packets(s, fails)
            e == on_can_frame(S, self, fr, fails)
<1>1. fr.src \in Address /\ fr.count \in Number /\ fr.seq \in Number
  BY IncomingAddresses, IncomingFields, UnicastIsAddress
<1>2. k \in Key /\ k[1] = self
  BY <1>1, KeyFacts
<1>3. e = handle_cts(S, self, fr, fails)
  BY DEF on_can_frame
<1>4. CASE S[k] = NoSession
  <2>1. e = effect(S, bus_send(dummy_abort(self, fr, "Tx"), 1, fails), <<>>)
    BY <1>3, <1>4 DEF handle_cts, only_sends
  <2>. QED
    BY <2>1, DummyBears, OrderlySame
<1>5. CASE S[k] # NoSession
  <2>1. Kept(k, S[k])
    BY <1>2, <1>5 DEF Keyed
  <2>2. S[k] \in Session /\ S[k].src = self
    BY <1>2, <2>1 DEF Kept, make_key
  <2>3. /\ s \in Session /\ s.src = self /\ s.dst = S[k].dst
        /\ s.buf = S[k].buf /\ s.total = S[k].total
    BY <1>1, <2>2, Zenon DEF Session
  <2>4. e = effect(put(S, k, b.session), b.out, <<>>)
    BY <1>3, <1>5 DEF handle_cts, only_sends
  <2>. HIDE DEF e, s, k
  <2>5. /\ \E n \in Number, x \in States : b.session = [s EXCEPT !.next = n, !.state = x]
        /\ b.out \in Seq(SenderFrames(s))
    BY <2>3, BurstFacts, Zenon
  <2>. HIDE DEF b
  <2>6. /\ b.session \in Session /\ b.session.src = s.src /\ b.session.dst = s.dst
        /\ b.session.buf = s.buf /\ b.session.total = s.total
    BY <2>3, <2>5, Zenon DEF Session, States
  <2>7. Kept(k, b.session)
    BY <2>1, <2>2, <2>3, <2>6, KeptChange, SMTT(20)
  <2>8. Bears(b.out, self)
    BY <2>3, <2>5, SenderBears
  <2>. QED
    BY <1>2, <2>4, <2>7, <2>8, OrderlyPut DEF e
<1>. QED
  BY <1>4, <1>5

\* A stored packet leaves the session in its place.
LEMMA StoreKept ==
  ASSUME NEW k, NEW s, Kept(k, s), NEW fr \in Incoming, dt_in_sequence(s, fr)
  PROVE  /\ Kept(k, store(s, fr))
         /\ Kept(k, [store(s, fr) EXCEPT !.state = "Completed"])
         /\ store(s, fr).dst = s.dst
<1>. DEFINE B == [i \in 1 .. s.total |-> IF i = fr.seq THEN fr.data ELSE s.buf[i]]
            m == (fr.seq + 1) % SeqSize
<1>1. s \in Session /\ Len(s.buf) = s.total /\ s.total \in Nat /\ s.buf \in Seq(Data)
  BY DEF Kept, Session, Number
<1>2. fr.data \in Data /\ m \in Number
  BY IncomingFields, NumberRanges, TransportAssumption DEF Number, MaxPackets
<1>3. \A i \in 1 .. s.total : s.buf[i] \in Data
  BY <1>1
<1>4. B \in [1 .. s.total -> Data]
  BY <1>2, <1>3
<1>5. B \in Seq(Data) /\ Len(B) = s.total
  <2>. HIDE DEF B
  <2>. QED
    BY <1>1, <1>4, FunctionIsSeq
<1>6. store(s, fr) = [s EXCEPT !.buf = B, !.next = m]
  BY DEF store
<1>. HIDE DEF B, m
<1>. DEFINE t == [s EXCEPT !.buf = B, !.next = m]
            u == [t EXCEPT !.state = "Completed"]
<1>7. t \in Session /\ t.src = s.src /\ t.dst = s.dst /\ t.buf = B /\ t.total = s.total
  BY <1>1, <1>2, <1>5, Zenon DEF Session
<1>. HIDE DEF t
<1>8. u \in Session /\ u.src = s.src /\ u.dst = s.dst /\ u.buf = B /\ u.total = s.total
  BY <1>7 DEF Session
<1>. HIDE DEF u
<1>9. Kept(k, t) /\ Kept(k, u)
  BY <1>1, <1>5, <1>7, <1>8, KeptChange
<1>. QED
  BY <1>6, <1>7, <1>9 DEF t, u

\* A session whose state changes stays in its place.
LEMMA StateKept ==
  ASSUME NEW k, NEW s, Kept(k, s), NEW x \in States
  PROVE  Kept(k, [s EXCEPT !.state = x])
<1>. DEFINE t == [s EXCEPT !.state = x]
<1>1. /\ t \in Session /\ t.src = s.src /\ t.dst = s.dst
      /\ t.buf = s.buf /\ t.total = s.total
  BY DEF Kept, Session, States
<1>. HIDE DEF t
<1>2. Kept(k, t)
  BY <1>1, KeptChange
<1>. QED
  BY <1>2 DEF t

\* A packet to self is answered under self's address.
LEMMA DtOrderly ==
  ASSUME NEW S, Keyed(S), NEW self \in Address, NEW fr \in Incoming,
         fr.type = "DT", NEW fails
  PROVE  /\ Keyed(on_can_frame(S, self, fr, fails).sessions)
         /\ fr.dst = self => Bears(on_can_frame(S, self, fr, fails).out, self)
<1>. DEFINE k == make_key(fr.src, fr.dst)
            s == store(S[k], fr)
            e == on_can_frame(S, self, fr, fails)
<1>. SUFFICES Orderly(e, fr.dst)
  BY DEF Orderly
<1>1. k \in Key /\ k[2] = fr.dst
  BY IncomingAddresses, UnicastIsAddress, KeyFacts
<1>2. e = handle_dt(S, self, fr, fails)
  BY DEF on_can_frame
<1>3. CASE S[k] = NoSession
  <2>1. e = effect(S, bus_send(dummy_abort(self, fr, "Rx"), 1, fails), <<>>)
    BY <1>2, <1>3 DEF handle_dt, only_sends
  <2>. QED
    BY <2>1, DummyBears, OrderlySame
<1>4. CASE S[k] # NoSession /\ ~dt_in_sequence(S[k], fr)
  <2>1. Kept(k, [S[k] EXCEPT !.state = "ABorted"])
    BY <1>1, <1>4, StateKept, Zenon DEF Keyed, States
  <2>2. e = effect(put(S, k, [S[k] EXCEPT !.state = "ABorted"]),
                   bus_send(abort_frame(S[k]), 1, fails), <<>>)
    BY <1>2, <1>4 DEF handle_dt, only_sends
  <2>. QED
    BY <1>1, <2>1, <2>2, OtherFrames, OrderlyPut
<1>5. CASE S[k] # NoSession /\ dt_in_sequence(S[k], fr)
  <2>1. Kept(k, S[k]) /\ S[k].dst = fr.dst
    BY <1>1, <1>5 DEF Keyed, Kept, make_key
  <2>2. Kept(k, s) /\ Kept(k, [s EXCEPT !.state = "Completed"]) /\ s.dst = fr.dst
    BY <1>5, <2>1, StoreKept
  <2>3. e = accept_dt(S, k, fr, fails)
    BY <1>2, <1>5 DEF handle_dt
  <2>. HIDE DEF s, k, e
  <2>4. /\ Bears(<<>>, fr.dst) /\ Bears(bus_send(eom_frame(s), 1, fails), fr.dst)
        /\ Bears(response_cts(s, fails), fr.dst)
    BY <2>2, EmptyRange, OtherFrames, CtsBears
  <2>5. \E out \in {<<>>, bus_send(eom_frame(s), 1, fails), response_cts(s, fails)},
           t \in {s, [s EXCEPT !.state = "Completed"]} :
          \E up : e = effect(put(S, k, t), out, up)
    BY <2>3, Zenon DEF accept_dt, only_sends, s
  <2>6. PICK out \in {<<>>, bus_send(eom_frame(s), 1, fails), response_cts(s, fails)},
             t \in {s, [s EXCEPT !.state = "Completed"]} :
          \E up : e = effect(put(S, k, t), out, up)
    BY <2>5, Zenon
  <2>7. Bears(out, fr.dst) /\ Kept(k, t)
    BY <2>2, <2>4, <2>6, Zenon
  <2>. QED
    BY <1>1, <2>6, <2>7, OrderlyPut
<1>. QED
  BY <1>3, <1>4, <1>5

\* An EOM and an abort change the state of a session at most.
LEMMA EndOrderly ==
  ASSUME NEW S, Keyed(S), NEW self \in Address, NEW fr \in Incoming,
         fr.type \in {"EOM", "ABORT"}, NEW fails
  PROVE  Orderly(on_can_frame(S, self, fr, fails), self)
<1>. DEFINE j == make_key(fr.src, fr.dst)
            k == make_key(self, fr.src)
            e == on_can_frame(S, self, fr, fails)
<1>1. j \in Key /\ k \in Key
  BY IncomingAddresses, UnicastIsAddress, KeyFacts
<1>2. /\ S[j] # NoSession => Kept(j, [S[j] EXCEPT !.state = "Completed"])
      /\ S[k] # NoSession => Kept(k, [S[k] EXCEPT !.state = "ABorted"])
  BY <1>1, StateKept, Zenon DEF Keyed, States
<1>3. \/ e = effect(S, bus_send(dummy_abort(self, fr, "Rx"), 1, fails), <<>>)
      \/ e = effect(S, <<>>, <<>>)
      \/ S[j] # NoSession /\ e = effect(put(S, j, [S[j] EXCEPT !.state = "Completed"]), <<>>, <<>>)
      \/ S[k] # NoSession /\ e = effect(put(S, k, [S[k] EXCEPT !.state = "ABorted"]), <<>>, <<>>)
  <2>1. CASE fr.type = "EOM"
    <3>1. e = complete_rx(S, self, fr, fails)
      BY <2>1 DEF on_can_frame
    <3>. QED
      BY <3>1, Zenon DEF complete_rx, only_sends, nothing
  <2>2. CASE fr.type = "ABORT"
    <3>1. e = handle_abort(S, self, fr)
      BY <2>2 DEF on_can_frame
    <3>. QED
      BY <3>1, Zenon DEF handle_abort, nothing
  <2>. QED
    BY <2>1, <2>2
<1>. HIDE DEF e, j, k
<1>4. Orderly(e, self)
  BY <1>1, <1>2, <1>3, EmptyRange, DummyBears, OrderlySame, OrderlyPut, Zenon
<1>. QED
  BY <1>4 DEF e

------------------------------------------------------------------------------
(* What is sent *)

\* The inductive invariant.  A session is found under the address that the name
\* has when a frame comes, so sessions of earlier addresses send nothing.
OwnAddress ==
  /\ src_addr \in Address
  /\ local_name \in Name \cup {NoName}
  /\ Keyed(sessions)
  /\ SentUnderOwnAddress

\* The network knows an address of every name.
LEMMA AddressOfName ==
  ASSUME OneSource, NEW n \in Name
  PROVE  get_address(net, n) \in Address
BY DEF OneSource, Table, get_address

\* A step that sends under address a, the one of the local name if there is one.
LEMMA SentStep ==
  ASSUME NEW a,
         local_name' # NoName =>
           a # IDLE /\ a = get_address(net', local_name') /\ Bears(sent', a)
  PROVE  SentUnderOwnAddress'
BY DEF SentUnderOwnAddress, Bears

\* A step that sends nothing.
LEMMA QuietStep ==
  ASSUME sent' = <<>> PROVE SentUnderOwnAddress'
BY EmptyRange DEF SentUnderOwnAddress

\* A frame that is written under the address of the local name.
LEMMA WriteStep ==
  ASSUME OwnAddress, NEW type, NEW src, NEW ps, NEW fails,
         write(plain_frame(type, src, ps), fails),
         local_name # NoName => src # IDLE /\ src = get_address(net, local_name)
  PROVE  OwnAddress'
<1>1. /\ sent' = bus_send(plain_frame(type, src, ps), 1, fails)
      /\ UNCHANGED <<net, local_name, src_addr, sessions>>
  BY DEF write
<1>2. plain_frame(type, src, ps).src = src
  BY DEF plain_frame
<1>. HIDE DEF plain_frame
<1>3. Bears(sent', src)
  BY <1>1, <1>2, BusSendBears
<1>4. SentUnderOwnAddress'
  BY <1>1, <1>3, SentStep
<1>. QED
  BY <1>1, <1>4 DEF OwnAddress

\* A step that sends nothing and leaves the sessions alone.
LEMMA QuietOwn ==
  ASSUME OwnAddress, sent' = <<>>, UNCHANGED <<src_addr, sessions>>,
         local_name' \in Name \cup {NoName}
  PROVE  OwnAddress'
BY QuietStep DEF OwnAddress

\* send_to sends under the address of the local name or refuses.
LEMMA SendToStep ==
  ASSUME OwnAddress, NEW n, NEW type, NEW ps, NEW fails, send_to(n, type, ps, fails)
  PROVE  OwnAddress'
<1>1. CASE refuse
  BY <1>1, QuietOwn DEF refuse, quiet, OwnAddress
<1>2. CASE /\ get_address(net, local_name) # IDLE
           /\ write(plain_frame(type, get_address(net, local_name), get_address(net, n)), fails)
  BY <1>2, WriteStep
<1>. QED
  BY <1>1, <1>2 DEF send_to

\* So does send of a frame.
LEMMA SendFrameStep ==
  ASSUME OwnAddress, NEW type, NEW ps, NEW fails, send_frame(type, ps, fails)
  PROVE  OwnAddress'
<1>1. CASE refuse
  BY <1>1, QuietOwn DEF refuse, quiet, OwnAddress
<1>2. ASSUME NEW source \in local_address, source # IDLE,
             write(plain_frame(type, source, ps), fails)
      PROVE  OwnAddress'
  <2>1. local_name # NoName => source = get_address(net, local_name)
    BY DEF local_address
  <2>. QED
    BY <1>2, <2>1, WriteStep
<1>3. CASE send_to(target_name, type, ps, fails)
  BY <1>3, SendToStep
<1>. QED
  BY <1>1, <1>2, <1>3 DEF send_frame

\* Long data is announced under the address of the local name.
LEMMA SendDataStep ==
  ASSUME OneSource, OwnAddress, local_name # NoName, NEW ps \in Address,
         NEW buf \in Seq(Data), send_data(ps, buf, {})
  PROVE  OwnAddress'
<1>. DEFINE a == get_address(net, local_name)
            e == start_tx(sessions, a, ps, 0, buf, {})
<1>1. local_name \in Name /\ a \in Address
  BY AddressOfName DEF OwnAddress
<1>2. local_address = {a}
  BY DEF local_address
<1>3. CASE refuse
  BY <1>3, QuietOwn DEF refuse, quiet, OwnAddress
<1>4. CASE /\ a # IDLE
           /\ src_addr' = a /\ sessions' = e.sessions /\ sent' = e.out
           /\ UNCHANGED <<net, local_name>>
  <2>1. TxStarted(sessions, a, ps, e)
    <3>1. sessions = [k \in Key |-> sessions[k]]
      BY DEF OwnAddress, Keyed
    <3>. HIDE DEF a
    <3>. QED
      BY <1>1, <3>1, StartTxFacts, NoFailure
  <2>. HIDE DEF e, a
  <2>2. CASE e.sessions = sessions /\ e.out = <<>>
    <3>1. Keyed(sessions')
      BY <1>4, <2>2 DEF OwnAddress
    <3>. QED
      BY <1>1, <1>4, <2>2, <3>1, QuietStep, SMTT(20) DEF OwnAddress
  <2>3. ASSUME NEW s \in Session, NEW t \in Session,
               e.sessions = put(sessions, make_key(a, ps), t),
               t.src = a, t.dst = ps, Len(t.buf) = t.total,
               e.out \in Seq(SenderFrames(s)), s.src = a
        PROVE  OwnAddress'
    <3>1. make_key(a, ps) \in Key /\ Kept(make_key(a, ps), t)
      BY <1>1, <2>3, KeyFacts DEF Kept
    <3>2. Keyed(sessions')
      BY <1>4, <2>3, <3>1, PutKeyed, SMTT(20) DEF OwnAddress
    <3>3. Bears(sent', a)
      BY <1>4, <2>3, SenderBears
    <3>4. SentUnderOwnAddress'
      BY <1>4, <3>3, SentStep DEF a
    <3>. QED
      BY <1>1, <1>4, <3>2, <3>4, SMTT(20) DEF OwnAddress
  <2>. QED
    BY <2>1, <2>2, <2>3, Zenon DEF TxStarted
<1>. QED
  BY <1>2, <1>3, <1>4 DEF send_data

\* What the transport protocol does with a frame for it.
LEMMA HandlersOrderly ==
  ASSUME NEW S, Keyed(S), NEW self \in Address, NEW fr \in Incoming,
         NEW fails \in Failures, fr.type \in {"RTS", "BAM", "CTS", "DT", "EOM", "ABORT"}
  PROVE  /\ Keyed(on_can_frame(S, self, fr, fails).sessions)
         /\ fr.dst = self => Bears(on_can_frame(S, self, fr, fails).out, self)
<1>1. CASE fr.type = "DT"
  BY <1>1, DtOrderly
<1>2. CASE fr.type # "DT"
  BY <1>2, AnnouncementOrderly, CtsOrderly, EndOrderly DEF Orderly
<1>. QED
  BY <1>1, <1>2

\* A frame for the local name is answered under its address.
LEMMA ReadStep ==
  ASSUME OneSource, OwnAddress, NEW fr \in Incoming, read(fr, {})
  PROVE  OwnAddress'
<1>. DEFINE self == refreshed_address
            e    == on_can_frame(sessions, self, fr, {})
<1>1. /\ self \in Address
      /\ local_name # NoName => local_name \in Name /\ self = get_address(net, local_name)
  BY AddressOfName DEF refreshed_address, OwnAddress
<1>2. src_addr' = self /\ UNCHANGED <<net, local_name>>
  BY DEF read
<1>3. CASE ~check_address(fr) \/ fr.type \in {"PDU1", "PDU2", "NM", "COMMANDED"}
  <2>1. sessions' = sessions /\ sent' = <<>>
    BY <1>3, Zenon DEF read, quiet, tp_effect, nothing, effect
  <2>. QED
    BY <1>1, <1>2, <2>1, QuietStep, SMTT(20) DEF OwnAddress
<1>4. CASE check_address(fr) /\ fr.type \notin {"PDU1", "PDU2", "NM", "COMMANDED"}
  <2>1. fr.type \in {"RTS", "BAM", "CTS", "DT", "EOM", "ABORT"}
    BY <1>4 DEF Incoming, incoming
  <2>2. sessions' = e.sessions /\ sent' = e.out
    BY <1>4 DEF read, tp_effect
  <2>3. local_name # NoName => self = fr.dst /\ self # IDLE
    <3>1. local_name # NoName => get_address(net, local_name) = fr.dst
      BY <1>4, <2>1 DEF check_address, to_local, is_broadcast
    <3>2. fr.dst # IDLE
      BY IncomingFields, IdleIsAddress
    <3>. QED
      BY <1>1, <3>1, <3>2
  <2>. HIDE DEF self
  <2>4. Keyed(e.sessions) /\ (fr.dst = self => Bears(e.out, self))
    BY <1>1, <2>1, HandlersOrderly, NoFailure DEF OwnAddress
  <2>. HIDE DEF e
  <2>5. SentUnderOwnAddress'
    BY <1>1, <1>2, <2>2, <2>3, <2>4, SentStep, SMTT(30)
  <2>. QED
    BY <1>1, <1>2, <2>2, <2>4, <2>5, SMTT(30) DEF OwnAddress
<1>. QED
  BY <1>3, <1>4

\* A tick erases sessions and sends aborts.
LEMMA TickOwn ==
  ASSUME OwnAddress, NEW idle, NEW ks, tp_tick(idle, ks)
  PROVE  OwnAddress'
<1>1. /\ sessions' = [k \in Key |-> IF k \in idle THEN NoSession ELSE sessions[k]]
      /\ sent' = [i \in DOMAIN ks |-> abort_frame(sessions[ks[i]])]
      /\ UNCHANGED <<net, local_name, src_addr>>
  BY Zenon DEF tp_tick, tick, only_sends, effect
<1>2. Keyed(sessions')
  BY <1>1 DEF OwnAddress, Keyed
<1>3. ASSUME NEW f \in Range(sent')
      PROVE  f.type = "ABORT"
  <2>1. \E i \in DOMAIN ks : f = abort_frame(sessions[ks[i]])
    BY <1>1, <1>3, Zenon DEF Range
  <2>. QED
    BY <2>1, FrameTypes, Zenon
<1>4. SentUnderOwnAddress'
  BY <1>3 DEF SentUnderOwnAddress, OwnFrame
<1>. QED
  BY <1>1, <1>2, <1>4 DEF OwnAddress

\* OwnAddress holds of a new connection.
LEMMA OwnAddressInit == Init => OwnAddress
<1>. SUFFICES ASSUME Init PROVE OwnAddress
  OBVIOUS
<1>1. Keyed(sessions)
  BY DEF Init, EmptyMap, Keyed
<1>2. src_addr \in Address /\ local_name \in Name \cup {NoName}
  BY IdleIsAddress, ConnectionAssumption DEF Init
<1>3. SentUnderOwnAddress
  BY EmptyRange DEF Init, SentUnderOwnAddress
<1>. QED
  BY <1>1, <1>2, <1>3 DEF OwnAddress

\* Every operation of a connection, and every change of the network, keeps
\* OwnAddress.
LEMMA OwnAddressStep == OneSource /\ OwnAddress /\ [Next]_vars => OwnAddress'
<1>. SUFFICES ASSUME OneSource, OwnAddress, [Next]_vars PROVE OwnAddress'
  OBVIOUS
<1>0. local_name \in Name \cup {NoName}
  BY DEF OwnAddress
<1>1. CASE start
  BY <1>0, <1>1, QuietOwn DEF start, quiet
<1>2. ASSUME NEW n \in Local, set_local_name(n)
      PROVE  OwnAddress'
  BY <1>2, ConnectionAssumption, QuietOwn DEF set_local_name, quiet
<1>3. ASSUME NEW n \in Target, set_target_name(n)
      PROVE  OwnAddress'
  BY <1>0, <1>3, QuietOwn DEF set_target_name, quiet
<1>4. ASSUME NEW t, network_changes(t)
      PROVE  OwnAddress'
  BY <1>0, <1>4, QuietOwn DEF network_changes, quiet
<1>5. ASSUME NEW type, NEW fails, send_frame(type, NO_ADDR, fails)
      PROVE  OwnAddress'
  BY <1>5, SendFrameStep
<1>6. ASSUME NEW type, NEW fails, NEW n \in Name, send_to(n, type, NO_ADDR, fails)
      PROVE  OwnAddress'
  BY <1>6, SendToStep
<1>7. ASSUME NEW ps \in Unicast \cup {NO_ADDR}, NEW n \in 2 .. SeqSize,
             local_name # NoName, send_data(ps, blank_buffer(n), {})
      PROVE  OwnAddress'
  <2>1. n \in Nat /\ blank_buffer(n) \in [1 .. n -> Data]
    BY TransportAssumption, NumberRanges DEF blank_buffer
  <2>. HIDE DEF blank_buffer
  <2>2. blank_buffer(n) \in Seq(Data) /\ ps \in Address
    BY <2>1, FunctionIsSeq, NumberRanges
  <2>. QED
    BY <1>7, <2>2, SendDataStep
<1>8. ASSUME NEW fr \in Incoming, read(fr, {})
      PROVE  OwnAddress'
  BY <1>8, ReadStep
<1>9. ASSUME NEW idle, NEW ks, tp_tick(idle, ks)
      PROVE  OwnAddress'
  BY <1>9, TickOwn
<1>10. CASE UNCHANGED vars
  BY <1>10 DEF vars, OwnAddress, SentUnderOwnAddress, get_address, Keyed, Kept
<1>. QED
  BY <1>1, <1>2, <1>3, <1>4, <1>5, <1>6, <1>7, <1>8, <1>9, <1>10 DEF Next

\* Whatever becomes of the address of the local name, the frames that the
\* connection sends as itself bear the address that the name has when they go
\* out, and none goes out without one (check_address, send, send_to).
THEOREM OwnAddressCorrect == Spec => []SentUnderOwnAddress
<1>1. OwnAddress => SentUnderOwnAddress
  BY DEF OwnAddress
<1>. QED
  BY <1>1, OneSourceInit, OneSourceStep, OwnAddressInit, OwnAddressStep, PTL DEF Spec

===============================================================================
