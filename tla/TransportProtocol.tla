-------------------------- MODULE TransportProtocol --------------------------
(***************************************************************************)
(* jay::transport_protocol (transport_protocol.hpp): the sessions of one   *)
(* object, and every handler as an operator from the session map and a     *)
(* frame to an effect: the new map, the frames that went out and the       *)
(* messages handed to rx_callback_.                                        *)
(*                                                                         *)
(* Sequence numbers are SeqSize wide (256 in the code), so the longest     *)
(* message has SeqSize - 1 packets.  A message is a header and a sequence  *)
(* of packet contents; its length in bytes is its number of packets, up to *)
(* 8 bytes being one packet.  The code is written for announcements whose  *)
(* length and packet count agree and whose window is not 0.                *)
(*                                                                         *)
(* bus::send may fail.  fails is the set of the attempts of a handler      *)
(* (numbered from 1) that do.  The attempts of tick fail independently of  *)
(* each other.                                                             *)
(***************************************************************************)
EXTENDS Addresses, Sequences, FiniteSetsExt

CONSTANT SeqSize

MaxPackets == SeqSize - 1

Number == 0 .. MaxPackets

ASSUME TransportAssumption ==
  /\ MaxUnicast \in Nat
  /\ SeqSize \in Nat /\ SeqSize > 2

\* The content of a packet.  A received buffer starts out as zeroes.
Blank == 0

\* What a read in front of the buffer yields (see content).
Garbage == -1

Data == Nat \cup {Garbage}

Key == Address \X Address

make_key(src, dst) == <<src, dst>>

\* struct TpSession.  last_activity is left to tick.
Session == [dir    : {"Tx", "Rx"},
            buf    : Seq(Data),
            total  : Number,
            next   : Number,
            window : Number,
            dst    : Address,
            src    : Address,
            hdr    : Nat,
            bam    : BOOLEAN,
            state  : {"InProgress", "Completed", "ABorted"}]

\* The value of a key that is not in sessions_.
NoSession == [dir |-> "none"]

SessionMap == [Key -> Session \cup {NoSession}]

EmptyMap == [k \in Key |-> NoSession]

active(S) == {k \in Key : S[k] # NoSession}

\* A session as TpSession's member initialisers leave it, with the given
\* direction, addresses, header and buffer.
new_session(dir, src, dst, hdr, buf) ==
  [dir |-> dir, buf |-> buf, total |-> Len(buf), next |-> 1, window |-> MaxPackets,
   dst |-> dst, src |-> src, hdr |-> hdr, bam |-> FALSE, state |-> "InProgress"]

\* buffer.resize
blank_buffer(total) == [i \in 1 .. total |-> Blank]

------------------------------------------------------------------------------
(* Frames *)

\* seq is the sequence number of a DT and the next packet of a CTS, count the
\* window of an RTS and the number of packets of a CTS.
Frame == [type  : {"RTS", "CTS", "BAM", "EOM", "ABORT", "DT"},
          src   : Address,
          dst   : Address,
          total : Number,
          count : Number,
          seq   : Number,
          hdr   : Nat,
          data  : Data]

\* make_cm_frame and fill_tp_payload
cm_frame(ctrl, s, dst, src) ==
  [type |-> ctrl, src |-> src, dst |-> dst, total |-> s.total, count |-> s.window,
   seq |-> 0, hdr |-> s.hdr, data |-> Blank]

rts_frame(s) == cm_frame("RTS", s, s.dst, s.src)

bam_frame(s) == cm_frame("BAM", s, NO_ADDR, s.src)

\* Seeded fault: the receiver asks for the packet behind the one it needs.
cts_frame_next(s) ==
  [cm_frame("CTS", s, s.src, s.dst) EXCEPT !.total = 0, !.seq = (s.next + 1) % SeqSize]

cts_frame(s) ==
  [cm_frame("CTS", s, s.src, s.dst) EXCEPT !.total = 0, !.seq = s.next]

eom_frame(s) == [cm_frame("EOM", s, s.src, s.dst) EXCEPT !.count = MaxPackets]

\* The bytes of the length, packet count and window hold the reason.
abort_frame(s) == [cm_frame("ABORT", s, s.src, s.dst) EXCEPT !.total = 0, !.count = 0]

\* The offset of packet seq is (seq - 1) * 7: for number 0, which next_seq
\* takes when it wraps, it lies in front of the buffer.
content(s, seq) == IF seq = 0 THEN Garbage ELSE s.buf[seq]

dt_frame(s, seq) ==
  [type |-> "DT", src |-> s.src, dst |-> s.dst, total |-> 0, count |-> 0,
   seq |-> seq, hdr |-> 0, data |-> content(s, seq)]

\* The attempts of a handler that fail.  A handler stops after the attempt that
\* follows a failure.
Failures == {{}} \cup {{i} : i \in 1 .. SeqSize + 1} \cup {{i, i + 1} : i \in 1 .. SeqSize}

\* bus_.send(f), the i-th attempt of its handler.
bus_send(f, i, fails) == IF i \in fails THEN <<>> ELSE <<f>>

\* send_abort for a frame that met no session.  In dummy_abort_session, Tx is
\* the direction for a CTS, Rx for a DT or an EOM.
dummy_abort(self, fr, dir) ==
  LET dummy == IF dir = "Tx" THEN new_session("Tx", self, fr.src, fr.hdr, <<>>)
                             ELSE new_session("Rx", fr.src, self, fr.hdr, <<>>)
  IN  abort_frame(dummy)

------------------------------------------------------------------------------
(* Effects *)

put(S, k, s) == [S EXCEPT ![k] = s]

\* The map becomes S, the frames out are sent, the messages up delivered.
effect(S, out, up) == [sessions |-> S, out |-> out, up |-> up]

nothing(S) == effect(S, <<>>, <<>>)

only_sends(S, out) == effect(S, out, <<>>)

------------------------------------------------------------------------------
(* TX path *)

\* The passes of the loop while (next_seq <= total_packets && count--).  With
\* total_packets at its largest the first condition never fails: next_seq wraps.
burst_length(s) ==
  IF s.next > s.total THEN 0
  ELSE IF s.total = MaxPackets THEN s.window
  ELSE Min({s.window, s.total - s.next + 1})

number_after(s, i) == (s.next + i) % SeqSize

\* The first i packets of a burst.
packets(s, i) == [j \in 1 .. i |-> dt_frame(s, number_after(s, j - 1))]

\* From where the session stands, at most a window.  The first attempt that
\* fails ends the burst; the abort that follows is the next attempt.
send_data_packets(s, fails) ==
  LET n      == burst_length(s)
      failed == fails \cap 1 .. n
      gone   == IF failed = {} THEN n ELSE Min(failed) - 1
      after  == [s EXCEPT !.next = number_after(s, gone)]
  IN  IF failed # {}
      THEN [session |-> after,
            out |-> packets(s, gone) \o bus_send(abort_frame(s), gone + 2, fails),
            ret |-> FALSE]
      ELSE IF after.next > after.total
      THEN [session |-> [after EXCEPT !.state = "Completed"],
            out |-> packets(s, n) \o
                      (IF s.bam THEN <<>> ELSE bus_send(eom_frame(s), n + 1, fails)),
            ret |-> TRUE]
      ELSE [session |-> after, out |-> packets(s, n), ret |-> FALSE]

\* The attempts of send_data_packets when one attempt was made before.
later(fails) == {i - 1 : i \in fails \ {1}}

send_bam_start(S, k, fails) ==
  LET s     == S[k]
      burst == send_data_packets(s, later(fails))
  IN  IF 1 \in fails
      THEN [sessions |-> S, out |-> bus_send(abort_frame(s), 2, fails), ret |-> FALSE]
      ELSE [sessions |-> put(S, k, burst.session), out |-> <<bam_frame(s)>> \o burst.out,
            ret |-> burst.ret]

send_rts(S, k, fails) ==
  LET s == S[k]
  IN  IF 1 \in fails
      THEN [sessions |-> S, out |-> bus_send(abort_frame(s), 2, fails), ret |-> FALSE]
      ELSE [sessions |-> S, out |-> <<rts_frame(s)>>, ret |-> TRUE]

\* The session replaces one to the same destination that is under way, and
\* stays when its announcement cannot be sent.  ret is what send returns.
start_tx(S, self, dst, hdr, buf, fails) ==
  LET k == make_key(self, dst)
      s == [new_session("Tx", self, dst, hdr, buf) EXCEPT !.bam = (dst = NO_ADDR)]
  IN  IF Len(buf) \notin 2 .. MaxPackets
      THEN [sessions |-> S, out |-> <<>>, ret |-> FALSE]
      ELSE IF s.bam THEN send_bam_start(put(S, k, s), k, fails)
                    ELSE send_rts(put(S, k, s), k, fails)

------------------------------------------------------------------------------
(* RX path *)

response_cts(s, fails) == bus_send(cts_frame(s), 1, fails)

\* Seeded fault: an RTS that repeats one under way keeps next_seq.
start_rx_rts_keep(S, self, fr, fails) ==
  LET k == make_key(fr.src, fr.dst)
      s == [new_session("Rx", fr.src, fr.dst, fr.hdr, blank_buffer(fr.total)) EXCEPT
              !.window = fr.count,
              !.next = IF S[k] # NoSession THEN S[k].next ELSE 1]
  IN  IF fr.dst # self THEN nothing(S)
      ELSE only_sends(put(S, k, s), response_cts(s, fails))

\* An RTS replaces the session in progress, whatever its state.
start_rx_rts(S, self, fr, fails) ==
  LET k == make_key(fr.src, fr.dst)
      s == [new_session("Rx", fr.src, fr.dst, fr.hdr, blank_buffer(fr.total)) EXCEPT
              !.window = fr.count]
  IN  IF fr.dst # self THEN nothing(S)
      ELSE only_sends(put(S, k, s), response_cts(s, fails))

start_rx_bam(S, fr) ==
  LET s == [new_session("Rx", fr.src, NO_ADDR, fr.hdr, blank_buffer(fr.total)) EXCEPT
              !.bam = TRUE]
  IN  nothing(put(S, make_key(fr.src, NO_ADDR), s))

\* The state of the session is not looked at.
handle_cts(S, self, fr, fails) ==
  LET k     == make_key(self, fr.src)
      burst == send_data_packets([S[k] EXCEPT !.window = fr.count, !.next = fr.seq], fails)
  IN  IF S[k] = NoSession
      THEN only_sends(S, bus_send(dummy_abort(self, fr, "Tx"), 1, fails))
      ELSE only_sends(put(S, k, burst.session), burst.out)

\* Seeded fault: a packet that came before is not refused.
dt_in_sequence_again(s, fr) == fr.seq \in 1 .. s.total /\ fr.seq <= s.next

\* Seeded fault: a packet that skips numbers is not refused.
dt_in_sequence_skip(s, fr) == fr.seq \in 1 .. s.total /\ fr.seq >= s.next

\* None of the three early returns (bad, duplicate, unexpected sequence).
dt_in_sequence(s, fr) == fr.seq \in 1 .. s.total /\ fr.seq = s.next

\* Seeded fault: next_seq is wider than the number in the frames.
store_wide(s, fr) ==
  [s EXCEPT !.buf = [i \in 1 .. s.total |-> IF i = fr.seq THEN fr.data ELSE @[i]],
            !.next = fr.seq + 1]

\* The packet is copied; next_seq has 8 bits and wraps after the last number.
store(s, fr) ==
  [s EXCEPT !.buf = [i \in 1 .. s.total |-> IF i = fr.seq THEN fr.data ELSE @[i]],
            !.next = (fr.seq + 1) % SeqSize]

\* Seeded fault: the receiver takes windows for one packet longer than they are.
cts_due_late(s, seq) == seq % (s.window + 1) = 0 /\ ~s.bam

\* The last packet of a window: the sender waits for a CTS.
cts_due(s, seq) == seq % s.window = 0 /\ ~s.bam

\* What rx_callback_ gets.
message(s) == [hdr |-> s.hdr, buf |-> s.buf]

accept_dt(S, k, fr, fails) ==
  LET s == store(S[k], fr)
  IN  IF fr.seq = s.total
      THEN IF s.bam
           THEN effect(put(S, k, [s EXCEPT !.state = "Completed"]), <<>>, <<message(s)>>)
           ELSE effect(put(S, k, s), bus_send(eom_frame(s), 1, fails), <<message(s)>>)
      ELSE only_sends(put(S, k, s),
                      IF cts_due(s, fr.seq) THEN response_cts(s, fails) ELSE <<>>)

handle_dt(S, self, fr, fails) ==
  LET k == make_key(fr.src, fr.dst)
  IN  IF S[k] = NoSession
      THEN only_sends(S, bus_send(dummy_abort(self, fr, "Rx"), 1, fails))
      ELSE IF dt_in_sequence(S[k], fr) THEN accept_dt(S, k, fr, fails)
      ELSE only_sends(put(S, k, [S[k] EXCEPT !.state = "ABorted"]),
                      bus_send(abort_frame(S[k]), 1, fails))

handle_abort(S, self, fr) ==
  LET k == make_key(self, fr.src)
  IN  nothing(IF S[k] = NoSession THEN S ELSE put(S, k, [S[k] EXCEPT !.state = "ABorted"]))

complete_rx(S, self, fr, fails) ==
  LET k == make_key(fr.src, fr.dst)
  IN  IF S[k] = NoSession
      THEN only_sends(S, bus_send(dummy_abort(self, fr, "Rx"), 1, fails))
      ELSE nothing(put(S, k, [S[k] EXCEPT !.state = "Completed"]))

\* on_can_frame and handle_cm
on_can_frame(S, self, fr, fails) ==
  CASE fr.type = "RTS"   -> start_rx_rts(S, self, fr, fails)
    [] fr.type = "CTS"   -> handle_cts(S, self, fr, fails)
    [] fr.type = "BAM"   -> start_rx_bam(S, fr)
    [] fr.type = "EOM"   -> complete_rx(S, self, fr, fails)
    [] fr.type = "ABORT" -> handle_abort(S, self, fr)
    [] fr.type = "DT"    -> handle_dt(S, self, fr, fails)

\* Seeded fault: a session that is completed is never removed.
tick_keep_completed(S, idle, ks) ==
  only_sends([k \in Key |-> IF k \in idle /\ S[k].state # "Completed" THEN NoSession
                            ELSE S[k]], <<>>)

\* The orders in which the hash map may hold the keys of a finite set.
orders(X) ==
  LET n == Cardinality(X)
  IN  {ks \in [1 .. n -> X] : n \in Nat /\ Range(ks) = X}

\* tick, when the sessions of idle have been idle for longer than their timeout.
\* ks are those whose abort is sent, in the order in which the hash map holds them.
tick(S, idle, ks) ==
  only_sends([k \in Key |-> IF k \in idle THEN NoSession ELSE S[k]],
             [i \in DOMAIN ks |-> abort_frame(S[ks[i]])])
==============================================================================
