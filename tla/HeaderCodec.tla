----------------------------- MODULE HeaderCodec -----------------------------
(***************************************************************************)
(* jay::frame_header (header.hpp) with the constants of j1939_type.hpp and *)
(* the filters of filters.hpp: the 29-bit identifier of a frame.  The      *)
(* canary header underneath is external and keeps the 29 bits.             *)
(***************************************************************************)
EXTENDS Words

PF_PDU1_MAX == 239
PF_ADDRESS_CLAIM == 238
PF_REQUEST == 234

\* 0x0EA00, 0x0EE00 and 0x3FF00 as words
J1939_PGN_REQUEST == {9, 11, 13, 14, 15}
J1939_PGN_ADDRESS_CLAIMED == {9, 10, 11, 13, 14, 15}
J1939_PGN_PDU1_MAX == 8 .. 17

J1939_IDLE_ADDR == 254
J1939_NO_ADDR == 255

prio_mask == 26 .. 28
data_page_mask == 24 .. 24
pgn_mask == 8 .. 25
pf_mask == 16 .. 23
ps_mask == 8 .. 15
ad_mask == 0 .. 7

------------------------------------------------------------------------------
(* Setters *)

\* std::clamp(priority, 0, 7)
clamped(prio) == IF prio > 7 THEN 7 ELSE prio

set_priority(h, prio) == (h \ prio_mask) \cup shift_left(bits(clamped(prio), 3), 26)

\* Seeded fault: the PS byte of the earlier PGN is not cleared.
set_pgn_keep_ps(h, v) == (h \ (pgn_mask \ ps_mask)) \cup shift_left(bits(v, 18), 8)

set_pgn(h, v) == (h \ pgn_mask) \cup shift_left(bits(v, 18), 8)

set_data_page(h, b) == (h \ data_page_mask) \cup shift_left(bits(b, 1), 24)

set_pdu_format(h, v) == (h \ pf_mask) \cup shift_left(bits(v, 8), 16)

set_pdu_specific(h, v) == (h \ ps_mask) \cup shift_left(bits(v, 8), 8)

set_source_address(h, v) == (h \ ad_mask) \cup bits(v, 8)

\* The constructor from priority, PGN and source address; the one from single
\* fields puts the PGN together first.  The PGN is not masked.
frame_header(prio, pgn, src) ==
  shift_left(bits(clamped(prio), 3), 26) \cup shift_left(bits(pgn, 21), 8) \cup bits(src, 8)

pgn_of(data_page, pf, ps) == data_page * 65536 + pf * 256 + ps

------------------------------------------------------------------------------
(* Getters *)

priority(h) == number(shift_right(h \cap prio_mask, 26))

data_page(h) == number(shift_right(h \cap data_page_mask, 24))

\* static_cast<std::uint8_t>(id >> 16) and so on
pdu_format(h) == number(shift_right(h, 16) \cap 0 .. 7)
pdu_specific(h) == number(shift_right(h, 8) \cap 0 .. 7)
source_address(h) == number(h \cap 0 .. 7)

is_broadcast(h) == pdu_format(h) > PF_PDU1_MAX

\* Seeded fault: pgn() keeps the destination of a peer-to-peer frame.
get_pgn_with_ps(h) == shift_right(h \cap pgn_mask, 8)

\* pgn(), as a word: the PS belongs to it in broadcasts only.
get_pgn(h) ==
  shift_right((h \cap pgn_mask) \ (IF is_broadcast(h) THEN {} ELSE ps_mask), 8)

is_request(h) == get_pgn(h) \cap J1939_PGN_PDU1_MAX = J1939_PGN_REQUEST
is_claim(h) == get_pgn(h) \cap J1939_PGN_PDU1_MAX = J1939_PGN_ADDRESS_CLAIMED

------------------------------------------------------------------------------
(* Filters.  The kernel compares the bits of the mask. *)

passes(h, id, id_mask) == h \cap id_mask = id \cap id_mask

\* Seeded fault: the mask leaves the data page out.
address_claim_filter_no_page(h) ==
  passes(h, shift_left(J1939_PGN_ADDRESS_CLAIMED, 8), shift_left(8 .. 15, 8))

address_request_filter(h) ==
  passes(h, shift_left(J1939_PGN_REQUEST, 8), shift_left(J1939_PGN_PDU1_MAX, 8))

address_claim_filter(h) ==
  passes(h, shift_left(J1939_PGN_ADDRESS_CLAIMED, 8), shift_left(J1939_PGN_PDU1_MAX, 8))
==============================================================================
