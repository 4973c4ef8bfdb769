------------------------------ MODULE FrameCodec ------------------------------
(***************************************************************************)
(* A NAME and a frame header that are put together with their setters, one *)
(* field at a time, and the frames of frame.hpp made from them.            *)
(***************************************************************************)
EXTENDS NameCodec, HeaderCodec

VARIABLES
  name,     \* a jay::name
  header    \* a jay::frame_header

vars == <<name, header>>

\* J1939_NO_NAME, or a NAME from a payload with the reserved bit 48, which no
\* setter reaches; the identifier of a default constructed header
Init == name \in {{}, {48}} /\ header = {}

------------------------------------------------------------------------------
(* frame.hpp *)

make_address_request(ps) ==
  [header  |-> frame_header(6, pgn_of(0, PF_REQUEST, ps), J1939_IDLE_ADDR),
   payload |-> <<{}, bits(238, 8), {}, {}, {}, {}, {}, {}>>]

make_address_claim(n, address) ==
  [header  |-> frame_header(6, pgn_of(0, PF_ADDRESS_CLAIM, J1939_NO_ADDR), address),
   payload |-> to_payload(n)]

make_cannot_claim(n) == make_address_claim(n, J1939_IDLE_ADDR)

------------------------------------------------------------------------------

\* Numbers that leave field f empty, or fill it and, where the parameter has
\* room for that, overflow it.
NameValue(f) ==
  LET w == Cardinality(mask(f))
  IN  {0, 2^(IF w < param_width(f) THEN w + 1 ELSE w) - 1}

SetName(f, v) == name' = set_field(name, f, v) /\ UNCHANGED header

Priority == {0, 5, 255}
Pgn == {0, 59904, 60928, 65240, 262143}
Format == {0, 234, 238, 239, 240, 255}
Byte == {0, 1, 254, 255}

SetPriority(v) == header' = set_priority(header, v) /\ UNCHANGED name
SetPgn(v) == header' = set_pgn(header, v) /\ UNCHANGED name
SetDataPage(v) == header' = set_data_page(header, v) /\ UNCHANGED name
SetPduFormat(v) == header' = set_pdu_format(header, v) /\ UNCHANGED name
SetPduSpecific(v) == header' = set_pdu_specific(header, v) /\ UNCHANGED name
SetSourceAddress(v) == header' = set_source_address(header, v) /\ UNCHANGED name

\* Neither the NAME nor the header takes part in the other's operations, so
\* their products are not explored.
Next ==
  \/ header = {} /\ \E f \in NameField : \E v \in NameValue(f) : SetName(f, v)
  \/ name = {} /\ \/ \E v \in Priority : SetPriority(v)
                  \/ \E v \in Pgn : SetPgn(v)
                  \/ \E v \in 0 .. 1 : SetDataPage(v)
                  \/ \E v \in Format : SetPduFormat(v)
                  \/ \E v \in Byte : SetPduSpecific(v) \/ SetSourceAddress(v)

Spec == Init /\ [][Next]_vars

------------------------------------------------------------------------------
(* Properties *)

NameFields == [f \in NameField |-> get_field(name, f)]

\* Every setter of a NAME stores its value, cut to the width of the field, and
\* leaves the other fields and the reserved bit alone, whatever was set before;
\* the constructor from all fields gives the same NAME as the setters.
NameFieldsIndependent ==
  [][\A f \in NameField : \A v \in NameValue(f) :
       SetName(f, v) =>
         /\ NameFields' = [NameFields EXCEPT ![f] = v % 2^Cardinality(mask(f))]
         /\ name' = name_of(NameFields') \cup (name \cap {48})]_vars

\* The priority of a NAME follows its fields: raising a field makes the NAME
\* larger (of lower priority), except the self configurable bit, with which it
\* stays equal.
PriorityFollowsFields ==
  [][\A f \in NameField : (\E v \in NameValue(f) : SetName(f, v)) =>
       LET same == f = "slf_cfg_addr" \/ NameFields'[f] = NameFields[f]
       IN  /\ name_equal(name, name') <=> same
           /\ name_less(name, name') <=> ~same /\ NameFields[f] < NameFields'[f]
           /\ name_less(name', name) <=> ~same /\ NameFields[f] > NameFields'[f]]_vars

HeaderFields ==
  [prio |-> priority(header), page |-> data_page(header), pf |-> pdu_format(header),
   ps |-> pdu_specific(header), src |-> source_address(header), reserved |-> 25 \in header]

\* Every setter of a header changes its own bits and no others; pgn sets the
\* reserved bit, data page, PF and PS together.
HeaderFieldsIndependent ==
  [][/\ \A v \in Priority : SetPriority(v) =>
          HeaderFields' = [HeaderFields EXCEPT !.prio = clamped(v)]
     /\ \A v \in Pgn : SetPgn(v) =>
          HeaderFields' = [HeaderFields EXCEPT
                             !.reserved = (v >= 131072), !.page = (v \div 65536) % 2,
                             !.pf = (v \div 256) % 256, !.ps = v % 256]
     /\ \A v \in 0 .. 1 : SetDataPage(v) => HeaderFields' = [HeaderFields EXCEPT !.page = v]
     /\ \A v \in Format : SetPduFormat(v) => HeaderFields' = [HeaderFields EXCEPT !.pf = v]
     /\ \A v \in Byte : SetPduSpecific(v) => HeaderFields' = [HeaderFields EXCEPT !.ps = v]
     /\ \A v \in Byte : SetSourceAddress(v) => HeaderFields' = [HeaderFields EXCEPT !.src = v]
    ]_vars

\* Address a peer-to-peer frame to any node and its PGN is still the same, as
\* send_to and the delivery of a transport session rely on when they set PS.
AddressingKeepsPgn ==
  ~is_broadcast(header) =>
    \A ps \in Byte : get_pgn(set_pdu_specific(header, ps)) = get_pgn(header)

\* The kernel filters pass exactly the frames that is_request and is_claim
\* recognise, with the data page and the reserved bit in any position.
FiltersMatchPredicates ==
  /\ address_request_filter(header) <=> is_request(header)
  /\ address_claim_filter(header) <=> is_claim(header)

\* What the claimer reads from an address frame is what the sender put in: the
\* kind of frame, the address and all 64 bits of the NAME.
AddressFramesRoundTrip ==
  \A a \in Byte :
    LET claim   == make_address_claim(name, a)
        request == make_address_request(a)
    IN  /\ is_claim(claim.header) /\ ~is_request(claim.header)
        /\ source_address(claim.header) = a
        /\ from_payload(claim.payload) = name
        /\ is_request(request.header) /\ ~is_claim(request.header)
        /\ pdu_specific(request.header) = a
        /\ source_address(make_cannot_claim(name).header) = J1939_IDLE_ADDR
==============================================================================
