---------------------------- MODULE NetworkProofs ----------------------------
(***************************************************************************)
(* The properties of jay::network, proved for any number of names and      *)
(* addresses.  The last section is about the frames that fill it: however  *)
(* their NAME and header are put together, they keep the NAME and the PGN. *)
(***************************************************************************)
EXTENDS Network, NetworkTableProofs

------------------------------------------------------------------------------
(* Types *)

\* An empty network has its type.
LEMMA TypeInit == Init => TypeOK
BY EmptyTableType DEF Init, TypeOK

\* insert, release, remove and clear keep the types.
LEMMA TypeStep == TypeOK /\ [Next]_vars => TypeOK'
<1>. SUFFICES ASSUME TypeOK, [Next]_vars PROVE TypeOK'
  OBVIOUS
<1>1. ASSUME NEW n \in Name, NEW a \in Address, Insert(n, a)
      PROVE  TypeOK'
  <2>1. notifies(net, n, a) => a \in Unicast
    BY DEF notifies
  <2>. QED
    BY <1>1, <2>1, InsertType DEF TypeOK, Insert
<1>2. ASSUME NEW n \in Name, Release(n)
      PROVE  TypeOK'
  BY <1>2, ReleaseFacts DEF TypeOK, Release
<1>3. ASSUME NEW n \in Name, Remove(n)
      PROVE  TypeOK'
  BY <1>3, RemoveType DEF TypeOK, Remove
<1>4. CASE Clear
  BY <1>4, EmptyTableType DEF TypeOK, Clear
<1>5. CASE UNCHANGED vars
  BY <1>5 DEF TypeOK, vars
<1>. QED
  BY <1>1, <1>2, <1>3, <1>4, <1>5 DEF Next, NextInUse

\* insert, release, remove and clear store only what the maps' types allow.
THEOREM TypeCorrect == Spec => []TypeOK
BY TypeInit, TypeStep, PTL DEF Spec

------------------------------------------------------------------------------
(* Full and the search *)

\* full() and available() agree in every reachable state.
THEOREM FullCorrect == Spec => []FullMeansNoneAvailable
<1>1. TypeOK => FullMeansNoneAvailable
  BY FullFacts DEF TypeOK, FullMeansNoneAvailable, available
<1>. QED
  BY <1>1, TypeCorrect, PTL

\* find_address finds an address for a self configurable name whenever there
\* is one, and never one that another name occupies.
THEOREM SearchCorrect == Spec => []SearchIsComplete
<1>1. TypeOK => SearchIsComplete
  BY FindFreeComplete DEF TypeOK, SearchIsComplete, Usable
<1>. QED
  BY <1>1, TypeCorrect, PTL

------------------------------------------------------------------------------
(* The two maps *)

\* The inductive invariant of the operations in use: the forward map is
\* reflected in the reverse map, and the reverse map names only names of the
\* network.  The second part is what remove breaks: without it set_idle would
\* erase the reverse entry of address 0.
MapsAgree == TypeOK /\ HoldersMatch(net) /\ NamesKnown(net)

\* MapsAgree is preserved by insert, release and clear.
LEMMA MapsAgreeStep == MapsAgree /\ [NextInUse]_vars => MapsAgree'
<1>. SUFFICES ASSUME MapsAgree, [NextInUse]_vars PROVE MapsAgree'
  OBVIOUS
<1>0. net \in Table /\ HoldersMatch(net) /\ NamesKnown(net)
  BY DEF MapsAgree, TypeOK
<1>1. TypeOK'
  BY TypeStep DEF MapsAgree, Next
<1>2. HoldersMatch(net') /\ NamesKnown(net')
  <2>1. ASSUME NEW n \in Name, NEW a \in Address, Insert(n, a)
        PROVE  HoldersMatch(net') /\ NamesKnown(net')
    BY <1>0, <2>1, InsertConsistent DEF Insert
  <2>2. ASSUME NEW n \in Name, Release(n)
        PROVE  HoldersMatch(net') /\ NamesKnown(net')
    BY <1>0, <2>2, ReleaseConsistent DEF Release
  <2>3. CASE Clear
    BY <2>3, EmptyConsistent DEF Clear
  <2>4. CASE UNCHANGED vars
    BY <1>0, <2>4 DEF vars
  <2>. QED
    BY <2>1, <2>2, <2>3, <2>4 DEF NextInUse
<1>. QED
  BY <1>1, <1>2 DEF MapsAgree, HoldersMatch, NamesKnown, occupied, in_network

\* MapsAgree is an invariant of a network in use.
LEMMA MapsAgreeAlways == SpecInUse => []MapsAgree
<1>1. Init => MapsAgree
  BY TypeInit, EmptyConsistent DEF Init, MapsAgree
<1>. QED
  BY <1>1, MapsAgreeStep, PTL DEF SpecInUse

\* While no name is removed, the reverse map knows the holder of every address
\* that the forward map shows.
THEOREM HoldersCorrect == SpecInUse => []HolderMatches
<1>1. MapsAgree => HolderMatches
  BY DEF MapsAgree, HolderMatches
<1>. QED
  BY <1>1, MapsAgreeAlways, PTL

\* While no name is removed, no two names hold the same address.
THEOREM AddressesUnique == SpecInUse => []UniqueAddress
<1>1. MapsAgree => UniqueAddress
  BY DEF MapsAgree, UniqueAddress, HoldersMatch, get_address
<1>. QED
  BY <1>1, MapsAgreeAlways, PTL

------------------------------------------------------------------------------
(* The listener and the priorities *)

\* insert calls on_new_name for every address a name comes to hold, so a
\* listener knows the address of every name that has one.
THEOREM ListenerCorrect == Spec => []ListenerCurrent
<1>1. Init => ListenerCurrent
  BY NoAddrIsAddress DEF Init, ListenerCurrent, EmptyTable, get_address
<1>2. TypeOK /\ ListenerCurrent /\ [Next]_vars => ListenerCurrent'
  <2>. SUFFICES ASSUME TypeOK, ListenerCurrent, [Next]_vars,
                       NEW x \in Name, get_address(net', x) \in Unicast
                PROVE  known'[x] = get_address(net', x)
    BY DEF ListenerCurrent, get_address
  <2>0. net \in Table
    BY DEF TypeOK
  <2>1. ASSUME NEW n \in Name, NEW a \in Address, Insert(n, a)
        PROVE  known'[x] = get_address(net', x)
    <3>1. \/ get_address(net', x) = get_address(net, x)
          \/ x = n /\ a \in Unicast /\ ~outranked(net, n, a) /\ get_address(net', x) = a
      BY <2>0, <2>1, InsertAddresses DEF Insert
    <3>2. CASE notifies(net, n, a)
      <4>1. get_address(net', n) = a
        BY <2>0, <2>1, <3>2, InsertGains DEF Insert, notifies
      <4>. QED
        BY <2>1, <3>1, <3>2, <4>1 DEF Insert, ListenerCurrent, TypeOK
    <3>3. CASE ~notifies(net, n, a)
      BY <2>1, <3>1, <3>3 DEF Insert, ListenerCurrent, notifies
    <3>. QED
      BY <3>2, <3>3
  <2>2. ASSUME NEW n \in Name, Release(n)
        PROVE  known'[x] = get_address(net', x)
    <3>1. release(net, n).name_addr[x] \in {IDLE, net.name_addr[x]}
      BY <2>0, ReleaseFacts
    <3>2. get_address(net', x) = get_address(net, x)
      BY <2>2, <3>1, IdleIsAddress DEF Release, get_address
    <3>. QED
      BY <2>2, <3>2 DEF Release, ListenerCurrent
  <2>3. ASSUME NEW n \in Name, Remove(n)
        PROVE  known'[x] = get_address(net', x)
    <3>1. get_address(net', x) = get_address(net, x)
      BY <2>0, <2>3, EraseFacts, SetAddressFacts, NoAddrIsAddress
         DEF Remove, remove, get_address
    <3>. QED
      BY <2>3, <3>1 DEF Remove, ListenerCurrent
  <2>4. CASE Clear
    BY <2>4, NoAddrIsAddress DEF Clear, EmptyTable, get_address
  <2>5. CASE UNCHANGED vars
    BY <2>5 DEF vars, ListenerCurrent
  <2>. QED
    BY <2>1, <2>2, <2>3, <2>4, <2>5 DEF Next, NextInUse
<1>. QED
  BY <1>1, <1>2, TypeCorrect, PTL DEF Spec

\* A unicast address goes directly only to a name of higher priority.
THEOREM PriorityCorrect == SpecInUse => PriorityWins
<1>. DEFINE Wins == \A n, m \in Name :
                      /\ get_address(net, n) \in Unicast
                      /\ get_address(net', m) = get_address(net, n)
                      /\ get_address(net', n) # get_address(net, n)
                      => m < n
<1>1. MapsAgree /\ [NextInUse]_vars => [Wins]_vars
  <2>. SUFFICES ASSUME MapsAgree, [NextInUse]_vars,
                       NEW n \in Name, NEW m \in Name,
                       get_address(net, n) \in Unicast,
                       get_address(net', m) = get_address(net, n),
                       get_address(net', n) # get_address(net, n)
                PROVE  m < n
    OBVIOUS
  <2>0. net \in Table /\ HoldersMatch(net)
    BY DEF MapsAgree, TypeOK
  <2>1. get_address(net', m) # get_address(net, m)
    BY <2>0 DEF HoldersMatch, get_address
  <2>2. ASSUME NEW k \in Name, NEW a \in Address, Insert(k, a)
        PROVE  m < n
    <3>1. m = k /\ a \in Unicast /\ ~outranked(net, k, a) /\ get_address(net', m) = a
      BY <2>0, <2>1, <2>2, InsertAddresses DEF Insert
    <3>2. net.addr_name[a] = n
      BY <2>0, <3>1 DEF HoldersMatch, get_address
    <3>3. ~(m > n)
      BY <3>1, <3>2, NoNameIsNone DEF outranked, occupied
    <3>4. m # n
      BY <2>1
    <3>. QED
      BY <3>3, <3>4, J1939Assumption
  <2>3. ASSUME NEW k \in Name, Release(k)
        PROVE  m < n
    <3>1. release(net, k).name_addr[m] \in {IDLE, net.name_addr[m]}
      BY <2>0, ReleaseFacts
    <3>. QED
      BY <2>1, <2>3, <3>1, IdleIsAddress DEF Release, get_address
  <2>4. CASE Clear
    BY <2>4, NoAddrIsAddress DEF Clear, EmptyTable, get_address
  <2>5. CASE UNCHANGED vars
    BY <2>1, <2>5 DEF vars
  <2>. QED
    BY <2>2, <2>3, <2>4, <2>5 DEF NextInUse
<1>. QED
  BY <1>1, MapsAgreeAlways, PTL DEF SpecInUse, PriorityWins

------------------------------------------------------------------------------
(* The NAMEs and headers of the frames, as FrameCodec puts them together *)

VARIABLES name, header

FC == INSTANCE FrameCodec

\* The inductive invariant: an identifier has 29 bits.
Identifier == header \subseteq 0 .. 28

\* A value that is cut to w bits and moved up by n lands in bits n to n + w - 1.
LEMMA FieldFacts ==
  ASSUME NEW v, NEW w \in Nat, NEW n \in Nat
  PROVE  /\ FC!bits(v, w) \subseteq 0 .. w - 1
         /\ FC!shift_left(FC!bits(v, w), n) \subseteq n .. n + w - 1
<1>1. FC!bits(v, w) \subseteq 0 .. w - 1
  BY DEF FC!bits
<1>. QED
  BY <1>1 DEF FC!shift_left

\* A default constructed header is empty.
LEMMA IdentifierInit == FC!Init => Identifier
  BY DEF FC!Init, Identifier

\* No setter of a header leaves its 29 bits.
LEMMA IdentifierStep == Identifier /\ [FC!Next]_FC!vars => Identifier'
<1>. SUFFICES ASSUME Identifier, [FC!Next]_FC!vars PROVE Identifier'
  OBVIOUS
<1>1. ASSUME NEW cleared, NEW word \in SUBSET (0 .. 28),
             header' = (header \ cleared) \cup word
      PROVE  Identifier'
  BY <1>1, Zenon DEF Identifier
<1>2. ASSUME NEW v, FC!SetPriority(v) PROVE Identifier'
  <2>1. FC!shift_left(FC!bits(FC!clamped(v), 3), 26) \in SUBSET (0 .. 28)
    BY FieldFacts
  <2>. QED
    BY <1>1, <1>2, <2>1 DEF FC!SetPriority, FC!set_priority
<1>3. ASSUME NEW v PROVE FC!SetPgn(v) \/ FC!SetDataPage(v) => Identifier'
  <2>1. /\ FC!shift_left(FC!bits(v, 18), 8) \in SUBSET (0 .. 28)
        /\ FC!shift_left(FC!bits(v, 1), 24) \in SUBSET (0 .. 28)
    BY FieldFacts
  <2>. QED
    BY <1>1, <2>1 DEF FC!SetPgn, FC!set_pgn, FC!SetDataPage, FC!set_data_page
<1>4. ASSUME NEW v
      PROVE  FC!SetPduFormat(v) \/ FC!SetPduSpecific(v) \/ FC!SetSourceAddress(v) => Identifier'
  <2>1. /\ FC!bits(v, 8) \in SUBSET (0 .. 28)
        /\ FC!shift_left(FC!bits(v, 8), 8) \in SUBSET (0 .. 28)
        /\ FC!shift_left(FC!bits(v, 8), 16) \in SUBSET (0 .. 28)
    BY FieldFacts
  <2>. QED
    BY <1>1, <2>1 DEF FC!SetPduFormat, FC!SetPduSpecific, FC!SetSourceAddress,
                      FC!set_pdu_format, FC!set_pdu_specific, FC!set_source_address
<1>5. CASE UNCHANGED header
  BY <1>5 DEF Identifier
<1>. QED
  BY <1>1, <1>2, <1>3, <1>4, <1>5 DEF FC!Next, FC!vars, FC!SetName

\* The PS byte says neither whether a frame is a broadcast nor, in a peer-to-peer
\* frame, what its PGN is (pgn()).
LEMMA KeepsPgn == Identifier => FC!AddressingKeepsPgn
<1>. SUFFICES ASSUME Identifier, ~FC!is_broadcast(header), NEW ps \in FC!Byte
              PROVE  FC!get_pgn(FC!set_pdu_specific(header, ps)) = FC!get_pgn(header)
  BY DEF FC!AddressingKeepsPgn
<1>. DEFINE h == FC!set_pdu_specific(header, ps)
<1>1. FC!shift_left(FC!bits(ps, 8), 8) \subseteq 8 .. 15
  BY FieldFacts
<1>2. /\ h \subseteq 0 .. 28
      /\ h \ (8 .. 15) = header \ (8 .. 15)
  <2>1. h = (header \ (8 .. 15)) \cup FC!shift_left(FC!bits(ps, 8), 8)
    BY DEF FC!set_pdu_specific, FC!ps_mask
  <2>. HIDE DEF h
  <2>2. FC!shift_left(FC!bits(ps, 8), 8) \subseteq 0 .. 28 /\ h \subseteq 0 .. 28
    <3>1. FC!shift_left(FC!bits(ps, 8), 8) \subseteq 0 .. 28
      BY <1>1
    <3>. QED
      BY <2>1, <3>1, Zenon DEF Identifier
  <2>3. h \ (8 .. 15) = header \ (8 .. 15)
    BY <1>1, <2>1, Zenon
  <2>. QED
    BY <2>2, <2>3
<1>. HIDE DEF h
<1>3. FC!shift_right(h, 16) = FC!shift_right(header, 16)
  <2>1. {c \in h : c >= 16} = {c \in header : c >= 16}
    BY <1>2 DEF Identifier
  <2>. QED
    BY <2>1 DEF FC!shift_right
<1>4. ~FC!is_broadcast(h)
  BY <1>3 DEF FC!is_broadcast, FC!pdu_format
<1>5. (h \cap FC!pgn_mask) \ FC!ps_mask = (header \cap FC!pgn_mask) \ FC!ps_mask
  BY <1>2 DEF Identifier, FC!pgn_mask, FC!ps_mask
<1>. QED
  BY <1>4, <1>5 DEF FC!get_pgn, h

\* A filter for a PGN without PS passes the frames whose PGN under the same mask
\* is the one looked for: pgn() removes no bit that the mask keeps.
LEMMA FilterMatches ==
  ASSUME NEW h, h \subseteq 0 .. 28, NEW word, word \subseteq FC!J1939_PGN_PDU1_MAX
  PROVE  FC!passes(h, FC!shift_left(word, 8), FC!shift_left(FC!J1939_PGN_PDU1_MAX, 8)) <=>
           FC!get_pgn(h) \cap FC!J1939_PGN_PDU1_MAX = word
<1>1. \A b \in 8 .. 17 : b \in FC!get_pgn(h) <=> b + 8 \in h
  <2>. DEFINE cut == IF FC!is_broadcast(h) THEN {} ELSE FC!ps_mask
  <2>1. cut \subseteq 8 .. 15
    BY DEF FC!ps_mask
  <2>2. FC!get_pgn(h) = FC!shift_right((h \cap FC!pgn_mask) \ cut, 8)
    BY DEF FC!get_pgn
  <2>. HIDE DEF cut
  <2>. QED
    BY <2>1, <2>2 DEF FC!shift_right, FC!pgn_mask
<1>2. \A X \in SUBSET (8 .. 17) : FC!shift_left(X, 8) = {b \in 16 .. 25 : b - 8 \in X}
  BY DEF FC!shift_left
<1>3. FC!J1939_PGN_PDU1_MAX = 8 .. 17
  BY DEF FC!J1939_PGN_PDU1_MAX
<1>4. /\ FC!shift_left(FC!J1939_PGN_PDU1_MAX, 8) = 16 .. 25
      /\ FC!shift_left(word, 8) = {b \in 16 .. 25 : b - 8 \in word}
  BY <1>2, <1>3
<1>5. FC!passes(h, FC!shift_left(word, 8), FC!shift_left(FC!J1939_PGN_PDU1_MAX, 8)) <=>
        \A b \in 16 .. 25 : b \in h <=> b - 8 \in word
  BY <1>4 DEF FC!passes
<1>6. FC!get_pgn(h) \cap FC!J1939_PGN_PDU1_MAX = word <=>
        \A b \in 8 .. 17 : b + 8 \in h <=> b \in word
  BY <1>1, <1>3, Zenon
<1>. QED
  BY <1>5, <1>6

\* Both filters and both predicates are of that form.
LEMMA FiltersMatch == Identifier => FC!FiltersMatchPredicates
<1>1. /\ FC!J1939_PGN_REQUEST \subseteq FC!J1939_PGN_PDU1_MAX
      /\ FC!J1939_PGN_ADDRESS_CLAIMED \subseteq FC!J1939_PGN_PDU1_MAX
  BY DEF FC!J1939_PGN_REQUEST, FC!J1939_PGN_ADDRESS_CLAIMED, FC!J1939_PGN_PDU1_MAX
<1>. QED
  BY <1>1, FilterMatches, Zenon DEF Identifier, FC!FiltersMatchPredicates, FC!is_request,
     FC!is_claim, FC!address_request_filter, FC!address_claim_filter

\* The setters leave an identifier within its 29 bits.
LEMMA IdentifierAlways == FC!Spec => []Identifier
  BY IdentifierInit, IdentifierStep, PTL DEF FC!Spec

\* However a header was put together, addressing it to another node keeps the PGN
\* of a peer-to-peer frame (frame_header::pgn, pdu_specific).
THEOREM AddressingCorrect == FC!Spec => []FC!AddressingKeepsPgn
  BY IdentifierAlways, KeepsPgn, PTL

\* However a header was put together, the kernel's filters pass its frame exactly
\* when is_request and is_claim recognise it.
THEOREM FiltersCorrect == FC!Spec => []FC!FiltersMatchPredicates
  BY IdentifierAlways, FiltersMatch, PTL

\* A NAME that is read from the eight bytes it was written to is the same NAME, in
\* all 64 bits: the constructor of jay::name from a payload undoes the conversion.
THEOREM NameRoundTrip ==
  ASSUME NEW n \in SUBSET (0 .. 63)
  PROVE  FC!from_payload(FC!to_payload(n)) = n
<1>. DEFINE byte(i) == FC!shift_left(FC!shift_right(n, 8 * (i - 1)) \cap 0 .. 7, 8 * (i - 1))
<1>1. FC!from_payload(FC!to_payload(n)) = UNION {byte(i) : i \in 1 .. 8}
  BY DEF FC!from_payload, FC!to_payload
<1>2. ASSUME NEW i \in 1 .. 8
      PROVE  byte(i) = {b \in n : b \in 8 * (i - 1) .. 8 * (i - 1) + 7}
  <2>. DEFINE k == 8 * (i - 1)
  <2>1. k \in Nat
    OBVIOUS
  <2>2. byte(i) = FC!shift_left(FC!shift_right(n, k) \cap 0 .. 7, k)
    OBVIOUS
  <2>. HIDE DEF k, byte
  <2>3. FC!shift_right(n, k) \cap 0 .. 7 = {c \in 0 .. 7 : c + k \in n}
    BY <2>1 DEF FC!shift_right
  <2>4. FC!shift_left({c \in 0 .. 7 : c + k \in n}, k) = {b \in n : b \in k .. k + 7}
    <3>1. ASSUME NEW c \in 0 .. 7, c + k \in n
          PROVE  c + k \in {b \in n : b \in k .. k + 7}
      BY <2>1, <3>1
    <3>2. ASSUME NEW b \in n, b \in k .. k + 7
          PROVE  b - k \in {c \in 0 .. 7 : c + k \in n} /\ b = (b - k) + k
      BY <2>1, <3>2
    <3>. QED
      BY <3>1, <3>2, Zenon DEF FC!shift_left
  <2>. QED
    BY <2>2, <2>3, <2>4 DEF k
<1>. HIDE DEF byte
<1>3. \A b \in 0 .. 63 : \E i \in 1 .. 8 : b \in 8 * (i - 1) .. 8 * (i - 1) + 7
  <2>1. ASSUME NEW b \in 0 .. 63
        PROVE  /\ (b \div 8) + 1 \in 1 .. 8
               /\ b \in 8 * (((b \div 8) + 1) - 1) .. 8 * (((b \div 8) + 1) - 1) + 7
    OBVIOUS
  <2>. QED
    BY <2>1
<1>. QED
  BY <1>1, <1>2, <1>3, ZenonT(40)

\* A setter of jay::name changes none of the other fields and not the reserved bit,
\* whatever the NAME was and however large the value is.
THEOREM NameSettersIndependent ==
  ASSUME NEW n, NEW f \in FC!NameField, NEW g \in FC!NameField \ {f}, NEW v
  PROVE  /\ FC!get_field(FC!set_field(n, f, v), g) = FC!get_field(n, g)
         /\ 48 \in FC!set_field(n, f, v) <=> 48 \in n
<1>1. FC!mask(f) \cap FC!mask(g) = {} /\ 48 \notin FC!mask(f)
  BY DEF FC!NameField, FC!mask
<1>2. FC!set_field(n, f, v) \cap FC!mask(g) = n \cap FC!mask(g)
  BY <1>1 DEF FC!set_field, FC!placed
<1>. QED
  BY <1>1, <1>2 DEF FC!get_field, FC!set_field, FC!placed
==============================================================================
