# Verification of jay

jay is a header-only C++ library for SAE J1939: address claiming on a CAN bus,
a table of the NAMEs and addresses of the network, a socket connection and the
transport protocol for long messages. This directory holds TLA+ models of its
parts, the TLC configurations that check them and proofs checked by TLAPS.

## The system

| part | source | state | operations | what is hard |
|---|---|---|---|---|
| network | `network.hpp` | `name_addr_map_`, `addr_name_map_` under a mutex | `insert`, `release`, `remove`, `clear`, `find_address`, lookups | the two maps are kept in step by hand; priorities; the limit of 254 addresses |
| address state machine | `address_state_machine.hpp` | one of four states, the addresses being claimed and held | one row per event and guard | guards that read the network while it changes |
| address claimer | `address_claimer.hpp` | a timer, handlers queued in an io_context | `process`, `start_address_claim`, timer handlers | the network learns of a claim before the machine does; one timer for three purposes; claims that cross on the bus |
| transport protocol | `transport_protocol.hpp` | a map of sessions | `send`, `on_can_frame`, `tick` | lost, repeated and late frames; windows; timeouts; 8-bit sequence numbers; sends that fail half way |
| connection | `j1939_connection.hpp` | names, the bus adapter's address, a transport protocol | `send`, `send_to`, the read handler | addresses change between two calls, and between two packets |
| name, header, frame, filters | `name.hpp`, `header.hpp`, `frame.hpp`, `filters.hpp` | one word each | setters, getters, comparisons, conversions | fields side by side in one word; bit 63; PS that belongs to the PGN or not |
| types, data, example | the other files | none | constants, containers, wiring | |

The claimer feeds the claims it hears into the network and posts them to the
state machine. The machine's guards read the network, its callbacks write the
network (`on_address`, `on_address_loss`), arm the timer (`on_begin_claiming`,
`on_cannot_claim`) and hand frames to the application. The connection asks the
network for addresses and hands long messages to the transport protocol.

The properties that make these parts correct: both maps of the network tell the
same story and an address has one holder, chosen by priority; the network and
the state machine agree on the claimer's address up to events that are queued;
a claim comes to an end and a loss is noticed; two nodes do not keep one address;
a message that the transport protocol delivers is the one that was sent, once and
whole, and exchanges end; a connection sends under its own address.

## Modules

| module | models |
|---|---|
| `Addresses` | the address ranges |
| `J1939` | NAMEs as the network sees them |
| `NetworkTable` | the two maps and every operation on them, as operators from table to table |
| `Network` | a network as an object with a listener for new names |
| `AddressStateMachine` | the transition table with guards, actions and the claimer's callbacks |
| `AddressClaimer` | the io_context queue, the timer, calls from the bus and the application |
| `ClaimBus` | two claimers, instances of `AddressClaimer`, on a bus |
| `TransportProtocol` | the session map and every handler, as operators from map and frame to effects |
| `TransportEndpoint` | one transport protocol object that receives any frames |
| `TransportLink` | the two nodes of a pair, their links and numbered messages |
| `TransportPair` | two objects on an unreliable bus |
| `MessageDelivery` | what a transport promises, the abstract specification of `TransportPair` |
| `Connection` | a connection on a changing network, over `NetworkTable` and `TransportProtocol` |
| `Words` | machine words as sets of bits |
| `NameCodec`, `HeaderCodec` | the bit fields of a NAME and of an identifier |
| `FrameCodec` | a NAME and a header put together field by field, and the address frames |
| `*Proofs` | the proofs |

**NAMEs.** A NAME is the number its lower 63 bits hold; bit 63 (self
configurable) is membership in `SelfConfig`. `<`, `>` and `==` of the code mask
bit 63 and are comparisons of the numbers. `<=` does not exist on names, and the
one place that uses it compares the raw integers: `RawLeq`. Two names that
differ in bit 63 only are not distinguished. Only `NameCodec` has all 64 bits.

**Tables.** `name_addr[n] = NO_ADDR` stands for "not in the map"; the code never
stores that value. `addr_name[a] = NoName` likewise. Every operation of the
network holds its mutex from beginning to end and is one step.
`set_idle` keeps what `operator[]` does to a missing key: it creates it with
address 0.

**State machine.** boost::sml is external. A row with a target runs guard,
`on_exit`, row action, `on_entry`; a row without one runs its action; an event
that no row accepts is dropped (`drop`). `process_<event>` has one disjunct
per row and one for the dropped event. `RetryPref` is the preferred address of
the `ev_start_claim{}` the machine is built with: `ev_random_retry` carries no
address, so sml passes that object to `act_set_pref_address`.

**Claimer.** Boost.Asio is external. Handlers run one at a time and in the order
they were posted (one thread calls `run`). `expires_from_now` cancels a pending
wait, whose handler then does nothing; after a wait has expired its handler is
in `queue` and nothing recalls it. Delays are not measured, so a pending wait
may expire at any step. `sent` holds the frames of the last step.

**Transport protocol.** A message is a header and a sequence of packet contents;
bytes inside a packet are not told apart, and a message of up to 8 bytes is one
packet. Sequence numbers are `SeqSize` wide (256 in the code), so the longest
message has `SeqSize - 1` packets and the wrap of `next_seq` is in the model. Packet
number 0 reads in front of the buffer, which is undefined: `Garbage`.
`last_activity` becomes a choice: `tick` finds some set of sessions idle and sends
their aborts in some order, except for those that the bus refuses. A handler makes several attempts to send; `fails` is the set of those that
the bus refuses. `state` of a session is written as in the code; the code never
reads it. The models assume what the handlers assume of a peer: the length and
the packet count of an announcement agree, the window of an RTS is not 0 and a
CTS does not ask for packet 0.

In `TransportEndpoint` the history variables `since` and `open` remember which
packets came after the announcement of a session and which announcements have not
been delivered. In `TransportPair` the wire of a node keeps the order of its
frames, as a CAN bus does for frames of one node and priority; `Lose` and `Repeat`
are faults of the bus. `Window` is what an RTS announces: 255 in jay, less in
devices of other makes, and here small enough that messages need several windows.

**Connection.** Frames carry the kind of PGN that the code distinguishes.
`local_address` is a set because `*local_name_` of an empty optional is undefined.
`holders` is a history variable for `OneSender`. An application that keeps using
its socket has `on_read_`, `on_data_` and `on_error_` set, which the class requires.

**Claim bus.** A node that is switched off does not hear the bus. A node does not
hear itself. `Prompt` restricts a wait to expire when no handler is queued: with
delays of 200 ms and handlers that take microseconds this is the normal case.

Definitions marked "Seeded fault" are faulty variants of the definition that
follows. They belong to no specification; they show that a property
notices the fault.

## Runs

| run | result |
|---|---|
| `network_all` | with all operations: `ListenerCurrent`, `FullMeansNoneAvailable`, `SearchIsComplete` |
| `network_in_use` | with the operations the library calls (no `remove`): `HolderMatches`, `UniqueAddress`, `PriorityWins` |
| `claimer_self_config` | `HolderAgrees`, `NetworkAgrees`, `ClaimCannotStall`; under fairness `LossIsNoticed`, `LostIsLeft`, `ClaimingSettles`, `RequestIsAnswered` |
| `claim_bus` | two nodes: `ConflictIsReported`, `StrongerIsKnown`, `ConflictsEnd` |
| `tp_endpoint` | any frames in any order: `HoldsWhatCame`, `AsksForFirstMissing`, `DeliversOnceAndWhole` |
| `tp_overlap` | reliable bus, messages that replace each other: the pair implements `MessageDelivery` |
| `tp_faults` | one fault, one message at a time on a link: the pair implements `MessageDelivery`; `ExchangesEnd`; `MessagesArrive` when there was no fault |
| `connection` | `SentUnderOwnAddress`, `OneSender` |
| `frame_codec` | `NameFieldsIndependent`, `PriorityFollowsFields`, `HeaderFieldsIndependent`, `AddressingKeepsPgn`, `FiltersMatchPredicates`, `AddressFramesRoundTrip` |

**Bounds.** The network runs use two or three addresses plus IDLE and NO_ADDR, so
that the network becomes full, and three names, so that the claimer meets a
stronger and a weaker one and the network sees moves, conflicts and left-over
entries. `MaxQueue = 2` limits the calls from outside: a third and a fourth handler
still enter the queue from the timer and from handlers. The claim bus has
two addresses, one self configurable and one fixed name and three calls of
`start_address_claim`, so that a node starts again after a loss. The transport runs
have sequence numbers 0 to 3: the longest message wraps, and messages of two and
three packets take one or two windows of two. Two messages and one fault
are what a race between them needs; the session map of one endpoint is bounded by
one session, and the proofs below remove this bound and the others. The connection
has two addresses and two names, so that every address can pass to the other name,
and one session. `frame_codec` sets every field to all zeroes or more ones than it
has bits, in any order.

**Fairness.** Claimer: `WF(RunHandler)`, a thread stays in `io_context::run` and takes
the next handler; `WF(TimerExpires)`, a wait that is not cancelled expires. Nothing is
assumed of the bus and the application. `ClaimingSettles` has the premise that
they fall silent, because stronger names may take one address after the other
for ever. `RequestIsAnswered` has the premise that the application stops calling
`start_address_claim`, because each call cancels the wait that would
send the answer. Claim bus: the same for both nodes, and each reads its
socket. Transport pair: one node or the other goes on, by reading its socket or by
its tick, which `start_tick` arms again each time; nothing is assumed of `send`.

**The abstract specification.** `MessageDelivery` says that on each link from a
sender to a destination (or to all) the messages delivered are among those offered,
unchanged, at most once and in order; messages may be dropped. `TransportPair`
implements it with `offered` and `delivered` mapped to themselves. What makes this
more than bookkeeping is that delivered messages are put together from packets by
`handle_dt`, while the sender's sessions are replaced, revived and timed out.

The two transport runs mark where the promise ends. With overlapping messages
*and* a fault it does not hold: if the RTS of a second message is lost while the CTS
for the first is on its way, the sender answers that CTS with packets of
the second message, and the receiver stores them in the session of the first. With
two faults it fails without overlap: a broadcast that is cut off leaves a session at the
receiver, and if the announcement of the next broadcast is lost too, its packets
continue the old session. Neither CTS nor DT names the message it
belongs to, so this is a limit of the protocol as much as of the code.

### Where code and documentation differ

Three runs end in a counterexample.

| run | what happens |
|---|---|
| `claimer_stuck` | a name that is not self configurable stays in `st_claiming` with no timer |
| `claimer_undefended` | a weaker name's claim of the held address is not answered |
| `tp_largest` | `send` returns false for the longest message although all of it was sent |

The models show more differences that have no run of their own.

Network:
- A name that moved is sent to IDLE by an insert of its old address: `claim` leaves
  the old reverse entry behind (`network.hpp:156`). On the claim bus this makes the
  stronger node forget a weaker one that it drove away, once it inserts its own
  address.
- After `remove`, an insert that meets a left-over entry of the removed name gives that
  name address 0 and erases the reverse entry of address 0, so that `available(0)` is
  true while the address is held (`network.hpp:131`).
- `find_address` offers a name without bit 63 an address held by a name of higher
  priority, because `<=` compares raw integers (`network.hpp:363`).
- `insert` returns true for an unchanged address (`network.hpp:114` says false) and
  `insert(name, J1939_NO_ADDR)` leaves a known name's address alone (lines 109-110
  say it is cleared).

Claimer:
- A request in the start delay cancels the start (`address_claimer.hpp:253`). When two
  nodes start at the same time, the request of each can cancel the start of the other.
- An expired timeout ends the claim of the next address (`address_claimer.hpp:221`).
- `claim_address` sends a claim from address 255 when `find_address` found none.
- A cannot-claim frame whose wait had expired is sent even after a retry has begun a
  new claim. The other node then takes the address for free, and when it claims it
  nobody objects: this is why `ConflictsEnd` is checked with `Prompt`.

Transport protocol:
- The sender's EOM and abort frames bear the address of the peer as their source
  (`transport_protocol.hpp:341`, `:353`); a receiver finds no session for the EOM and
  answers with an abort.
- A late CTS revives a session that was aborted, because `state` is never read.
- `tick` sends an abort for sessions that are completed (`transport_protocol.hpp:164`).
- At delivery the PS byte of a group extension is overwritten with the destination
  (`transport_protocol.hpp:497`).

Connection:
- A name that is not in the network has `J1939_NO_ADDR`; the checks compare with
  `J1939_IDLE_ADDR` only, so frames go out from or to address 255
  (`j1939_connection.hpp:246`, `:267`, `:305`, `:312`; line 293 speaks of addresses that
  are not available).
- Broadcast announcements (BAM) have a PDU1 format. `check_address` takes them for frames
  to address 255 and rejects them when the connection has a local name with an address.
- Long data goes to the PS of its header, not to the target (`j1939_connection.hpp:252`).
- After a read error no further read is queued (`j1939_connection.hpp:355`).

## Proofs

The theorems hold for any number of addresses, names, waiting handlers, packets and
sessions. Assumptions on constants: `MaxUnicast` and the names are natural
numbers, `SelfConfig`, `Heard`, `Local` and `Target` are sets of names, `Self` is a name
(an address for the transport protocol), `RetryPref` an address, `SeqSize` is greater than
2, packet contents are natural numbers. The claim bus and the transport pair have two
nodes. The messages of the pair have from 2 to `SeqSize - 1` packets and its window is from
1 to `SeqSize - 1`.

*Network* (`NetworkProofs`, with lemmas in `NetworkTableProofs`).
`TypeCorrect` comes first. `FullCorrect` compares
the cardinality of the occupied addresses with that of the interval.
`SearchCorrect` shows that the two searches cover the interval.
`HoldersCorrect`, `AddressesUnique` and `PriorityCorrect` rest on the inductive
invariant `MapsAgree`: `HolderMatches` and "every name in the reverse map is in
the forward map". The second part is needed because `set_idle` of an unknown
name erases the entry of address 0; `remove` breaks it, which is
why these theorems are about the specification without `remove`.
`ListenerCorrect` holds with `remove`.

*Claimer* (`ClaimerProofs`). `TypeCorrect`, then `HolderAgreesAlways` and
`NetworkAgreesAlways` from the invariant `Agreement`. Its additional part is
`Exact`: the reverse map shows the claimer's NAME only at its current address.
Without it an insert could send the claimer to IDLE because of a left-over entry and
post a claim of another address than the one it holds. `ClaimNeverStalls`
adds `UnderWay`: if the address being claimed is not claimable any more, the
claim that took it is in the queue. So a timeout that finds neither guard
true still leaves an event that moves the machine on. These three
theorems assume `Self \notin Heard`: no claim with the claimer's own NAME is
received. They hold for names that are not self configurable too, which no run
covers.

*Claim bus* (`ClaimBusProofs`, over `ClaimerProofs` instantiated for each node).
`ConflictAlwaysReported` and `StrongerAlwaysKnown` come from one invariant, `Inv`. For
each node it has `NodeInv`: the agreement above; only unicast addresses are held; the
network holds only names that were heard; and a cannot-claim is in preparation only while
the machine has no claim (`CannotIsTrue`). It follows that a holder whose network shows
its address for another name has the loss in its queue (`KnownIsLoss`). Across the two
nodes it has `Informed`: an address that the stronger node stands by is in the last claim
on its wire; or no claim is on its wire and the weaker node knows the address, or has not
heard of the stronger node and its request is on its way or still to come. The part about the last claim is why the wire has to
keep the order of one node's frames. The theorems have the premise `Prompt = TRUE`:
without it a cannot-claim frame whose wait had expired can follow the claim of a retry,
and the last frame on the wire no longer tells what the node holds. They hold for any
NAMEs, addresses, preferred addresses, number of starts and length of the queue.

*Transport protocol* (`TransportProofs`, with lemmas in the first half of
`TransportProtocolProofs` about sessions, frames and `start_tx`). `TypeCorrect`,
`HoldsCorrect`, `AsksCorrect` and `DeliversCorrect` come from one inductive invariant,
`Sound`: every entry of the map is stored under its own addresses with a buffer of its
announced size; an entry that this node sends from is not one it receives into; a
receiving session holds what came (`HoldsWhatCame`); and a session that can still
accept a packet (`Wanting`) belongs to an announcement that has not been delivered.
The last part is what excludes a second delivery: after the last packet `next_seq` is
either one more than the number of packets, or 0 because it wrapped, and no
number from 1 to the number of packets equals it. Which sends fail and which sessions a
tick finds idle is arbitrary in these theorems.

*Transport pair* (`TransportPairProofs`, with the lemmas about one link and about the
handlers in the second half of `TransportProtocolProofs`). `PairDelivers` says that on a bus without faults
`TransportPair` implements `MessageDelivery`, for any sizes, window, width of the
sequence numbers and number of messages, with sessions that replace each other and
timeouts at any moment. Nothing in a CTS or DT names its message, so
the proof has to show that the order of the frames is enough. Its invariant `PairInv` has
one `LinkOK` for each link, which relates the wire, the sessions at both ends and the
messages offered and delivered:

- `Grouped`: packets on the wire are of the message announced last before them;
- `Fed`: packets in front of all announcements are of the message being received;
- `Sending`: the sender's session is of the message announced last;
- `Ordered`, `Ahead`: announcements are in the order of `send`, and later than what was
  received or delivered;
- `Receiving`: the receiver's session holds the packets in front of `next_seq`, and its
  message is delivered only when none of its numbers is awaited any more.

Two lemmas carry the steps: a sender keeps the invariant when the packets it sends are of
its session (`LinkContinues`), a receiver when it stores a packet or opens a session as the
frame says (`LinkTakes`). The lemmas about the handlers show that each is such a step on
the link of its frame and leaves the other links alone. A CTS that is late still finds a session of the message announced last, because a new `send` puts
its announcement on the wire before any of its packets: `Sending` and `Grouped` cover the
packets it sets off. `PairAlwaysInStep` states the invariant. The premise is
`MaxFaults = 0`; the section on the abstract specification says how the promise fails
with overlapping messages and a fault, so with faults there is only the run `tp_faults`.

*Connection* (`ConnectionProofs`, which uses the lemmas about the network table and
about sessions and frames). `OneSenderCorrect` comes from the invariant `OneSource`:
the maps of the network agree, so a frame that passes `check_address` has the target
and no other name behind its source address. `OwnAddressCorrect` comes from the
invariant `OwnAddress`: every session is stored under its own two addresses (`Keyed`).
`check_address` sets the bus adapter's address before the transport protocol sees the
frame, and a handler looks for its session under that address or under the destination
of the frame, which equals it. So a session that was begun under an earlier address is
not found; all it can send is the abort of its timeout. `Next` sets the local name
before `start`, sends long data only with a local name, and its transport protocol's
writes do not fail; the theorems share these three restrictions. `SentUnderOwnAddress`
is about the frames in `OwnFrame`, not about aborts and EOMs, which carry the addresses
of their session.

*Frames* (the last section of `NetworkProofs`, over `FrameCodec`). An identifier has 29
bits whatever setters are called (`Identifier`). `AddressingCorrect` follows because PS
is outside the bits that tell broadcasts from peer-to-peer frames and outside the PGN of
the latter; `FiltersCorrect` because `pgn()` removes no bit that the mask of a filter
keeps. `NameRoundTrip` and `NameSettersIndependent` are the parts of
`AddressFramesRoundTrip` and `NameFieldsIndependent` that are about bits and not about
numbers: all 64 bits of a NAME survive the payload, and a setter changes no other field.

Model-checked only: the liveness properties (`LossIsNoticed`, `LostIsLeft`,
`ClaimingSettles`, `RequestIsAnswered`, `ConflictsEnd`, `MessagesArrive`, `ExchangesEnd`),
which are out of reach of the prover; the refinement of `MessageDelivery` with a fault,
which holds only within the bounds of `tp_faults`; `AddressFramesRoundTrip`,
`NameFieldsIndependent`, `PriorityFollowsFields` and `HeaderFieldsIndependent`, which
convert between numbers and words by powers of 2 and a sum over the bits, an induction the
prover cannot do (`frame_codec` enumerates them); and the counterexamples.

## Not modelled

- Opening the socket and setting filters (`open`, `set_filter_any`, `set_filter_all`),
  the example program, `to_string`, logging and error callbacks: I/O and text.
- The bytes within a packet and the padding of the last one. A message arrives with
  all of its packets; that its last packet has the right bytes is left to the tests.
- The copying getters of `network` (`get_name_set`, `match` and others), which only read.
- Several threads calling `run` on one io_context, and `process_claim` called from
  another thread than the handlers: the claimer has no lock of its own.
- Announcements whose length and packet count disagree, a window of 0 and a CTS for
  packet 0, for which the handlers have no check.
- Two claimers that share one `network`, and the echo of a node's own claims.

## Plan

1. Two claimers on one `network`.
2. The refinement of `MessageDelivery` with one fault and one message at a time on a link,
   from an invariant that allows for the session a fault leaves behind.
