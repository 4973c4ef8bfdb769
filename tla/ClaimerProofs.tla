---------------------------- MODULE ClaimerProofs ----------------------------
(***************************************************************************)
(* Properties of jay::address_claimer, proved for any number of names,     *)
(* addresses and waiting handlers.                                         *)
(***************************************************************************)
EXTENDS AddressClaimer, NetworkTableProofs

------------------------------------------------------------------------------
(* The queue of handlers *)

\* Posting a handler adds it to the queue and removes none.
LEMMA AppendFacts ==
  ASSUME NEW q \in Seq(Handler), NEW h \in Handler
  PROVE  /\ Append(q, h) \in Seq(Handler)
         /\ Range(Append(q, h)) = Range(q) \cup {h}
<1>1. Append(q, h) \in Seq(Handler)
  OBVIOUS
<1>2. /\ Len(Append(q, h)) = Len(q) + 1
      /\ \A i \in 1 .. Len(q) : Append(q, h)[i] = q[i]
      /\ Append(q, h)[Len(q) + 1] = h
  OBVIOUS
<1>3. /\ Range(Append(q, h)) = {Append(q, h)[i] : i \in 1 .. Len(q) + 1}
      /\ Range(q) = {q[i] : i \in 1 .. Len(q)}
  BY <1>1, <1>2 DEF Range
<1>4. Len(q) \in Nat
  OBVIOUS
<1>. QED
  BY <1>1, <1>2, <1>3, <1>4

\* The first handler leaves the queue, the others stay.
LEMMA TailFacts ==
  ASSUME NEW q \in Seq(Handler), q # <<>>
  PROVE  /\ Head(q) \in Handler
         /\ Tail(q) \in Seq(Handler)
         /\ Range(q) \subseteq {Head(q)} \cup Range(Tail(q))
<1>1. /\ Head(q) \in Handler
      /\ Tail(q) \in Seq(Handler)
      /\ Len(Tail(q)) = Len(q) - 1
      /\ DOMAIN q = 1 .. Len(q) /\ DOMAIN Tail(q) = 1 .. Len(q) - 1
      /\ \A i \in 1 .. Len(Tail(q)) : Tail(q)[i] = q[i + 1]
  OBVIOUS
<1>2. /\ Range(Tail(q)) = {Tail(q)[i] : i \in 1 .. Len(q) - 1}
      /\ Range(q) = {q[i] : i \in 1 .. Len(q)}
  BY <1>1, Zenon DEF Range
<1>3. Len(q) \in Nat /\ Head(q) = q[1]
  OBVIOUS
<1>4. ASSUME NEW i \in 1 .. Len(q)
      PROVE  q[i] \in {Head(q)} \cup Range(Tail(q))
  <2>1. CASE i = 1
    BY <1>3, <2>1
  <2>2. CASE i # 1
    <3>1. i - 1 \in 1 .. Len(q) - 1 /\ Tail(q)[i - 1] = q[i]
      BY <1>1, <1>3, <2>2
    <3>. QED
      BY <1>2, <3>1, ZenonT(40)
  <2>. QED
    BY <2>1, <2>2
<1>. QED
  BY <1>1, <1>2, <1>4

------------------------------------------------------------------------------
(* Types *)

\* The events the claimer posts and the timer callbacks are handlers.
LEMMA EventTypes ==
  /\ Restart \in Handler /\ Timeout \in Handler
  /\ CannotClaim \in Handler /\ RandomRetry \in Handler
  /\ \A a \in Address : StartClaim(a) \in Handler /\ AddressRequest(a) \in Handler
  /\ \A m \in Name, a \in Address : AddressClaim(m, a) \in Handler
BY NoAddrIsAddress
   DEF Handler, ev, Restart, Timeout, CannotClaim, RandomRetry, StartClaim,
       AddressRequest, AddressClaim

\* The frames the state machine sends are frames.
LEMMA FrameTypes ==
  /\ cannot_claim_frame \in Frame /\ request_frame \in Frame
  /\ \A a \in Address : claim_frame(a) \in Frame
BY IdleIsAddress DEF Frame, cannot_claim_frame, request_frame, claim_frame

\* The constructor's state has its type.
LEMMA TypeInit == Init => TypeOK
BY EmptyTableType, NoAddrIsAddress DEF Init, TypeOK, State

\* The part of TypeOK that the state machine writes.
MachineTypeOK ==
  /\ st \in State
  /\ claiming \in Address
  /\ has_address \in Address
  /\ net \in Table
  /\ timer \in Handler \cup {NoTimer}
  /\ sent \in Seq(Frame)

\* An event that no row accepts keeps the types.
LEMMA DropType == MachineTypeOK /\ drop => MachineTypeOK'
BY DEF MachineTypeOK, drop, machine

\* A row that only sends cannot-claim keeps the types.
LEMMA RefuseType == MachineTypeOK /\ refuse => MachineTypeOK'
BY EventTypes DEF MachineTypeOK, refuse, send_cannot_claim, machine

\* A row that only sends a claim keeps the types.
LEMMA ReplyType ==
  ASSUME MachineTypeOK, NEW a \in Address, reply(claim_frame(a))
  PROVE  MachineTypeOK'
<1>1. claim_frame(a) \in Frame
  BY FrameTypes
<1>. QED
  BY <1>1 DEF MachineTypeOK, reply, machine

\* Entering st_no_address sends well-typed frames.
LEMMA EnterNoAddressType == enter_no_address => st' \in State /\ sent' \in Seq(Frame)
<1>1. <<>> \in Seq(Frame) /\ <<request_frame>> \in Seq(Frame)
  BY FrameTypes
<1>. QED
  BY <1>1 DEF enter_no_address, State

\* begin_claiming_address claims an address of its type.
LEMMA BeginClaimingType ==
  ASSUME NEW t \in Table, NEW pref \in Address, begin_claiming_address(t, pref)
  PROVE  claiming' \in Address /\ timer' \in Handler /\ sent' \in Seq(Frame)
<1>1. find_address(t, Self, pref) \in Address
  BY FindAddressType, UnicastIsAddress, NoAddrIsAddress, SelfAssumption
<1>2. claim_frame(find_address(t, Self, pref)) \in Frame
  BY <1>1, FrameTypes
<1>. QED
  BY <1>1, <1>2, EventTypes DEF begin_claiming_address

\* Entering st_claiming keeps the types.
LEMMA EnterClaimingType ==
  ASSUME NEW t \in Table, NEW pref \in Address, enter_claiming(t, pref)
  PROVE  st' \in State /\ claiming' \in Address /\ timer' \in Handler /\ sent' \in Seq(Frame)
BY BeginClaimingType DEF enter_claiming, State

\* Entering st_address_lost keeps the types.
LEMMA EnterLostType ==
  enter_address_lost => st' \in State /\ timer' \in Handler /\ sent' \in Seq(Frame)
BY EventTypes DEF enter_address_lost, send_cannot_claim, State

\* The row for ev_restart keeps the types.
LEMMA RestartType == MachineTypeOK /\ process_restart => MachineTypeOK'
<1>. SUFFICES ASSUME MachineTypeOK, process_restart PROVE MachineTypeOK'
  OBVIOUS
<1>1. CASE enter_no_address /\ UNCHANGED <<claiming, has_address, net, timer>>
  BY <1>1, EnterNoAddressType DEF MachineTypeOK
<1>. QED
  BY <1>1, DropType DEF process_restart

\* The rows for ev_start_claim keep the types.
LEMMA StartClaimType ==
  ASSUME MachineTypeOK, NEW pref \in Address, process_start_claim(pref)
  PROVE  MachineTypeOK'
<1>1. CASE enter_claiming(net, pref) /\ UNCHANGED <<has_address, net>>
  BY <1>1, EnterClaimingType DEF MachineTypeOK
<1>. QED
  BY <1>1, RefuseType, DropType DEF process_start_claim

\* The rows for ev_address_claim keep the types.
LEMMA AddressClaimType ==
  ASSUME MachineTypeOK, NEW m, NEW a, process_address_claim(m, a)
  PROVE  MachineTypeOK'
<1>0. claiming \in Address /\ has_address \in Address /\ net \in Table
  BY DEF MachineTypeOK
<1>1. release(net, Self) \in Table
  BY <1>0, ReleaseFacts, SelfAssumption
<1>2. CASE begin_claiming_address(net, claiming) /\ UNCHANGED <<st, has_address, net>>
  BY <1>2, BeginClaimingType DEF MachineTypeOK
<1>3. CASE enter_address_lost /\ UNCHANGED <<claiming, has_address, net>>
  BY <1>3, EnterLostType DEF MachineTypeOK
<1>4. CASE /\ net' = release(net, Self)
           /\ enter_claiming(release(net, Self), has_address)
           /\ UNCHANGED has_address
  BY <1>1, <1>4, EnterClaimingType DEF MachineTypeOK
<1>5. CASE /\ net' = release(net, Self)
           /\ enter_address_lost
           /\ UNCHANGED <<claiming, has_address>>
  BY <1>1, <1>5, EnterLostType DEF MachineTypeOK
<1>. QED
  BY <1>0, <1>2, <1>3, <1>4, <1>5, ReplyType, DropType
     DEF process_address_claim, process_claim_while_claiming, process_claim_while_holding,
         leave_has_address

\* The rows for ev_address_request keep the types.
LEMMA AddressRequestType ==
  ASSUME MachineTypeOK, NEW dst, process_address_request(dst)
  PROVE  MachineTypeOK'
<1>1. claiming \in Address /\ has_address \in Address
  BY DEF MachineTypeOK
<1>. QED
  BY <1>1, ReplyType, RefuseType, DropType DEF process_address_request

\* The rows for ev_timeout keep the types.
LEMMA TimeoutType == MachineTypeOK /\ process_timeout => MachineTypeOK'
<1>. SUFFICES ASSUME MachineTypeOK, process_timeout PROVE MachineTypeOK'
  OBVIOUS
<1>1. CASE /\ st' = "has_address"
           /\ has_address' = claiming
           /\ net' = insert(net, Self, claiming)
           /\ sent' = <<>>
           /\ UNCHANGED <<claiming, timer>>
  <2>1. insert(net, Self, claiming) \in Table
    BY InsertType, SelfAssumption DEF MachineTypeOK
  <2>. QED
    BY <1>1, <2>1 DEF MachineTypeOK, State
<1>2. CASE enter_no_address /\ UNCHANGED <<claiming, has_address, net, timer>>
  BY <1>2, EnterNoAddressType DEF MachineTypeOK
<1>. QED
  BY <1>1, <1>2, DropType DEF process_timeout, enter_has_address

\* The rows for ev_random_retry keep the types.
LEMMA RandomRetryType == MachineTypeOK /\ process_random_retry => MachineTypeOK'
<1>. SUFFICES ASSUME MachineTypeOK, process_random_retry PROVE MachineTypeOK'
  OBVIOUS
<1>1. CASE enter_claiming(net, RetryPref) /\ UNCHANGED <<has_address, net>>
  BY <1>1, EnterClaimingType, SelfAssumption DEF MachineTypeOK
<1>2. CASE send_cannot_claim /\ enter_no_address /\ UNCHANGED <<claiming, has_address, net>>
  BY <1>2, EnterNoAddressType, EventTypes DEF MachineTypeOK, send_cannot_claim
<1>. QED
  BY <1>1, <1>2, DropType DEF process_random_retry

\* Every entry point, timer expiry and handler keeps the types.
LEMMA TypeStep == TypeOK /\ [Next]_vars => TypeOK'
<1>. SUFFICES ASSUME TypeOK, [Next]_vars PROVE TypeOK'
  OBVIOUS
<1>0. MachineTypeOK /\ queue \in Seq(Handler)
  BY DEF TypeOK, MachineTypeOK
<1>1. ASSUME NEW m \in Heard, NEW a \in Address, process_claim(m, a)
      PROVE  TypeOK'
  <2>1. insert(net, m, a) \in Table
    BY <1>0, InsertType, ClaimerAssumption DEF MachineTypeOK
  <2>2. Append(queue, AddressClaim(m, a)) \in Seq(Handler)
    BY <1>0, EventTypes, AppendFacts, ClaimerAssumption
  <2>. QED
    BY <1>0, <1>1, <2>1, <2>2 DEF process_claim, post, TypeOK, machine
<1>2. ASSUME NEW dst \in Address, process_request(dst)
      PROVE  TypeOK'
  <2>1. Append(queue, AddressRequest(dst)) \in Seq(Handler)
    BY <1>0, EventTypes, AppendFacts
  <2>. QED
    BY <1>0, <1>2, <2>1 DEF process_request, post, TypeOK, machine
<1>3. ASSUME NEW pref \in Address, start_address_claim(pref)
      PROVE  TypeOK'
  <2>1. Append(queue, Restart) \in Seq(Handler) /\ StartClaim(pref) \in Handler
    BY <1>0, EventTypes, AppendFacts
  <2>. QED
    BY <1>0, <1>3, <2>1 DEF start_address_claim, post, TypeOK, machine
<1>4. CASE TimerExpires
  <2>1. Append(queue, timer) \in Seq(Handler)
    BY <1>0, <1>4, AppendFacts DEF TimerExpires, MachineTypeOK
  <2>. QED
    BY <1>0, <1>4, <2>1 DEF TimerExpires, post, TypeOK, machine
<1>5. CASE RunHandler
  <2>. DEFINE h == Head(queue)
  <2>0. queue # <<>>
    BY <1>5 DEF RunHandler
  <2>1. h \in Handler /\ Tail(queue) \in Seq(Handler)
    BY <1>0, <2>0, TailFacts
  <2>2. h.addr \in Address
    BY <2>1 DEF Handler
  <2>3. CASE cannot_claim_handler
    <3>1. Append(Tail(queue), RandomRetry) \in Seq(Handler)
      BY <2>1, EventTypes, AppendFacts
    <3>2. <<cannot_claim_frame>> \in Seq(Frame)
      BY FrameTypes
    <3>. QED
      BY <2>3, <2>1, <3>1, <3>2 DEF cannot_claim_handler, TypeOK, machine
  <2>4. CASE queue' = Tail(queue) /\ MachineTypeOK'
    BY <2>1, <2>4 DEF MachineTypeOK, TypeOK
  <2>. HIDE DEF h
  <2>5. \/ cannot_claim_handler
        \/ /\ queue' = Tail(queue)
           /\ \/ process_restart
              \/ process_start_claim(h.addr)
              \/ process_address_claim(h.name, h.addr)
              \/ process_address_request(h.addr)
              \/ process_timeout
              \/ process_random_retry
    BY <1>5 DEF RunHandler, h
  <2>. QED
    BY <1>0, <2>2, <2>3, <2>4, <2>5, RestartType, StartClaimType, AddressClaimType,
       AddressRequestType, TimeoutType, RandomRetryType
<1>6. CASE UNCHANGED vars
  BY <1>6 DEF TypeOK, vars
<1>. QED
  BY <1>1, <1>2, <1>3, <1>4, <1>5, <1>6 DEF Next, Environment, Start

\* The claimer's variables, its queue and the network keep their types.
THEOREM TypeCorrect == Spec => []TypeOK
BY TypeInit, TypeStep, PTL DEF Spec

------------------------------------------------------------------------------
(* The network and the state machine agree *)

\* A handler that takes address a from a machine that claims or holds it.
IsLoss(h, a) == h.type = "claim" /\ h.addr = a /\ ~address_priority(h.name)

LossIn(q, a) == \E h \in Range(q) : IsLoss(h, a)

\* LossIn is LossQueued with the queue as a parameter.
LEMMA LossQueuedIsLossIn == \A a : LossQueued(a) <=> LossIn(queue, a)
BY DEF LossQueued, LossIn, IsLoss

\* Posting a handler keeps the losing claims that are queued.
LEMMA LossAppended ==
  ASSUME NEW q \in Seq(Handler), NEW h \in Handler, NEW a, LossIn(q, a) \/ IsLoss(h, a)
  PROVE  LossIn(Append(q, h), a)
BY AppendFacts DEF LossIn

\* Running a handler that is no losing claim keeps those behind it.
LEMMA LossKept ==
  ASSUME NEW q \in Seq(Handler), q # <<>>, NEW a, LossIn(q, a), ~IsLoss(Head(q), a)
  PROVE  LossIn(Tail(q), a)
BY TailFacts DEF LossIn

\* The inductive invariant.  That claims carrying the claimer's own NAME are not
\* heard is a premise: such a claim changes the network behind the machine's
\* back.  Exact is what makes HolderAgrees inductive: an insert that sends Self
\* to IDLE because of a reverse entry left over from an earlier address would
\* post a claim of that address, not of the one the machine holds.
Agreement ==
  /\ Self \notin Heard
  /\ TypeOK
  /\ HoldersMatch(net) /\ NamesKnown(net) /\ Exact(net, Self)
  /\ NetworkAgrees
  /\ HolderAgrees

\* A step that leaves the network and the held address alone.
Quiet ==
  /\ net' = net
  /\ has_address' = has_address
  /\ st' = "has_address" <=> st = "has_address"

\* A step that touches neither the network nor st_has_address keeps Agreement
\* as long as the losing claims stay queued.
LEMMA QuietAgrees ==
  ASSUME Agreement, TypeOK', Quiet,
         st = "has_address" /\ LossIn(queue, has_address) => LossIn(queue', has_address)
  PROVE  Agreement'
<1>1. HoldersMatch(net)' /\ NamesKnown(net)' /\ Exact(net, Self)'
  BY DEF Agreement, Quiet, HoldersMatch, NamesKnown, Exact, occupied, in_network, get_address
<1>2. NetworkAgrees'
  BY DEF Agreement, Quiet, NetworkAgrees, get_address
<1>3. HolderAgrees'
  <2>. SUFFICES ASSUME st' = "has_address"
                PROVE  \/ get_address(net', Self) = has_address'
                       \/ LossIn(queue', has_address')
    BY DEF HolderAgrees, LossQueued, LossIn, IsLoss, get_address
  <2>. QED
    BY LossQueuedIsLossIn DEF Agreement, Quiet, HolderAgrees
<1>. QED
  BY <1>1, <1>2, <1>3 DEF Agreement

\* The events that neither gain nor lose an address are quiet.
LEMMA QuietEvents ==
  /\ process_restart => Quiet
  /\ \A pref : process_start_claim(pref) => Quiet
  /\ \A dst : process_address_request(dst) => Quiet
  /\ process_random_retry => Quiet
  /\ \A m, a : process_claim_while_claiming(m, a) /\ st = "claiming" => Quiet
  /\ drop => Quiet
<1>. USE DEF Quiet, machine
<1>1. drop => Quiet
  BY DEF drop
<1>2. refuse => Quiet
  BY DEF refuse
<1>3. \A f : reply(f) => Quiet
  BY DEF reply
<1>. HIDE DEF Quiet
<1>4. process_restart => Quiet
  BY <1>1 DEF process_restart, enter_no_address, Quiet
<1>5. \A pref : process_start_claim(pref) => Quiet
  BY <1>1, <1>2 DEF process_start_claim, enter_claiming, Quiet
<1>6. \A dst : process_address_request(dst) => Quiet
  BY <1>1, <1>2, <1>3 DEF process_address_request
<1>7. process_random_retry => Quiet
  BY <1>1 DEF process_random_retry, enter_claiming, enter_no_address, Quiet
<1>8. \A m, a : process_claim_while_claiming(m, a) /\ st = "claiming" => Quiet
  BY <1>1, <1>3 DEF process_claim_while_claiming, enter_address_lost, Quiet
<1>. QED
  BY <1>1, <1>4, <1>5, <1>6, <1>7, <1>8

\* The three ways in which the machine's address and the network's change.
LEMMA ReleaseAgrees ==
  ASSUME Agreement, TypeOK', net' = release(net, Self), st' # "has_address"
  PROVE  Agreement'
<1>1. net \in Table /\ Self \in Name
  BY SelfAssumption DEF Agreement, TypeOK
<1>2. /\ HoldersMatch(net') /\ NamesKnown(net') /\ Exact(net', Self)
      /\ get_address(net', Self) \notin Unicast
  BY <1>1, ReleaseConsistent, ReleaseExact DEF Agreement
<1>3. HoldersMatch(net)' /\ NamesKnown(net)' /\ Exact(net, Self)'
  BY <1>2 DEF HoldersMatch, NamesKnown, Exact, occupied, in_network, get_address
<1>4. NetworkAgrees' /\ HolderAgrees'
  BY <1>2 DEF NetworkAgrees, HolderAgrees, get_address
<1>. QED
  BY <1>3, <1>4 DEF Agreement

\* valid_address has two alternatives; a machine that is claiming has no address
\* in the network, so that it is the first that holds.
LEMMA ValidIsClaimable ==
  ASSUME Agreement, st = "claiming", valid_address
  PROVE  claimable(net, claiming, Self)
<1>1. get_address(net, Self) \notin Unicast
  BY DEF Agreement, NetworkAgrees
<1>2. get_address(net, Self) \in Address
  BY SelfAssumption DEF Agreement, TypeOK, Table, get_address
<1>. QED
  BY <1>1, <1>2, J1939Assumption DEF valid_address, Address, Unicast, IDLE, NO_ADDR

\* Gaining the claimed address when the timeout fires keeps Agreement.
LEMMA GainAgrees ==
  ASSUME Agreement, TypeOK', st = "claiming", valid_address,
         st' = "has_address", has_address' = claiming, net' = insert(net, Self, claiming)
  PROVE  Agreement'
<1>1. net \in Table /\ Self \in Name /\ claiming \in Address
  BY SelfAssumption DEF Agreement, TypeOK
<1>2. get_address(net, Self) \notin Unicast
  BY DEF Agreement, NetworkAgrees
<1>3. claimable(net, claiming, Self)
  BY ValidIsClaimable
<1>4. /\ HoldersMatch(net') /\ NamesKnown(net') /\ Exact(net', Self)
      /\ get_address(net', Self) = claiming
  BY <1>1, <1>2, <1>3, InsertConsistent, InsertClaimable DEF Agreement
<1>5. HoldersMatch(net)' /\ NamesKnown(net)' /\ Exact(net, Self)'
  BY <1>4 DEF HoldersMatch, NamesKnown, Exact, occupied, in_network, get_address
<1>6. NetworkAgrees' /\ HolderAgrees'
  BY <1>4 DEF NetworkAgrees, HolderAgrees, get_address
<1>. QED
  BY <1>5, <1>6 DEF Agreement

\* A claim heard from another name keeps Agreement: when it takes the address
\* of Self in the network, the event that says so is posted in the same step.
LEMMA HeardAgrees ==
  ASSUME Agreement, TypeOK', NEW m \in Heard, NEW a \in Address, process_claim(m, a)
  PROVE  Agreement'
<1>1. /\ net \in Table /\ Self \in Name /\ m \in Name /\ m # Self
      /\ queue \in Seq(Handler) /\ AddressClaim(m, a) \in Handler
  BY SelfAssumption, ClaimerAssumption, EventTypes DEF Agreement, TypeOK
<1>2. net' = insert(net, m, a) /\ UNCHANGED <<st, has_address>>
  BY DEF process_claim, machine
<1>3. HoldersMatch(net') /\ NamesKnown(net')
  BY <1>1, <1>2, InsertConsistent DEF Agreement
<1>4. /\ Exact(net', Self)
      /\ \/ get_address(net', Self) = get_address(net, Self)
         \/ /\ get_address(net', Self) = IDLE
            /\ a = get_address(net, Self)
            /\ inserted(net, m, a)
            /\ ~(Self < m)
  BY <1>1, <1>2, InsertOther DEF Agreement
<1>5. HoldersMatch(net)' /\ NamesKnown(net)' /\ Exact(net, Self)'
  BY <1>3, <1>4 DEF HoldersMatch, NamesKnown, Exact, occupied, in_network, get_address
<1>6. NetworkAgrees'
  BY <1>2, <1>4, IdleIsAddress DEF Agreement, NetworkAgrees, get_address
<1>7. HolderAgrees'
  <2>. SUFFICES ASSUME st' = "has_address"
                PROVE  \/ get_address(net', Self) = has_address'
                       \/ LossIn(queue', has_address')
    BY DEF HolderAgrees, LossQueued, LossIn, IsLoss, get_address
  <2>1. get_address(net, Self) = has_address \/ LossIn(queue, has_address)
    BY <1>2, LossQueuedIsLossIn DEF Agreement, HolderAgrees
  <2>2. CASE LossIn(queue, has_address)
    BY <1>1, <1>2, <2>2, LossAppended, ZenonT(40) DEF process_claim, post
  <2>3. CASE get_address(net, Self) = has_address /\ get_address(net', Self) # has_address
    <3>1. queue' = Append(queue, AddressClaim(m, a)) /\ a = has_address
      BY <1>4, <2>3 DEF process_claim, post
    <3>2. IsLoss(AddressClaim(m, a), a)
      BY <1>4, <2>3 DEF IsLoss, AddressClaim, ev, address_priority
    <3>. QED
      BY <1>1, <1>2, <3>1, <3>2, LossAppended
  <2>. QED
    BY <1>2, <2>1, <2>2, <2>3
<1>. QED
  BY <1>5, <1>6, <1>7 DEF Agreement

\* Every handler keeps the agreement.
LEMMA HandlerAgrees == Agreement /\ TypeOK' /\ RunHandler => Agreement'
<1>. SUFFICES ASSUME Agreement, TypeOK', RunHandler PROVE Agreement'
  OBVIOUS
<1>. DEFINE h == Head(queue)
<1>1. queue # <<>> /\ queue \in Seq(Handler) /\ Tail(queue) \in Seq(Handler)
  BY TailFacts DEF RunHandler, Agreement, TypeOK
<1>2. ASSUME ~IsLoss(h, has_address), LossIn(queue, has_address)
      PROVE  LossIn(Tail(queue), has_address)
  BY <1>1, <1>2, LossKept
<1>3. CASE h.type = "cannot" /\ cannot_claim_handler
  <2>1. Quiet
    BY <1>3 DEF cannot_claim_handler, Quiet, machine
  <2>2. LossIn(queue, has_address) => LossIn(queue', has_address)
    BY <1>1, <1>2, <1>3, LossAppended, EventTypes, ZenonT(40) DEF cannot_claim_handler, IsLoss
  <2>. QED
    BY <2>1, <2>2, QuietAgrees
<1>4. CASE /\ queue' = Tail(queue)
           /\ h.type # "claim"
           /\ Quiet
  BY <1>2, <1>4, QuietAgrees DEF IsLoss
<1>5. CASE queue' = Tail(queue) /\ h.type = "claim" /\ process_address_claim(h.name, h.addr)
  <2>1. CASE st # "has_address"
    <3>1. Quiet
      BY <1>5, <2>1, QuietEvents DEF process_address_claim
    <3>. QED
      BY <2>1, <3>1, QuietAgrees
  <2>2. CASE st = "has_address" /\ ~IsLoss(h, has_address)
    <3>1. Quiet
      BY <1>5, <2>2, QuietEvents
         DEF process_address_claim, process_claim_while_holding, claimed_loss, claimed_failure,
             address_change_required, IsLoss, reply, Quiet, machine
    <3>. QED
      BY <1>2, <1>5, <2>2, <3>1, QuietAgrees
  <2>3. CASE st = "has_address" /\ IsLoss(h, has_address)
    <3>1. net' = release(net, Self) /\ st' # "has_address"
      BY <1>5, <2>3
         DEF process_address_claim, process_claim_while_holding, claimed_priority, IsLoss,
             leave_has_address, enter_claiming, enter_address_lost
    <3>. QED
      BY <3>1, ReleaseAgrees
  <2>. QED
    BY <2>1, <2>2, <2>3
<1>6. CASE queue' = Tail(queue) /\ h.type = "timeout" /\ process_timeout
  <2>1. CASE st = "claiming" /\ valid_address
    <3>1. ~no_valid_address
      BY <2>1, J1939Assumption DEF no_valid_address, valid_address, IDLE
    <3>2. /\ st' = "has_address"
          /\ has_address' = claiming
          /\ net' = insert(net, Self, claiming)
      BY <1>6, <2>1, <3>1 DEF process_timeout, enter_has_address
    <3>. QED
      BY <2>1, <3>2, GainAgrees
  <2>2. CASE ~(st = "claiming" /\ valid_address)
    <3>1. Quiet
      BY <1>6, <2>2, QuietEvents DEF process_timeout, enter_no_address, Quiet
    <3>. QED
      BY <1>4, <1>6, <3>1
  <2>. QED
    BY <2>1, <2>2
<1>. HIDE DEF h
<1>7. \/ h.type = "cannot" /\ cannot_claim_handler
      \/ /\ queue' = Tail(queue)
         /\ \/ h.type = "restart" /\ process_restart
            \/ h.type = "start" /\ process_start_claim(h.addr)
            \/ h.type = "claim" /\ process_address_claim(h.name, h.addr)
            \/ h.type = "request" /\ process_address_request(h.addr)
            \/ h.type = "timeout" /\ process_timeout
            \/ h.type = "retry" /\ process_random_retry
  BY DEF RunHandler, h
<1>. QED
  BY <1>3, <1>4, <1>5, <1>6, <1>7, QuietEvents

\* Agreement is preserved by every step.
LEMMA AgreementStep == Agreement /\ [Next]_vars => Agreement'
<1>. SUFFICES ASSUME Agreement, [Next]_vars PROVE Agreement'
  OBVIOUS
<1>1. TypeOK' /\ queue \in Seq(Handler)
  BY TypeStep DEF Agreement, TypeOK
<1>2. ASSUME NEW m \in Heard, NEW a \in Address, process_claim(m, a)
      PROVE  Agreement'
  BY <1>1, <1>2, HeardAgrees
<1>3. ASSUME NEW g \in Handler, queue' = Append(queue, g), Quiet
      PROVE  Agreement'
  BY <1>1, <1>3, LossAppended, QuietAgrees
<1>4. ASSUME NEW dst \in Address, process_request(dst)
      PROVE  Agreement'
  BY <1>3, <1>4, EventTypes DEF process_request, post, Quiet, machine
<1>5. ASSUME NEW pref \in Address, start_address_claim(pref)
      PROVE  Agreement'
  BY <1>3, <1>5, EventTypes DEF start_address_claim, post, Quiet, machine
<1>6. CASE TimerExpires
  <2>1. timer \in Handler
    BY <1>6 DEF TimerExpires, Agreement, TypeOK
  <2>. QED
    BY <1>3, <1>6, <2>1 DEF TimerExpires, post, Quiet, machine
<1>7. CASE RunHandler
  BY <1>1, <1>7, HandlerAgrees
<1>8. CASE UNCHANGED vars
  BY <1>1, <1>8, QuietAgrees DEF vars, Quiet
<1>. QED
  BY <1>2, <1>4, <1>5, <1>6, <1>7, <1>8 DEF Next, Environment, Start

\* Agreement holds in the constructor's state.
LEMMA AgreementInit == Init /\ Self \notin Heard => Agreement
BY TypeInit, EmptyConsistent, NoNameIsNone, NoAddrIsAddress, SelfAssumption
   DEF Init, Agreement, NetworkAgrees, HolderAgrees, Exact, EmptyTable, get_address

\* A machine that holds an address the network does not show for it has the claim
\* that takes the address waiting in the queue.
THEOREM HolderAgreesAlways ==
  ASSUME Self \notin Heard
  PROVE  Spec => []HolderAgrees
<1>1. Init => Agreement
  BY AgreementInit
<1>2. Agreement => HolderAgrees
  BY DEF Agreement
<1>. QED
  BY <1>1, <1>2, AgreementStep, PTL DEF Spec

\* An address the network shows for the claimer is the one the machine holds.
THEOREM NetworkAgreesAlways ==
  ASSUME Self \notin Heard
  PROVE  Spec => []NetworkAgrees
<1>1. Init => Agreement
  BY AgreementInit
<1>2. Agreement => NetworkAgrees
  BY DEF Agreement
<1>. QED
  BY <1>1, <1>2, AgreementStep, PTL DEF Spec

------------------------------------------------------------------------------
(* A claim comes to an end *)

\* What ends the claim of address a is under way.
Waiting(a, tm, q) == tm = Timeout \/ Timeout \in Range(q) \/ LossIn(q, a)

\* The inductive invariant.  The last conjunct is the reason why a timeout that
\* finds the address taken does not leave the machine without a timer: a name
\* that took it since the search has its claim in the queue.
UnderWay ==
  self_config_address(Self) /\ st = "claiming" =>
    /\ claiming \in Unicast
    /\ Waiting(claiming, timer, queue)
    /\ ~claimable(net, claiming, Self) => LossIn(queue, claiming)

\* To begin claiming in a network that is not full establishes the invariant.
LEMMA BeginUnderWay ==
  ASSUME NEW t \in Table, NEW pref \in Address, ~full(t), Exact(t, Self),
         get_address(t, Self) \notin Unicast,
         begin_claiming_address(t, pref), net' = t
  PROVE  UnderWay'
<1>. SUFFICES ASSUME self_config_address(Self)
              PROVE  /\ claiming' \in Unicast
                     /\ timer' = Timeout
                     /\ claimable(net', claiming', Self)
  BY DEF UnderWay, Waiting, claimable, occupied
<1>1. Self \in SelfConfig
  BY DEF self_config_address
<1>. QED
  BY <1>1, FindClaimable DEF begin_claiming_address

\* A step that leaves machine, timer and network alone and takes at most a handler
\* from the queue that is neither the timeout nor the loss of the address.
LEMMA StayUnderWay ==
  ASSUME UnderWay, UNCHANGED <<st, claiming, timer, net>>,
         st = "claiming" =>
           /\ Timeout \in Range(queue) => Timeout \in Range(queue')
           /\ LossIn(queue, claiming) => LossIn(queue', claiming)
  PROVE  UnderWay'
<1>. SUFFICES ASSUME self_config_address(Self), st = "claiming"
              PROVE  /\ claiming \in Unicast
                     /\ Waiting(claiming, timer, queue')
                     /\ ~claimable(net, claiming, Self) => LossIn(queue', claiming)
  BY DEF UnderWay, Waiting, claimable, occupied
<1>. QED
  BY DEF UnderWay, Waiting

\* A claim that is heard while claiming.
LEMMA HeardUnderWay ==
  ASSUME Agreement, UnderWay, NEW m \in Heard, NEW a \in Address, process_claim(m, a)
  PROVE  UnderWay'
<1>1. /\ net \in Table /\ Self \in Name /\ m \in Name
      /\ queue \in Seq(Handler) /\ AddressClaim(m, a) \in Handler
  BY SelfAssumption, ClaimerAssumption, EventTypes DEF Agreement, TypeOK
<1>2. net' = insert(net, m, a) /\ UNCHANGED <<st, claiming, timer>>
  BY DEF process_claim, machine
<1>. SUFFICES ASSUME self_config_address(Self), st = "claiming"
              PROVE  /\ claiming \in Unicast
                     /\ Waiting(claiming, timer, queue')
                     /\ ~claimable(net', claiming, Self) => LossIn(queue', claiming)
  BY <1>2 DEF UnderWay, Waiting, claimable, occupied
<1>3. /\ Timeout \in Range(queue) => Timeout \in Range(queue')
      /\ LossIn(queue, claiming) => LossIn(queue', claiming)
  BY <1>1, AppendFacts, LossAppended, ZenonT(40) DEF process_claim, post
<1>4. claiming \in Unicast /\ Waiting(claiming, timer, queue')
  BY <1>3 DEF UnderWay, Waiting
<1>5. ASSUME claimable(net, claiming, Self), ~claimable(net', claiming, Self)
      PROVE  LossIn(queue', claiming)
  <2>1. \/ net'.addr_name[claiming] \in {NoName, net.addr_name[claiming]}
        \/ net'.addr_name[claiming] = m /\ claiming = a /\ inserted(net, m, a)
    <3>1. \/ insert(net, m, a).addr_name[claiming] \in {NoName, net.addr_name[claiming]}
          \/ insert(net, m, a).addr_name[claiming] = m /\ claiming = a /\ inserted(net, m, a)
      BY <1>1, <1>4, InsertReverse
    <3>. QED
      BY <1>2, <3>1
  <2>2. net'.addr_name[claiming] = m /\ claiming = a /\ inserted(net, m, a) /\ ~(m > Self)
    BY <1>4, <1>5, <2>1 DEF claimable, occupied
  <2>3. IsLoss(AddressClaim(m, a), a)
    BY <1>1, <2>2, J1939Assumption DEF IsLoss, AddressClaim, ev, address_priority
  <2>4. queue' = Append(queue, AddressClaim(m, a))
    BY <2>2 DEF process_claim, post
  <2>. QED
    BY <1>1, <2>2, <2>3, <2>4, LossAppended
<1>. QED
  BY <1>3, <1>4, <1>5 DEF UnderWay

\* Every handler keeps the invariant.
LEMMA HandlerUnderWay == Agreement /\ UnderWay /\ RunHandler => UnderWay'
<1>. SUFFICES ASSUME Agreement, UnderWay, RunHandler PROVE UnderWay'
  OBVIOUS
<1>. DEFINE h == Head(queue)
<1>1. /\ queue # <<>> /\ queue \in Seq(Handler) /\ Tail(queue) \in Seq(Handler)
      /\ h \in Handler /\ h.addr \in Address
      /\ Range(queue) \subseteq {h} \cup Range(Tail(queue))
  BY TailFacts, ZenonT(40) DEF RunHandler, Agreement, TypeOK, Handler
<1>2. /\ net \in Table /\ Self \in Name /\ RetryPref \in Address
      /\ claiming \in Address /\ has_address \in Address
      /\ Exact(net, Self)
      /\ st # "has_address" => get_address(net, Self) \notin Unicast
  BY SelfAssumption DEF Agreement, TypeOK, NetworkAgrees
<1>3. ASSUME ~IsLoss(h, claiming), LossIn(queue, claiming)
      PROVE  LossIn(Tail(queue), claiming)
  BY <1>1, <1>3, LossKept
<1>4. ASSUME st' # "claiming"
      PROVE  UnderWay'
  BY <1>4 DEF UnderWay
<1>5. ASSUME st # "claiming", st' = st
      PROVE  UnderWay'
  BY <1>4, <1>5
<1>6. ASSUME UNCHANGED <<st, claiming, timer, net>>, h.type # "timeout",
             ~IsLoss(h, claiming), queue' = Tail(queue)
      PROVE  UnderWay'
  <2>1. h # Timeout
    BY <1>6 DEF Timeout, ev
  <2>. HIDE DEF h
  <2>. QED
    BY <1>1, <1>3, <1>6, <2>1, StayUnderWay
<1>7. CASE h.type = "cannot" /\ cannot_claim_handler
  <2>1. h # Timeout /\ ~IsLoss(h, claiming)
    BY <1>7 DEF Timeout, ev, IsLoss
  <2>2. Range(Tail(queue)) \subseteq Range(queue')
    BY <1>1, <1>7, AppendFacts, EventTypes, ZenonT(40) DEF cannot_claim_handler
  <2>3. UNCHANGED <<st, claiming, timer, net>>
    BY <1>7 DEF cannot_claim_handler, machine
  <2>4. LossIn(queue, claiming) => LossIn(queue', claiming)
    BY <1>3, <2>1, <2>2 DEF LossIn
  <2>. HIDE DEF h
  <2>. QED
    BY <1>1, <2>1, <2>2, <2>3, <2>4, StayUnderWay
<1>8. CASE queue' = Tail(queue) /\ h.type = "claim" /\ process_address_claim(h.name, h.addr)
  <2>1. CASE st = "claiming"
    <3>1. CASE claiming_loss(h.name, h.addr) /\ begin_claiming_address(net, claiming) /\ net' = net
      BY <1>2, <2>1, <3>1, BeginUnderWay DEF claiming_loss
    <3>2. CASE enter_address_lost
      BY <1>4, <3>2 DEF enter_address_lost
    <3>3. CASE claiming_priority(h.name, h.addr) /\ reply(claim_frame(claiming))
      BY <1>6, <1>8, <3>3 DEF claiming_priority, IsLoss, reply, machine
    <3>4. CASE h.addr # claiming /\ drop
      BY <1>6, <1>8, <3>4 DEF IsLoss, drop, machine
    <3>. QED
      BY <1>8, <2>1, <3>1, <3>2, <3>3, <3>4
         DEF process_address_claim, process_claim_while_claiming
  <2>2. CASE st = "has_address"
    <3>1. CASE /\ claimed_loss(h.name, h.addr)
               /\ net' = release(net, Self)
               /\ enter_claiming(release(net, Self), has_address)
      <4>. DEFINE t == release(net, Self)
      <4>1. /\ t \in Table /\ Exact(t, Self) /\ get_address(t, Self) \notin Unicast
        BY <1>2, ReleaseFacts, ReleaseExact
      <4>2. ~full(t)
        <5>1. PICK x \in Unicast : ~occupied(net, x)
          BY <1>2, <3>1, FullFacts DEF claimed_loss
        <5>2. ~occupied(t, x)
          BY <1>2, <5>1, ReleaseFacts DEF occupied
        <5>. QED
          BY <4>1, <5>2, FullFacts
      <4>. HIDE DEF t
      <4>3. net' = t /\ begin_claiming_address(t, has_address)
        BY <3>1 DEF t, enter_claiming
      <4>. QED
        BY <1>2, <4>1, <4>2, <4>3, BeginUnderWay
    <3>2. CASE enter_address_lost
      BY <1>4, <3>2 DEF enter_address_lost
    <3>3. CASE reply(claim_frame(has_address)) \/ drop
      BY <1>5, <2>2, <3>3 DEF reply, drop, machine
    <3>. QED
      BY <1>8, <2>2, <3>1, <3>2, <3>3
         DEF process_address_claim, process_claim_while_holding, leave_has_address
  <2>3. CASE drop /\ st \notin {"claiming", "has_address"}
    BY <1>5, <2>3 DEF drop, machine
  <2>. QED
    BY <1>8, <2>1, <2>2, <2>3 DEF process_address_claim
<1>9. CASE queue' = Tail(queue) /\ h.type = "timeout" /\ process_timeout
  <2>1. CASE st' # "claiming"
    BY <1>4, <2>1
  <2>2. CASE st # "claiming" /\ drop
    BY <1>5, <2>2 DEF drop, machine
  <2>3. CASE st = "claiming" /\ ~valid_address /\ drop
    <3>1. UNCHANGED <<st, claiming, timer, net>>
      BY <2>3 DEF drop, machine
    <3>2. self_config_address(Self) => LossIn(Tail(queue), claiming)
      BY <1>3, <1>9, <2>3 DEF UnderWay, valid_address, IsLoss
    <3>3. claimable(net, claiming, Self)' = claimable(net, claiming, Self)
      BY <3>1 DEF claimable, occupied
    <3>. QED
      BY <1>9, <2>3, <3>1, <3>2, <3>3 DEF UnderWay, Waiting
  <2>. QED
    BY <1>9, <2>1, <2>2, <2>3 DEF process_timeout, enter_has_address, enter_no_address
<1>10. CASE /\ queue' = Tail(queue)
            /\ h.type \notin {"claim", "timeout"}
            /\ \/ process_restart
               \/ process_start_claim(h.addr)
               \/ process_address_request(h.addr)
               \/ process_random_retry
  <2>1. CASE UNCHANGED <<st, claiming, timer, net>>
    BY <1>6, <1>10, <2>1 DEF IsLoss
  <2>2. CASE st' # "claiming"
    BY <1>4, <2>2
  <2>3. CASE /\ st # "has_address" /\ ~full(net) /\ net' = net
             /\ \E pref \in Address : begin_claiming_address(net, pref)
    BY <1>2, <2>3, BeginUnderWay
  <2>4. ASSUME process_start_claim(h.addr)
        PROVE  UnderWay'
    BY <1>1, <2>1, <2>2, <2>3, <2>4
       DEF process_start_claim, enter_claiming, refuse, drop, machine
  <2>5. ASSUME process_random_retry
        PROVE  UnderWay'
    BY <1>2, <2>1, <2>2, <2>3, <2>5, SMTT(30)
       DEF process_random_retry, enter_claiming, enter_no_address, retry_allowed, drop, machine
  <2>6. ASSUME process_restart \/ process_address_request(h.addr)
        PROVE  UnderWay'
    BY <2>1, <2>2, <2>6, SMTT(30)
       DEF process_restart, process_address_request, enter_no_address, refuse, reply, drop, machine
  <2>. QED
    BY <1>10, <2>4, <2>5, <2>6
<1>. HIDE DEF h
<1>11. \/ h.type = "cannot" /\ cannot_claim_handler
       \/ /\ queue' = Tail(queue)
          /\ \/ h.type = "restart" /\ process_restart
             \/ h.type = "start" /\ process_start_claim(h.addr)
             \/ h.type = "claim" /\ process_address_claim(h.name, h.addr)
             \/ h.type = "request" /\ process_address_request(h.addr)
             \/ h.type = "timeout" /\ process_timeout
             \/ h.type = "retry" /\ process_random_retry
  BY DEF RunHandler, h
<1>. QED
  BY <1>7, <1>8, <1>9, <1>10, <1>11

\* UnderWay is preserved by every step from a state where Agreement holds.
LEMMA UnderWayStep == Agreement /\ UnderWay /\ [Next]_vars => UnderWay'
<1>. SUFFICES ASSUME Agreement, UnderWay, [Next]_vars PROVE UnderWay'
  OBVIOUS
<1>1. queue \in Seq(Handler)
  BY DEF Agreement, TypeOK
<1>2. ASSUME NEW m \in Heard, NEW a \in Address, process_claim(m, a)
      PROVE  UnderWay'
  BY <1>2, HeardUnderWay
<1>3. ASSUME NEW dst \in Address, process_request(dst)
      PROVE  UnderWay'
  <2>1. queue' = Append(queue, AddressRequest(dst)) /\ UNCHANGED <<st, claiming, timer, net>>
    BY <1>3 DEF process_request, post, machine
  <2>. QED
    BY <1>1, <2>1, EventTypes, AppendFacts, LossAppended, StayUnderWay
<1>4. ASSUME NEW pref \in Address, start_address_claim(pref)
      PROVE  UnderWay'
  BY <1>4 DEF start_address_claim, UnderWay, machine
<1>5. CASE TimerExpires
  <2>1. timer \in Handler /\ queue' = Append(queue, timer)
    BY <1>5 DEF TimerExpires, post, Agreement, TypeOK
  <2>2. UNCHANGED <<st, claiming, net>>
    BY <1>5 DEF TimerExpires, machine
  <2>3. /\ timer = Timeout \/ Timeout \in Range(queue) => Timeout \in Range(queue')
        /\ LossIn(queue, claiming) => LossIn(queue', claiming)
    BY <1>1, <2>1, AppendFacts, LossAppended
  <2>4. claimable(net, claiming, Self)' = claimable(net, claiming, Self)
    BY <2>2 DEF claimable, occupied
  <2>. QED
    BY <2>2, <2>3, <2>4 DEF UnderWay, Waiting
<1>6. CASE RunHandler
  BY <1>6, HandlerUnderWay
<1>7. CASE UNCHANGED vars
  BY <1>7, StayUnderWay DEF vars
<1>. QED
  BY <1>2, <1>3, <1>4, <1>5, <1>6, <1>7 DEF Next, Environment, Start

\* While a self configurable name claims, the timeout is pending or queued, or the
\* claim that takes the address from it is queued.
THEOREM ClaimNeverStalls ==
  ASSUME Self \notin Heard
  PROVE  Spec => []ClaimCannotStall
<1>1. Init => Agreement /\ UnderWay
  BY AgreementInit DEF Init, UnderWay
<1>2. UnderWay => ClaimCannotStall
  BY LossQueuedIsLossIn DEF UnderWay, Waiting, ClaimCannotStall, Queued
<1>. QED
  BY <1>1, <1>2, AgreementStep, UnderWayStep, PTL DEF Spec

------------------------------------------------------------------------------
(* What the claimer tells the other nodes *)

\* The claimer stands by a claim of address a.
Asserts(a) ==
  \/ st = "claiming" /\ claiming = a
  \/ st = "has_address" /\ has_address = a

Withdrawn == st \notin {"claiming", "has_address"}

\* A handler that leaves the machine with a claim of address a has sent that
\* claim, or changed nothing about it and was not to answer a request to all.
LEMMA HandlerAsserts ==
  ASSUME Agreement, RunHandler, Head(queue).type # "cannot", NEW a, Asserts(a)'
  PROVE  \/ sent' = <<claim_frame(a)>>
         \/ sent' = <<>> /\ Asserts(a) /\ Head(queue) # AddressRequest(NO_ADDR)
<1>. DEFINE h == Head(queue)
            Told == \/ sent' = <<claim_frame(a)>>
                    \/ sent' = <<>> /\ Asserts(a) /\ h # AddressRequest(NO_ADDR)
<1>. SUFFICES Told
  OBVIOUS
<1>1. ASSUME drop \/ refuse, h # AddressRequest(NO_ADDR)
      PROVE  Told
  BY <1>1 DEF drop, refuse, Asserts, machine
<1>2. ASSUME Withdrawn'
      PROVE  FALSE
  BY <1>2 DEF Withdrawn, Asserts
<1>3. ASSUME NEW t, NEW pref, st' = "claiming", begin_claiming_address(t, pref)
      PROVE  Told
  BY <1>3 DEF begin_claiming_address, Asserts
<1>4. /\ st = "claiming" /\ reply(claim_frame(claiming)) => Told
      /\ st = "has_address" /\ reply(claim_frame(has_address)) => Told
  BY DEF reply, machine, Asserts
<1>. HIDE DEF h, Told
<1>5. h = AddressRequest(NO_ADDR) => h.type = "request" /\ h.addr = NO_ADDR
  <2>1. /\ AddressRequest(NO_ADDR).type = "request"
        /\ AddressRequest(NO_ADDR).addr = NO_ADDR
    BY DEF AddressRequest, ev
  <2>. QED
    BY <2>1, Zenon
<1>6. CASE h.type = "restart" /\ process_restart
  BY <1>1, <1>2, <1>5, <1>6 DEF process_restart, enter_no_address, Withdrawn
<1>7. CASE h.type = "start" /\ process_start_claim(h.addr)
  BY <1>1, <1>3, <1>5, <1>7, SMTT(20) DEF process_start_claim, enter_claiming
<1>8. CASE h.type = "request" /\ process_address_request(h.addr)
  <2>1. CASE st \in {"no_address", "address_lost"}
    BY <1>2, <1>8, <2>1 DEF process_address_request, refuse, drop, machine, Withdrawn
  <2>2. CASE st \in {"claiming", "has_address"} /\ h.addr = NO_ADDR
    BY <1>4, <1>8, <2>2
       DEF process_address_request, valid_claiming_request, valid_address_request,
           is_global_address_req
  <2>3. CASE st \in {"claiming", "has_address"} /\ h.addr # NO_ADDR
    BY <1>1, <1>4, <1>5, <1>8, <2>3 DEF process_address_request
  <2>. QED
    BY <2>1, <2>2, <2>3 DEF Agreement, TypeOK, State
<1>9. CASE h.type = "claim" /\ process_address_claim(h.name, h.addr)
  <2>1. CASE st = "claiming" /\ process_claim_while_claiming(h.name, h.addr)
    BY <1>1, <1>2, <1>3, <1>4, <1>5, <1>9, <2>1
       DEF process_claim_while_claiming, enter_address_lost, Withdrawn
  <2>2. CASE st = "has_address" /\ process_claim_while_holding(h.name, h.addr)
    BY <1>1, <1>2, <1>3, <1>4, <1>5, <1>9, <2>2
       DEF process_claim_while_holding, enter_claiming, enter_address_lost, Withdrawn
  <2>. QED
    BY <1>1, <1>5, <1>9, <2>1, <2>2 DEF process_address_claim
<1>10. CASE h.type = "timeout" /\ process_timeout
  <2>1. CASE st = "claiming" /\ enter_has_address(claiming)
    BY <1>5, <1>10, <2>1 DEF enter_has_address, Asserts, Told
  <2>. QED
    BY <1>1, <1>2, <1>5, <1>10, <2>1 DEF process_timeout, enter_no_address, Withdrawn
<1>11. CASE h.type = "retry" /\ process_random_retry
  BY <1>1, <1>2, <1>3, <1>5, <1>11
     DEF process_random_retry, enter_claiming, enter_no_address, Withdrawn
<1>. QED
  BY <1>6, <1>7, <1>8, <1>9, <1>10, <1>11 DEF RunHandler, h

\* A cannot-claim is in preparation only while the machine has no claim: when
\* every wait expires after the handlers before it have run, the handler that
\* sends it is the next to run.
CannotIsTrue ==
  /\ timer.type = "cannot" => Withdrawn
  /\ \A i \in 1 .. Len(queue) : queue[i].type = "cannot" => i = 1 /\ Withdrawn

\* The cannot-claim delay is cancelled when the machine begins to claim.
LEMMA HandlerTimer ==
  ASSUME Agreement, CannotIsTrue, RunHandler, timer'.type = "cannot"
  PROVE  Withdrawn'
<1>. DEFINE h == Head(queue)
<1>1. CASE timer' = timer /\ st' = st
  BY <1>1 DEF CannotIsTrue, Withdrawn
<1>2. CASE st' \in {"no_address", "address_lost"}
  BY <1>2 DEF Withdrawn
<1>3. ASSUME NEW t, NEW pref, begin_claiming_address(t, pref)
      PROVE  FALSE
  BY <1>3 DEF begin_claiming_address, Timeout, ev
<1>4. ASSUME refuse, st \in {"no_address", "address_lost"}
      PROVE  Withdrawn'
  BY <1>4 DEF refuse, machine, Withdrawn
<1>5. ASSUME drop \/ \E f : reply(f)
      PROVE  Withdrawn'
  BY <1>1, <1>5 DEF drop, reply, machine
<1>. HIDE DEF h
<1>6. ASSUME process_restart
      PROVE  Withdrawn'
  BY <1>2, <1>5, <1>6 DEF process_restart, enter_no_address
<1>7. ASSUME process_start_claim(h.addr)
      PROVE  Withdrawn'
  BY <1>3, <1>4, <1>5, <1>7 DEF process_start_claim, enter_claiming
<1>8. ASSUME process_address_request(h.addr)
      PROVE  Withdrawn'
  BY <1>4, <1>5, <1>8 DEF process_address_request
<1>9. ASSUME process_address_claim(h.name, h.addr)
      PROVE  Withdrawn'
  BY <1>2, <1>3, <1>5, <1>9
     DEF process_address_claim, process_claim_while_claiming, process_claim_while_holding,
         enter_claiming, enter_address_lost
<1>10. ASSUME process_timeout
       PROVE  Withdrawn'
  <2>1. CASE st = "claiming" /\ timer' = timer
    BY <2>1 DEF CannotIsTrue, Withdrawn
  <2>. QED
    BY <1>2, <1>5, <1>10, <2>1 DEF process_timeout, enter_has_address, enter_no_address
<1>11. ASSUME process_random_retry
       PROVE  Withdrawn'
  BY <1>2, <1>3, <1>5, <1>11 DEF process_random_retry, enter_claiming, enter_no_address
<1>12. ASSUME cannot_claim_handler
       PROVE  Withdrawn'
  BY <1>1, <1>12 DEF cannot_claim_handler, machine
<1>. QED
  BY <1>6, <1>7, <1>8, <1>9, <1>10, <1>11, <1>12 DEF RunHandler, h

\* CannotIsTrue is preserved when waits expire after the handlers before them.
LEMMA CannotStep ==
  ASSUME Agreement, CannotIsTrue,
         Environment \/ RunHandler \/ (TimerExpires /\ queue = <<>>)
  PROVE  CannotIsTrue'
<1>1. queue \in Seq(Handler) /\ Len(queue) \in Nat
  BY DEF Agreement, TypeOK
<1>2. ASSUME NEW g \in Handler, g.type # "cannot", queue' = Append(queue, g), st' = st,
             timer'.type = "cannot" => timer' = timer
      PROVE  CannotIsTrue'
  <2>1. /\ Len(queue') = Len(queue) + 1
        /\ \A i \in 1 .. Len(queue) : queue'[i] = queue[i]
        /\ queue'[Len(queue) + 1] = g
    BY <1>1, <1>2
  <2>. QED
    BY <1>1, <1>2, <2>1 DEF CannotIsTrue, Withdrawn
<1>3. CASE \E m \in Heard, a \in Address : process_claim(m, a)
  <2>1. PICK m \in Heard, a \in Address : process_claim(m, a)
    BY <1>3
  <2>2. CASE queue' = queue
    BY <2>1, <2>2 DEF process_claim, machine, CannotIsTrue, Withdrawn
  <2>3. AddressClaim(m, a) \in Handler /\ AddressClaim(m, a).type = "claim"
    BY EventTypes, ClaimerAssumption DEF AddressClaim, ev
  <2>. QED
    BY <1>2, <2>1, <2>2, <2>3 DEF process_claim, post, machine
<1>4. CASE \E dst \in Address : process_request(dst)
  <2>1. PICK dst \in Address : process_request(dst)
    BY <1>4
  <2>2. AddressRequest(dst) \in Handler /\ AddressRequest(dst).type = "request"
    BY EventTypes DEF AddressRequest, ev
  <2>. QED
    BY <1>2, <2>1, <2>2 DEF process_request, post, machine
<1>5. CASE Start
  <2>1. PICK pref \in Address : start_address_claim(pref)
    BY <1>5 DEF Start
  <2>2. /\ Restart \in Handler /\ Restart.type = "restart"
        /\ StartClaim(pref).type = "start"
    BY EventTypes DEF Restart, StartClaim, ev
  <2>. QED
    BY <1>2, <2>1, <2>2 DEF start_address_claim, post, machine
<1>6. CASE TimerExpires /\ queue = <<>>
  <2>1. queue' = <<timer>> /\ st' = st /\ timer' = NoTimer
    BY <1>6 DEF TimerExpires, post, machine
  <2>2. Len(queue') = 1 /\ queue'[1] = timer /\ NoTimer.type = "none"
    BY <2>1 DEF NoTimer
  <2>. QED
    BY <2>1, <2>2 DEF CannotIsTrue, Withdrawn
<1>7. CASE RunHandler
  <2>1. /\ queue # <<>> /\ Tail(queue) \in Seq(Handler)
        /\ Len(Tail(queue)) = Len(queue) - 1
        /\ \A i \in 1 .. Len(Tail(queue)) : Tail(queue)[i] = queue[i + 1]
    BY <1>1, <1>7 DEF RunHandler
  <2>2. \A i \in 1 .. Len(Tail(queue)) : Tail(queue)[i].type # "cannot"
    BY <1>1, <2>1 DEF CannotIsTrue
  <2>3. queue' = Tail(queue) \/ queue' = Append(Tail(queue), RandomRetry)
    BY <1>7 DEF RunHandler, cannot_claim_handler
  <2>4. CASE queue' = Append(Tail(queue), RandomRetry)
    <3>1. RandomRetry \in Handler /\ RandomRetry.type = "retry"
      BY EventTypes DEF RandomRetry, ev
    <3>2. /\ Len(queue') = Len(Tail(queue)) + 1
          /\ \A i \in 1 .. Len(Tail(queue)) : queue'[i] = Tail(queue)[i]
          /\ queue'[Len(Tail(queue)) + 1] = RandomRetry
      BY <2>1, <2>4, <3>1
    <3>3. \A i \in 1 .. Len(queue') : queue'[i].type # "cannot"
      BY <1>1, <2>1, <2>2, <3>1, <3>2
    <3>. QED
      BY <1>7, <3>3, HandlerTimer DEF CannotIsTrue
  <2>. QED
    BY <1>7, <2>2, <2>3, <2>4, HandlerTimer, ZenonT(40) DEF CannotIsTrue
<1>. QED
  BY <1>3, <1>4, <1>5, <1>6, <1>7 DEF Environment

------------------------------------------------------------------------------
(* What the claimer learns of the other nodes *)

\* The network holds names that were heard, and the claimer's own.
OnlyHeard == \A x \in Unicast : net.addr_name[x] \in Heard \cup {Self, NoName}

\* What a handler does to the network: nothing, the release of the claimer's
\* address, or the insertion of the address it claimed.
LEMMA HandlerNetwork ==
  ASSUME Agreement, RunHandler
  PROVE  \/ net' = net
         \/ net' = release(net, Self)
         \/ /\ net' = insert(net, Self, claiming)
            /\ claimable(net, claiming, Self)
<1>. DEFINE h == Head(queue)
<1>1. CASE \/ process_restart
           \/ process_start_claim(h.addr)
           \/ process_address_request(h.addr)
           \/ process_random_retry
           \/ cannot_claim_handler
  BY <1>1, QuietEvents DEF Quiet, cannot_claim_handler
<1>2. CASE process_address_claim(h.name, h.addr)
  <2>1. CASE st = "has_address"
    BY <1>2, <2>1 DEF process_address_claim, process_claim_while_holding, reply, drop,
                      leave_has_address, machine
  <2>. QED
    BY <1>2, <2>1, QuietEvents DEF process_address_claim, Quiet
<1>3. CASE process_timeout
  <2>1. CASE st = "claiming" /\ valid_address /\ enter_has_address(claiming)
    BY <2>1, ValidIsClaimable DEF enter_has_address
  <2>. QED
    BY <1>3, <2>1, QuietEvents DEF process_timeout, Quiet
<1>. HIDE DEF h
<1>. QED
  BY <1>1, <1>2, <1>3 DEF RunHandler, h

\* OnlyHeard is preserved by every step.
LEMMA OnlyHeardStep ==
  ASSUME Agreement, OnlyHeard, [Next]_vars
  PROVE  OnlyHeard'
<1>1. net \in Table /\ Self \in Name /\ claiming \in Address
  BY SelfAssumption DEF Agreement, TypeOK
<1>2. ASSUME NEW m \in Heard \cup {Self}, NEW a \in Address, net' = insert(net, m, a)
      PROVE  OnlyHeard'
  <2>1. m \in Name
    BY <1>1, ClaimerAssumption
  <2>2. \A x \in Unicast : net'.addr_name[x] \in {NoName, net.addr_name[x], m}
    BY <1>1, <1>2, <2>1, InsertReverse
  <2>. QED
    BY <1>2, <2>2 DEF OnlyHeard
<1>3. CASE net' = release(net, Self)
  <2>1. \A x \in Unicast : net'.addr_name[x] \in {NoName, net.addr_name[x]}
    BY <1>1, <1>3, ReleaseFacts
  <2>. QED
    BY <2>1 DEF OnlyHeard
<1>4. CASE net' = net
  BY <1>4 DEF OnlyHeard
<1>5. CASE RunHandler
  BY <1>1, <1>2, <1>3, <1>4, <1>5, HandlerNetwork
<1>6. CASE \E m \in Heard, a \in Address : process_claim(m, a)
  BY <1>2, <1>6 DEF process_claim
<1>7. CASE \/ \E dst \in Address : process_request(dst)
           \/ Start \/ TimerExpires \/ UNCHANGED vars
  BY <1>4, <1>7 DEF process_request, Start, start_address_claim, TimerExpires, vars
<1>. QED
  BY <1>5, <1>6, <1>7 DEF Next, Environment

\* Nothing the claimer does itself moves the entry of a stronger name.
LEMMA StrongerKept ==
  ASSUME Agreement, RunHandler, NEW m \in Name, m < Self
  PROVE  net'.name_addr[m] = net.name_addr[m]
<1>1. net \in Table /\ Self \in Name /\ m # Self
  BY SelfAssumption, J1939Assumption DEF Agreement, TypeOK
<1>2. CASE net' = release(net, Self)
  BY <1>1, <1>2, ReleaseFacts, SMTT(20)
<1>3. CASE net' = insert(net, Self, claiming) /\ claimable(net, claiming, Self)
  <2>1. claiming \in Unicast /\ net.addr_name[claiming] \in Name \cup {NoName}
    BY <1>1, <1>3 DEF claimable, Table
  <2>2. /\ ~outranked(net, Self, claiming)
        /\ net.addr_name[claiming] # m
    BY <1>1, <1>3, <2>1, J1939Assumption, NoNameIsNone, SMTT(20) DEF claimable, outranked, occupied
  <2>3. CASE net.addr_name[claiming] \in {NoName, Self}
    BY <1>1, <1>3, <2>1, <2>2, <2>3, InsertUnicastFacts, ClaimFacts, SMTT(20)
  <2>4. CASE net.addr_name[claiming] \notin {NoName, Self}
    <3>. DEFINE t == set_idle(net, net.addr_name[claiming])
    <3>1. net' = claim(t, Self, claiming) /\ net.addr_name[claiming] \in Name
      BY <1>1, <1>3, <2>1, <2>2, <2>4, InsertUnicastFacts, SMTT(20)
    <3>2. t \in Table /\ t.name_addr[m] = net.name_addr[m]
      BY <1>1, <2>2, <3>1, SetIdleFacts, SMTT(30)
    <3>. HIDE DEF t
    <3>. QED
      BY <1>1, <2>1, <3>1, <3>2, ClaimFacts, SMTT(20)
  <2>. QED
    BY <2>3, <2>4
<1>. QED
  BY <1>2, <1>3, HandlerNetwork

\* The claim of the strongest name is entered in the network.
LEMMA StrongestHeard ==
  ASSUME Agreement, OnlyHeard, NEW m \in Heard, m < Self, \A n \in Heard : m <= n,
         NEW a \in Unicast, process_claim(m, a)
  PROVE  net'.name_addr[m] = a
<1>1. net \in Table /\ Self \in Nat /\ Heard \subseteq Nat /\ m \in Name
  BY SelfAssumption, ClaimerAssumption, J1939Assumption DEF Agreement, TypeOK
<1>2. ~outranked(net, m, a)
  BY <1>1 DEF OnlyHeard, outranked, occupied
<1>. QED
  BY <1>1, <1>2, InsertGains DEF process_claim, get_address

\* A full network without the claimer in it has heard of another node.
LEMMA FullHeard ==
  ASSUME Agreement, OnlyHeard, full(net), st # "has_address"
  PROVE  \E m \in Heard : in_network(net, m)
<1>1. net \in Table /\ 0 \in Unicast
  BY J1939Assumption DEF Agreement, TypeOK, Unicast
<1>2. occupied(net, 0)
  BY <1>1, FullFacts
<1>3. net.addr_name[0] # Self
  BY <1>1 DEF Agreement, Exact, NetworkAgrees, get_address
<1>. QED
  BY <1>1, <1>2, <1>3 DEF OnlyHeard, occupied, Agreement, NamesKnown

\* Only unicast addresses are held.
HeldIsUnicast == st = "has_address" => has_address \in Unicast

\* HeldIsUnicast is preserved by every step.
LEMMA HeldIsUnicastStep ==
  ASSUME Agreement, HeldIsUnicast, [Next]_vars
  PROVE  HeldIsUnicast'
<1>. DEFINE h == Head(queue)
<1>1. CASE Quiet
  BY <1>1 DEF Quiet, HeldIsUnicast
<1>2. CASE \/ process_restart
           \/ process_start_claim(h.addr)
           \/ process_address_request(h.addr)
           \/ process_random_retry
           \/ cannot_claim_handler
  BY <1>1, <1>2, QuietEvents DEF Quiet, cannot_claim_handler, machine
<1>3. CASE process_address_claim(h.name, h.addr)
  <2>1. CASE st = "has_address"
    BY <1>3, <2>1 DEF process_address_claim, process_claim_while_holding, enter_claiming,
                      enter_address_lost, reply, drop, machine, HeldIsUnicast
  <2>. QED
    BY <1>1, <1>3, <2>1, QuietEvents DEF process_address_claim
<1>4. CASE process_timeout
  <2>1. CASE st = "claiming" /\ valid_address /\ enter_has_address(claiming)
    BY <2>1, ValidIsClaimable DEF enter_has_address, claimable, HeldIsUnicast
  <2>. QED
    BY <1>1, <1>4, <2>1, QuietEvents DEF process_timeout, enter_no_address, HeldIsUnicast
<1>. HIDE DEF h
<1>5. CASE RunHandler
  BY <1>2, <1>3, <1>4, <1>5 DEF RunHandler, h
<1>6. CASE Environment \/ TimerExpires \/ UNCHANGED vars
  BY <1>6, SMTT(30) DEF Environment, process_claim, process_request, Start, start_address_claim,
              TimerExpires, vars, machine, HeldIsUnicast
<1>. QED
  BY <1>5, <1>6 DEF Next

------------------------------------------------------------------------------
(* The claimer asks before it claims *)

\* A queued start of a claim has a queued restart before it.
RestartFirst(q) ==
  \A i \in 1 .. Len(q) : q[i].type = "start" => \E j \in 1 .. i - 1 : q[j] = Restart

\* The claimer has not begun to claim, and will run ev_restart before it does:
\* start_address_claim posts it when it arms the timer.
Unasked ==
  /\ st = "no_address"
  /\ timer.type = "start" => Restart \in Range(queue)
  /\ RestartFirst(queue)

\* Posting a handler keeps the order, a start only behind a restart.
LEMMA RestartFirstAppend ==
  ASSUME NEW q \in Seq(Handler), NEW g \in Handler, RestartFirst(q),
         g.type = "start" => Restart \in Range(q)
  PROVE  RestartFirst(Append(q, g))
<1>1. /\ Len(q) \in Nat
      /\ Len(Append(q, g)) = Len(q) + 1
      /\ \A i \in 1 .. Len(q) : Append(q, g)[i] = q[i]
      /\ Append(q, g)[Len(q) + 1] = g
  OBVIOUS
<1>2. Restart \in Range(q) => \E j \in 1 .. Len(q) : q[j] = Restart
  BY DEF Range
<1>. SUFFICES ASSUME NEW i \in 1 .. Len(Append(q, g)), Append(q, g)[i].type = "start"
              PROVE  \E j \in 1 .. i - 1 : Append(q, g)[j] = Restart
  BY DEF RestartFirst
<1>3. CASE i = Len(q) + 1
  BY <1>1, <1>2, <1>3
<1>4. CASE i \in 1 .. Len(q)
  <2>1. PICK j \in 1 .. i - 1 : q[j] = Restart
    BY <1>1, <1>4 DEF RestartFirst
  <2>2. j \in 1 .. Len(q)
    BY <1>1, <1>4
  <2>. QED
    BY <1>1, <2>1, <2>2
<1>. QED
  BY <1>1, <1>3, <1>4

\* While the restart has not run, no start is the next to run.
LEMMA RestartFirstTail ==
  ASSUME NEW q \in Seq(Handler), q # <<>>, RestartFirst(q), Head(q) # Restart
  PROVE  Head(q).type # "start" /\ RestartFirst(Tail(q))
<1>1. /\ Len(q) \in Nat /\ Len(q) >= 1 /\ Head(q) = q[1]
      /\ Len(Tail(q)) = Len(q) - 1
      /\ \A i \in 1 .. Len(Tail(q)) : Tail(q)[i] = q[i + 1]
  OBVIOUS
<1>2. Head(q).type # "start"
  BY <1>1 DEF RestartFirst
<1>3. ASSUME NEW i \in 1 .. Len(Tail(q)), Tail(q)[i].type = "start"
      PROVE  \E j \in 1 .. i - 1 : Tail(q)[j] = Restart
  <2>1. i + 1 \in 1 .. Len(q) /\ q[i + 1].type = "start"
    BY <1>1, <1>3
  <2>2. PICK j \in 1 .. i + 1 - 1 : q[j] = Restart
    BY <2>1 DEF RestartFirst
  <2>3. j # 1
    BY <1>1, <2>2
  <2>4. j - 1 \in 1 .. i - 1 /\ j - 1 \in 1 .. Len(Tail(q))
    BY <1>1, <2>1, <2>3
  <2>5. Tail(q)[j - 1] = q[j - 1 + 1] /\ j - 1 + 1 = j
    BY <1>1, <2>4
  <2>6. Tail(q)[j - 1] = Restart
    BY <2>2, <2>5, Zenon
  <2>. QED
    BY <2>4, <2>6, ZenonT(40)
<1>. QED
  BY <1>2, <1>3 DEF RestartFirst

\* The claimer stays Unasked until it sends its request, which it leaves out
\* only when the network is full.
LEMMA UnaskedStep ==
  ASSUME Agreement, Unasked, [Next]_vars, ~full(net)
  PROVE  \/ Unasked'
         \/ RunHandler /\ sent' = <<request_frame>>
<1>1. queue \in Seq(Handler) /\ timer \in Handler \cup {NoTimer}
  BY DEF Agreement, TypeOK
<1>2. ASSUME NEW g \in Handler, g.type # "start", queue' = Append(queue, g), st' = st,
             timer'.type = "start" => timer' = timer \/ g = Restart
      PROVE  Unasked'
  BY <1>1, <1>2, AppendFacts, RestartFirstAppend DEF Unasked
<1>3. CASE \E m \in Heard, a \in Address : process_claim(m, a)
  <2>1. PICK m \in Heard, a \in Address : process_claim(m, a)
    BY <1>3
  <2>2. CASE queue' = queue
    BY <2>1, <2>2 DEF process_claim, machine, Unasked
  <2>3. AddressClaim(m, a) \in Handler /\ AddressClaim(m, a).type = "claim"
    BY EventTypes, ClaimerAssumption DEF AddressClaim, ev
  <2>. QED
    BY <1>2, <2>1, <2>2, <2>3 DEF process_claim, post, machine
<1>4. CASE \E dst \in Address : process_request(dst)
  <2>1. PICK dst \in Address : process_request(dst)
    BY <1>4
  <2>2. AddressRequest(dst) \in Handler /\ AddressRequest(dst).type = "request"
    BY EventTypes DEF AddressRequest, ev
  <2>. QED
    BY <1>2, <2>1, <2>2 DEF process_request, post, machine
<1>5. CASE Start
  <2>1. PICK pref \in Address : start_address_claim(pref)
    BY <1>5 DEF Start
  <2>2. Restart \in Handler /\ Restart.type = "restart"
    BY EventTypes DEF Restart, ev
  <2>. QED
    BY <1>2, <2>1, <2>2 DEF start_address_claim, post, machine
<1>6. CASE TimerExpires
  <2>1. /\ timer \in Handler /\ queue' = Append(queue, timer)
        /\ st' = st /\ timer'.type = "none"
    BY <1>1, <1>6 DEF TimerExpires, post, machine, NoTimer
  <2>. QED
    BY <1>1, <2>1, AppendFacts, RestartFirstAppend DEF Unasked
<1>7. CASE RunHandler
  <2>. DEFINE h == Head(queue)
  <2>1. /\ queue # <<>> /\ h \in Handler /\ Tail(queue) \in Seq(Handler)
        /\ Range(queue) \subseteq {h} \cup Range(Tail(queue))
    BY <1>1, <1>7, TailFacts DEF RunHandler
  <2>2. CASE h = Restart
    <3>1. h.type = "restart"
      BY <2>2 DEF Restart, ev
    <3>2. process_restart
      BY <1>7, <3>1 DEF RunHandler
    <3>. QED
      BY <1>7, <3>2, SMTT(20) DEF process_restart, enter_no_address, Unasked
  <2>3. CASE h # Restart
    <3>1. h.type # "start" /\ RestartFirst(Tail(queue))
      BY <1>1, <2>1, <2>3, RestartFirstTail DEF Unasked
    <3>2. timer.type = "start" => Restart \in Range(Tail(queue))
      BY <2>1, <2>3 DEF Unasked
    <3>3. CASE h.type = "cannot" /\ cannot_claim_handler
      <4>1. queue' = Tail(queue) \/ queue' = Append(Tail(queue), RandomRetry)
        BY <3>3 DEF cannot_claim_handler
      <4>2. RandomRetry \in Handler /\ RandomRetry.type = "retry"
        BY EventTypes DEF RandomRetry, ev
      <4>3. st' = st /\ timer' = timer
        BY <3>3 DEF cannot_claim_handler, machine
      <4>4. CASE queue' = Append(Tail(queue), RandomRetry)
        BY <2>1, <3>1, <3>2, <4>2, <4>3, <4>4, AppendFacts, RestartFirstAppend, ZenonT(40)
           DEF Unasked
      <4>. QED
        BY <3>1, <3>2, <4>1, <4>3, <4>4, ZenonT(40) DEF Unasked
    <3>4. ASSUME queue' = Tail(queue), st' = st, timer' \in {timer, CannotClaim}
          PROVE  Unasked'
      BY <3>1, <3>2, <3>4 DEF Unasked, CannotClaim, ev
    <3>5. CASE queue' = Tail(queue) /\ (drop \/ refuse)
      BY <3>4, <3>5 DEF drop, refuse, send_cannot_claim, machine
    <3>. HIDE DEF h
    <3>6. CASE queue' = Tail(queue) /\ process_restart
      BY <1>7, <3>6 DEF process_restart, enter_no_address, Unasked
    <3>7. CASE /\ queue' = Tail(queue)
               /\ \/ process_address_claim(h.name, h.addr)
                  \/ process_address_request(h.addr)
                  \/ process_timeout
                  \/ process_random_retry
      BY <3>5, <3>7 DEF process_address_claim, process_address_request, process_timeout,
                        process_random_retry, Unasked
    <3>. QED
      BY <1>7, <3>1, <3>3, <3>6, <3>7, SMTT(20) DEF RunHandler, h
  <2>. QED
    BY <2>2, <2>3
<1>8. CASE UNCHANGED vars
  BY <1>8 DEF vars, Unasked
<1>. QED
  BY <1>3, <1>4, <1>5, <1>6, <1>7, <1>8, SMTT(20) DEF Next, Environment
------------------------------------------------------------------------------
(* One claimer's side of a bus: the frames on the wire *)

\* The last frame on the wire, requests aside, is the claim of address a.
LastClaim(w, a) ==
  \E i \in 1 .. Len(w) :
    w[i] = claim_frame(a) /\ \A j \in i + 1 .. Len(w) : w[j].type = "request"

OnlyRequests(w) == \A i \in 1 .. Len(w) : w[i].type = "request"

HasRequest(w) == \E i \in 1 .. Len(w) : w[i].type = "request"

\* Frames are added behind those on the wire.
LEMMA WireSent ==
  ASSUME NEW w \in Seq(Frame), NEW s \in Seq(Frame)
  PROVE  /\ w \o s \in Seq(Frame)
         /\ HasRequest(w) \/ s = <<request_frame>> => HasRequest(w \o s)
         /\ s = <<>> => w \o s = w
         /\ \A a \in Address : s = <<claim_frame(a)>> => LastClaim(w \o s, a)
<1>1. /\ w \o s \in Seq(Frame)
      /\ Len(w \o s) = Len(w) + Len(s)
      /\ \A i \in 1 .. Len(w) + Len(s) :
           (w \o s)[i] = IF i <= Len(w) THEN w[i] ELSE s[i - Len(w)]
  OBVIOUS
<1>2. Len(w) \in Nat /\ Len(s) \in Nat
  OBVIOUS
<1>3. s = <<>> => w \o s = w
  OBVIOUS
<1>4. ASSUME NEW a \in Address, s = <<claim_frame(a)>>
      PROVE  LastClaim(w \o s, a)
  <2>1. Len(s) = 1 /\ s[1] = claim_frame(a)
    BY <1>4
  <2>2. (w \o s)[Len(w) + 1] = claim_frame(a) /\ Len(w \o s) = Len(w) + 1
    BY <1>1, <1>2, <2>1
  <2>. HIDE DEF claim_frame
  <2>. QED
    BY <1>2, <2>2 DEF LastClaim
<1>5. ASSUME s = <<request_frame>>
      PROVE  HasRequest(w \o s)
  <2>1. Len(s) = 1 /\ s[1].type = "request"
    BY <1>5 DEF request_frame
  <2>2. (w \o s)[Len(w) + 1].type = "request" /\ Len(w \o s) = Len(w) + 1
    BY <1>1, <1>2, <2>1
  <2>. QED
    BY <1>2, <2>2 DEF HasRequest
<1>6. HasRequest(w) => HasRequest(w \o s)
  BY <1>1, <1>2 DEF HasRequest
<1>. QED
  BY <1>1, <1>3, <1>4, <1>5, <1>6, SMTT(20)

\* The first frame leaves the wire, the others stay.
LEMMA WireReceived ==
  ASSUME NEW w \in Seq(Frame), w # <<>>
  PROVE  /\ Head(w) \in Frame /\ Tail(w) \in Seq(Frame)
         /\ HasRequest(w) => Head(w).type = "request" \/ HasRequest(Tail(w))
         /\ OnlyRequests(w) => Head(w).type = "request" /\ OnlyRequests(Tail(w))
         /\ \A a \in Address :
              LastClaim(w, a) => \/ LastClaim(Tail(w), a)
                                 \/ Head(w) = claim_frame(a) /\ OnlyRequests(Tail(w))
<1>1. /\ Head(w) \in Frame /\ Tail(w) \in Seq(Frame) /\ Head(w) = w[1]
      /\ Len(Tail(w)) = Len(w) - 1 /\ Len(w) \in Nat /\ Len(w) >= 1
      /\ \A i \in 1 .. Len(Tail(w)) : Tail(w)[i] = w[i + 1]
  OBVIOUS
<1>2. OnlyRequests(w) => Head(w).type = "request" /\ OnlyRequests(Tail(w))
  BY <1>1 DEF OnlyRequests
<1>3. ASSUME NEW a \in Address, LastClaim(w, a)
      PROVE  \/ LastClaim(Tail(w), a)
             \/ Head(w) = claim_frame(a) /\ OnlyRequests(Tail(w))
  <2>1. PICK i \in 1 .. Len(w) :
               w[i] = claim_frame(a) /\ \A j \in i + 1 .. Len(w) : w[j].type = "request"
    BY <1>3 DEF LastClaim
  <2>2. CASE i = 1
    <3>1. \A j \in 1 .. Len(Tail(w)) : j + 1 \in i + 1 .. Len(w) /\ Tail(w)[j] = w[j + 1]
      BY <1>1, <2>2
    <3>2. OnlyRequests(Tail(w))
      BY <2>1, <3>1 DEF OnlyRequests
    <3>. QED
      BY <1>1, <2>1, <2>2, <3>2, Zenon
  <2>3. CASE i # 1
    <3>1. i - 1 \in 1 .. Len(Tail(w)) /\ Tail(w)[i - 1] = w[i - 1 + 1] /\ i - 1 + 1 = i
      BY <1>1, <2>3
    <3>2. Tail(w)[i - 1] = claim_frame(a)
      BY <2>1, <3>1, Zenon
    <3>3. \A j \in i - 1 + 1 .. Len(Tail(w)) : Tail(w)[j].type = "request"
      <4>1. \A j \in i - 1 + 1 .. Len(Tail(w)) :
              j \in 1 .. Len(Tail(w)) /\ j + 1 \in i + 1 .. Len(w)
        BY <1>1, <2>3
      <4>. QED
        BY <1>1, <2>1, <4>1
    <3>. QED
      BY <3>1, <3>2, <3>3, Zenon DEF LastClaim
  <2>. QED
    BY <2>2, <2>3
<1>4. HasRequest(w) => Head(w).type = "request" \/ HasRequest(Tail(w))
  <2>1. ASSUME NEW i \in 1 .. Len(w), i # 1, w[i].type = "request"
        PROVE  HasRequest(Tail(w))
    <3>1. i - 1 \in 1 .. Len(Tail(w)) /\ Tail(w)[i - 1] = w[i]
      BY <1>1, <2>1, SMTT(20)
    <3>. QED
      BY <2>1, <3>1 DEF HasRequest
  <2>. QED
    BY <1>1, <2>1 DEF HasRequest
<1>. QED
  BY <1>1, <1>2, <1>3, <1>4, SMTT(20)

------------------------------------------------------------------------------
(* One claimer's side of a bus: its steps *)

\* The steps of a claimer whose waits expire after the handlers before them.
PromptNext == Environment \/ RunHandler \/ (TimerExpires /\ queue = <<>>)

NodeInv == Agreement /\ HeldIsUnicast /\ CannotIsTrue /\ OnlyHeard

\* A claimer that was just built stands by no claim, knows nobody, has not
\* asked, and has nothing to run.
LEMMA NodeInit ==
  ASSUME Init, Self \notin Heard
  PROVE  /\ NodeInv
         /\ Unasked
         /\ \A m \in Name : net.name_addr[m] = NO_ADDR
         /\ \A a : ~Asserts(a)
         /\ ~RunHandler /\ ~TimerExpires
<1>1. Len(queue) = 0
  BY DEF Init
<1>2. CannotIsTrue /\ HeldIsUnicast
  BY <1>1 DEF Init, CannotIsTrue, HeldIsUnicast, NoTimer
<1>3. OnlyHeard /\ \A m \in Name : net.name_addr[m] = NO_ADDR
  BY DEF Init, OnlyHeard, EmptyTable
<1>4. Unasked
  BY <1>1 DEF Init, Unasked, RestartFirst, NoTimer
<1>5. /\ \A a : ~Asserts(a)
      /\ ~RunHandler /\ ~TimerExpires
  BY DEF Init, Asserts, RunHandler, TimerExpires
<1>. QED
  BY <1>2, <1>3, <1>4, <1>5, AgreementInit DEF NodeInv

\* The invariants of a claimer hold after each of its steps.
LEMMA NodeStep ==
  ASSUME NodeInv, PromptNext
  PROVE  NodeInv' /\ sent' \in Seq(Frame)
<1>1. Agreement' /\ HeldIsUnicast' /\ OnlyHeard'
  BY AgreementStep, HeldIsUnicastStep, OnlyHeardStep DEF NodeInv, PromptNext, Next
<1>. QED
  BY <1>1, CannotStep DEF NodeInv, PromptNext, Agreement, TypeOK

\* A step of the rest of the system changes nothing here.
LEMMA Untouched ==
  ASSUME UNCHANGED vars, NodeInv
  PROVE  /\ NodeInv'
         /\ Init => Init'
         /\ Unasked => Unasked'
         /\ \A a : Asserts(a)' => Asserts(a)
         /\ \A h : Queued(h) => Queued(h)'
         /\ net' = net
<1>1. /\ Init => Init'
      /\ \A a : Asserts(a)' => Asserts(a)
      /\ \A h : Queued(h) => Queued(h)'
      /\ net' = net
  BY DEF vars, Init, Asserts, Queued
<1>2. Unasked => Unasked'
  BY DEF vars, Unasked, RestartFirst
<1>3. Agreement' /\ HeldIsUnicast' /\ OnlyHeard'
  BY AgreementStep, HeldIsUnicastStep, OnlyHeardStep, SMTT(20) DEF NodeInv
<1>. QED
  BY <1>1, <1>2, <1>3 DEF NodeInv, vars, CannotIsTrue, Withdrawn

\* A step after which the claimer stands by a claim has just sent that claim,
\* or left it as it was and kept the requests to answer.
LEMMA ToldStep ==
  ASSUME NodeInv, PromptNext, NEW a, Asserts(a)'
  PROVE  \/ sent' = <<claim_frame(a)>>
         \/ /\ sent' = <<>> /\ Asserts(a)
            /\ Queued(AddressRequest(NO_ADDR)) => Queued(AddressRequest(NO_ADDR))'
<1>. DEFINE r == AddressRequest(NO_ADDR)
<1>0. queue \in Seq(Handler) /\ timer \in Handler \cup {NoTimer}
  BY DEF NodeInv, Agreement, TypeOK
<1>1. ASSUME NEW g \in Handler, queue' \in {queue, Append(queue, g)}, sent' = <<>>,
             UNCHANGED machine
      PROVE  sent' = <<>> /\ Asserts(a) /\ (Queued(r) => Queued(r)')
  BY <1>0, <1>1, AppendFacts, ZenonT(40) DEF machine, Asserts, Queued
<1>2. CASE \E m \in Heard, b \in Address : process_claim(m, b)
  <2>1. PICK m \in Heard, b \in Address : process_claim(m, b)
    BY <1>2
  <2>2. AddressClaim(m, b) \in Handler
    BY EventTypes, ClaimerAssumption
  <2>. QED
    BY <1>1, <2>1, <2>2 DEF process_claim, post
<1>3. CASE \E dst \in Address : process_request(dst)
  BY <1>1, <1>3, EventTypes DEF process_request, post
<1>4. CASE Start
  BY <1>1, <1>4, EventTypes DEF Start, start_address_claim, post
<1>5. CASE TimerExpires
  BY <1>0, <1>1, <1>5 DEF TimerExpires, post
<1>6. CASE RunHandler /\ Head(queue).type # "cannot"
  <2>1. CASE sent' = <<>> /\ Asserts(a) /\ Head(queue) # r
    <3>1. queue' = Tail(queue) /\ queue # <<>>
      BY <1>6 DEF RunHandler
    <3>. QED
      BY <1>0, <2>1, <3>1, TailFacts DEF Queued
  <2>. QED
    BY <1>6, <2>1, HandlerAsserts DEF NodeInv
<1>7. CASE RunHandler /\ Head(queue).type = "cannot"
  <2>1. queue # <<>> /\ UNCHANGED machine
    BY <1>7 DEF RunHandler, cannot_claim_handler
  <2>2. Withdrawn
    BY <1>0, <1>7, <2>1, SMTT(20)
       DEF NodeInv, CannotIsTrue
  <2>. QED
    BY <2>1, <2>2 DEF Withdrawn, machine, Asserts
<1>. QED
  BY <1>2, <1>3, <1>4, <1>5, <1>6, <1>7, SMTT(20) DEF PromptNext, Environment

\* The same with the wire: what the claimer stands by is its last claim on the
\* wire, or nothing about it has changed.  A claimer just built takes no step of
\* its own.
LEMMA TellerStep ==
  ASSUME NodeInv, PromptNext, NEW w \in Seq(Frame), NEW v,
         v = w \o sent' \/ (v = w /\ sent' = <<>>)
  PROVE  /\ NodeInv' /\ v \in Seq(Frame)
         /\ RunHandler \/ TimerExpires => ~Init
         /\ \A a \in Unicast : Asserts(a)' =>
              \/ LastClaim(v, a)
              \/ /\ v = w /\ Asserts(a)
                 /\ Queued(AddressRequest(NO_ADDR)) => Queued(AddressRequest(NO_ADDR))'
<1>1. NodeInv' /\ sent' \in Seq(Frame)
  BY NodeStep
<1>2. v = w \o sent' /\ v \in Seq(Frame) /\ (sent' = <<>> => v = w)
  BY <1>1, WireSent, ZenonT(40)
<1>3. RunHandler \/ TimerExpires => ~Init
  BY SMTT(20) DEF Init, RunHandler, TimerExpires
<1>4. ASSUME NEW a \in Unicast, Asserts(a)'
      PROVE  \/ LastClaim(v, a)
             \/ /\ v = w /\ Asserts(a)
                /\ Queued(AddressRequest(NO_ADDR)) => Queued(AddressRequest(NO_ADDR))'
  <2>1. sent' = <<claim_frame(a)>> => LastClaim(v, a)
    BY <1>1, <1>2, WireSent, UnicastIsAddress, ZenonT(40)
  <2>. QED
    BY <1>2, <1>4, <2>1, ToldStep
<1>. QED
  BY <1>1, <1>2, <1>3, <1>4, SMTT(20)

\* The claimer receives a frame f of the name m, or misses it because it is not
\* switched on.
Hears(m, f, is_on) ==
  \/ ~is_on /\ UNCHANGED vars
  \/ is_on /\ f.type = "request" /\ process_request(NO_ADDR)
  \/ is_on /\ f.type # "request" /\ process_claim(m, f.src)

\* A claimer that is switched on stands by its claim when a frame arrives, and a
\* request waits to be answered.
LEMMA TellerHears ==
  ASSUME NodeInv, NEW is_on, ~is_on => Init,
         NEW m \in Heard, NEW f \in Frame, Hears(m, f, is_on)
  PROVE  /\ NodeInv' /\ (~is_on => Init')
         /\ \A a \in Unicast : Asserts(a)' =>
              /\ Asserts(a)
              /\ f.type = "request" \/ Queued(AddressRequest(NO_ADDR)) =>
                   Queued(AddressRequest(NO_ADDR))'
<1>1. f.src \in Address /\ NO_ADDR \in Address /\ queue \in Seq(Handler)
  BY NoAddrIsAddress DEF Frame, NodeInv, Agreement, TypeOK
<1>2. CASE ~is_on /\ UNCHANGED vars
  BY <1>2, Untouched DEF Init, Asserts
<1>3. CASE is_on /\ (process_request(NO_ADDR) \/ process_claim(m, f.src))
  <2>1. PromptNext /\ sent' = <<>>
    BY <1>1, <1>3, SMTT(20) DEF PromptNext, Environment, process_request, process_claim
  <2>2. process_request(NO_ADDR) => Queued(AddressRequest(NO_ADDR))'
    BY <1>1, AppendFacts, EventTypes, SMTT(20) DEF process_request, post, Queued
  <2>. QED
    BY <1>3, <2>1, <2>2, NodeStep, ToldStep, SMTT(20) DEF Hears
<1>. QED
  BY <1>2, <1>3 DEF Hears

\* The steps other than the receipt of a claim.
NotHearing ==
  \/ RunHandler \/ (TimerExpires /\ queue = <<>>)
  \/ Start \/ \E dst \in Address : process_request(dst)

\* Nothing but its claims moves the entry of a stronger name; and a claimer that
\* has not heard of that name and has not asked goes on not having asked, or has
\* its request on the wire.
LEMMA ListenerStep ==
  ASSUME NodeInv, NotHearing, NEW w \in Seq(Frame), NEW v,
         v = w \o sent' \/ (v = w /\ sent' = <<>>),
         NEW m \in Name, m < Self, Heard = {m}
  PROVE  /\ NodeInv' /\ v \in Seq(Frame)
         /\ RunHandler \/ TimerExpires => ~Init
         /\ net'.name_addr[m] = net.name_addr[m]
         /\ HasRequest(w) => HasRequest(v)
         /\ Unasked /\ net.name_addr[m] = NO_ADDR => Unasked' \/ HasRequest(v)
<1>0. PromptNext
  BY DEF NotHearing, PromptNext, Environment
<1>1. Agreement /\ OnlyHeard
  BY DEF NodeInv
<1>2. net'.name_addr[m] = net.name_addr[m]
  <2>1. CASE RunHandler
    BY <1>1, <2>1, StrongerKept
  <2>2. CASE net' = net
    BY <2>2
  <2>. QED
    BY <2>1, <2>2 DEF NotHearing, process_request, Start, start_address_claim, TimerExpires
<1>3. ASSUME Unasked, net.name_addr[m] = NO_ADDR
      PROVE  Unasked' \/ sent' = <<request_frame>>
  <2>1. ~full(net)
    BY <1>1, <1>3, FullHeard DEF in_network, Unasked
  <2>2. [Next]_vars
    BY <1>0 DEF PromptNext, Next
  <2>. QED
    BY <1>1, <1>3, <2>1, <2>2, UnaskedStep, SMTT(20)
<1>4. NodeInv' /\ sent' \in Seq(Frame)
  BY <1>0, NodeStep
<1>5. /\ v \in Seq(Frame)
      /\ HasRequest(w) \/ sent' = <<request_frame>> => HasRequest(v)
  BY <1>4, WireSent, ZenonT(40) DEF request_frame
<1>6. RunHandler \/ TimerExpires => ~Init
  BY SMTT(20) DEF Init, RunHandler, TimerExpires
<1>. QED
  BY <1>2, <1>3, <1>4, <1>5, <1>6, SMTT(20)

\* The claim of the only other name is entered when that name is stronger.
LEMMA HearStep ==
  ASSUME NodeInv, NEW m \in Name, m < Self, Heard = {m}, NEW a \in Address, process_claim(m, a)
  PROVE  NodeInv' /\ (a \in Unicast => net'.name_addr[m] = a)
<1>1. m \in Heard /\ \A n \in Heard : m <= n
  BY J1939Assumption
<1>2. PromptNext
  BY <1>1 DEF PromptNext, Environment
<1>3. Agreement /\ OnlyHeard
  BY SMTT(30) DEF NodeInv
<1>. QED
  BY <1>1, <1>2, <1>3, NodeStep, StrongestHeard

\* A request changes nothing about what the claimer knows and has asked; a claim of
\* the other name is entered, or missed by a claimer that has yet to ask.
LEMMA ListenerHears ==
  ASSUME NodeInv, NEW is_on, ~is_on => Init,
         NEW m \in Name, m < Self, Heard = {m}, NEW f \in Frame, Hears(m, f, is_on)
  PROVE  /\ NodeInv' /\ (~is_on => Init')
         /\ f.type = "request" =>
              /\ net'.name_addr[m] = net.name_addr[m]
              /\ Unasked /\ net.name_addr[m] = NO_ADDR => Unasked'
         /\ f.type # "request" /\ f.src \in Unicast =>
              net'.name_addr[m] = f.src \/ (net'.name_addr[m] = NO_ADDR /\ Unasked')
<1>1. f.src \in Address /\ NO_ADDR \in Address
  BY NoAddrIsAddress, SMTT(30) DEF Frame
<1>2. CASE ~is_on /\ UNCHANGED vars
  <2>1. Unasked /\ net.name_addr[m] = NO_ADDR
    BY <1>2, NodeInit, SMTT(30) DEF NodeInv, Agreement
  <2>. QED
    BY <1>2, <2>1, Untouched, ZenonT(40)
<1>3. CASE is_on /\ f.type = "request" /\ process_request(NO_ADDR)
  <2>1. NotHearing /\ sent' = <<>>
    BY <1>1, <1>3 DEF NotHearing, process_request
  <2>2. <<>> \in Seq(Frame) /\ ~HasRequest(<<>>)
    BY DEF HasRequest
  <2>3. /\ NodeInv' /\ net'.name_addr[m] = net.name_addr[m]
        /\ Unasked /\ net.name_addr[m] = NO_ADDR => Unasked'
    BY <2>1, <2>2, ListenerStep, ZenonT(30)
  <2>. QED
    BY <1>3, <2>3
<1>4. CASE is_on /\ f.type # "request" /\ process_claim(m, f.src)
  BY <1>1, <1>4, HearStep
<1>. QED
  BY <1>2, <1>3, <1>4 DEF Hears

\* A holder whose network shows its address for another name has the claim
\* that takes the address from it in its queue.
LEMMA KnownIsLoss ==
  ASSUME NodeInv, NEW m \in Name, m # Self, st = "has_address",
         net.name_addr[m] = has_address
  PROVE  LossQueued(has_address)
<1>1. has_address \in Unicast /\ Self \in Name
  BY SelfAssumption DEF NodeInv, HeldIsUnicast
<1>2. net.name_addr[Self] # has_address
  BY <1>1 DEF NodeInv, Agreement, HoldersMatch
<1>. QED
  BY <1>2 DEF NodeInv, Agreement, HolderAgrees, get_address
==============================================================================
