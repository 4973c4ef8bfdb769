---------------------------- MODULE ClaimBusProofs ----------------------------
(***************************************************************************)
(* Two claimers on a bus, for any NAMEs, addresses, preferred addresses    *)
(* and number of starts, when waits expire after the handlers before them. *)
(* The facts about one claimer are those of ClaimerProofs, instantiated    *)
(* for each node.                                                          *)
(***************************************************************************)
EXTENDS ClaimBus, TLAPS

P1 == INSTANCE ClaimerProofs WITH
  Self <- First, Heard <- {Second}, st <- st1, claiming <- claiming1,
  has_address <- has_address1, net <- net1, timer <- timer1, sent <- sent1, queue <- queue1

P2 == INSTANCE ClaimerProofs WITH
  Self <- Second, Heard <- {First}, st <- st2, claiming <- claiming2,
  has_address <- has_address2, net <- net2, timer <- timer2, sent <- sent2, queue <- queue2

------------------------------------------------------------------------------
(* The actions of the bus are actions of the instances *)

\* The handlers of the first node in ClaimBus are those of the instance.
LEMMA SameHandlers1 == C1!RunHandler <=> P1!RunHandler
BY ZenonT(60)
   DEF C1!CannotClaim, P1!CannotClaim, C1!IDLE, P1!IDLE, C1!NO_ADDR, P1!NO_ADDR,
       C1!NoName, P1!NoName, C1!RandomRetry, P1!RandomRetry, C1!RawLeq, P1!RawLeq,
       C1!RunHandler, P1!RunHandler, C1!Timeout, P1!Timeout, C1!Unicast, P1!Unicast,
       C1!address_change_required, P1!address_change_required, C1!address_priority,
       P1!address_priority, C1!begin_claiming_address, P1!begin_claiming_address,
       C1!cannot_claim_frame, P1!cannot_claim_frame, C1!cannot_claim_handler,
       P1!cannot_claim_handler, C1!claim, P1!claim, C1!claim_frame, P1!claim_frame,
       C1!claimable, P1!claimable, C1!claimed_failure, P1!claimed_failure, C1!claimed_loss,
       P1!claimed_loss, C1!claimed_priority, P1!claimed_priority, C1!claiming_failure,
       P1!claiming_failure, C1!claiming_loss, P1!claiming_loss, C1!claiming_priority,
       P1!claiming_priority, C1!clamped, P1!clamped, C1!drop, P1!drop, C1!enter_address_lost,
       P1!enter_address_lost, C1!enter_claiming, P1!enter_claiming, C1!enter_has_address,
       P1!enter_has_address, C1!enter_no_address, P1!enter_no_address, C1!erase, P1!erase,
       C1!ev, P1!ev, C1!find_address, P1!find_address, C1!find_free, P1!find_free,
       C1!find_preferred, P1!find_preferred, C1!full, P1!full, C1!get_address, P1!get_address,
       C1!in_network, P1!in_network, C1!insert, P1!insert, C1!insert_idle, P1!insert_idle,
       C1!insert_unicast, P1!insert_unicast, C1!is_global_address_req,
       P1!is_global_address_req, C1!leave_has_address, P1!leave_has_address, C1!machine,
       P1!machine, C1!no_valid_address, P1!no_valid_address, C1!occupied, P1!occupied,
       C1!outranked, P1!outranked, C1!process_address_claim, P1!process_address_claim,
       C1!process_address_request, P1!process_address_request,
       C1!process_claim_while_claiming, P1!process_claim_while_claiming,
       C1!process_claim_while_holding, P1!process_claim_while_holding,
       C1!process_random_retry, P1!process_random_retry, C1!process_restart,
       P1!process_restart, C1!process_start_claim, P1!process_start_claim, C1!process_timeout,
       P1!process_timeout, C1!refuse, P1!refuse, C1!release, P1!release, C1!reply, P1!reply,
       C1!request_frame, P1!request_frame, C1!retry_allowed, P1!retry_allowed, C1!search,
       P1!search, C1!self_config_address, P1!self_config_address, C1!send_cannot_claim,
       P1!send_cannot_claim, C1!set_address, P1!set_address, C1!set_idle, P1!set_idle,
       C1!try_emplace, P1!try_emplace, C1!valid_address, P1!valid_address,
       C1!valid_address_request, P1!valid_address_request, C1!valid_claiming_request,
       P1!valid_claiming_request, C1!Min, P1!Min, C1!Cardinality, P1!Cardinality

\* The constructor's state, the timer and the calls from outside are as well.
LEMMA SameCalls1 ==
  /\ C1!Init <=> P1!Init
  /\ C1!TimerExpires <=> P1!TimerExpires
  /\ \A pref : C1!start_address_claim(pref) <=> P1!start_address_claim(pref)
  /\ \A dst : C1!process_request(dst) <=> P1!process_request(dst)
  /\ \A m, a : C1!process_claim(m, a) <=> P1!process_claim(m, a)
<1>1. C1!Init <=> P1!Init
  BY ZenonT(60)
     DEF C1!EmptyTable, P1!EmptyTable, C1!Init, P1!Init, C1!NO_ADDR, P1!NO_ADDR,
         C1!NoName, P1!NoName, C1!NoTimer, P1!NoTimer, C1!Unicast, P1!Unicast
<1>2. C1!TimerExpires <=> P1!TimerExpires
  BY ZenonT(60)
     DEF C1!NO_ADDR, P1!NO_ADDR, C1!NoName, P1!NoName, C1!NoTimer, P1!NoTimer,
         C1!TimerExpires, P1!TimerExpires, C1!machine, P1!machine, C1!post, P1!post
<1>3. ASSUME NEW pref
      PROVE  C1!start_address_claim(pref) <=> P1!start_address_claim(pref)
  BY ZenonT(60)
     DEF C1!HasRoom, P1!HasRoom, C1!NO_ADDR, P1!NO_ADDR, C1!NoName, P1!NoName,
         C1!Restart, P1!Restart, C1!StartClaim, P1!StartClaim, C1!ev, P1!ev, C1!machine,
         P1!machine, C1!post, P1!post, C1!start_address_claim, P1!start_address_claim
<1>4. ASSUME NEW dst
      PROVE  C1!process_request(dst) <=> P1!process_request(dst)
  BY ZenonT(60)
     DEF C1!AddressRequest, P1!AddressRequest, C1!HasRoom, P1!HasRoom, C1!NoName,
         P1!NoName, C1!ev, P1!ev, C1!machine, P1!machine, C1!post, P1!post,
         C1!process_request, P1!process_request
<1>5. ASSUME NEW m, NEW a
      PROVE  C1!process_claim(m, a) <=> P1!process_claim(m, a)
  BY ZenonT(60)
     DEF C1!AddressClaim, P1!AddressClaim, C1!HasRoom, P1!HasRoom, C1!IDLE, P1!IDLE,
         C1!NO_ADDR, P1!NO_ADDR, C1!NoName, P1!NoName, C1!Unicast, P1!Unicast, C1!claim,
         P1!claim, C1!erase, P1!erase, C1!ev, P1!ev, C1!get_address, P1!get_address,
         C1!in_network, P1!in_network, C1!insert, P1!insert, C1!insert_idle,
         P1!insert_idle, C1!insert_unicast, P1!insert_unicast, C1!inserted, P1!inserted,
         C1!machine, P1!machine, C1!occupied, P1!occupied, C1!outranked, P1!outranked,
         C1!post, P1!post, C1!process_claim, P1!process_claim, C1!set_address,
         P1!set_address, C1!set_idle, P1!set_idle, C1!try_emplace, P1!try_emplace
<1>. QED
  BY <1>1, <1>2, <1>3, <1>4, <1>5, Zenon

\* The handlers of the second node in ClaimBus are those of the instance.
LEMMA SameHandlers2 == C2!RunHandler <=> P2!RunHandler
BY ZenonT(60)
   DEF C2!CannotClaim, P2!CannotClaim, C2!IDLE, P2!IDLE, C2!NO_ADDR, P2!NO_ADDR,
       C2!NoName, P2!NoName, C2!RandomRetry, P2!RandomRetry, C2!RawLeq, P2!RawLeq,
       C2!RunHandler, P2!RunHandler, C2!Timeout, P2!Timeout, C2!Unicast, P2!Unicast,
       C2!address_change_required, P2!address_change_required, C2!address_priority,
       P2!address_priority, C2!begin_claiming_address, P2!begin_claiming_address,
       C2!cannot_claim_frame, P2!cannot_claim_frame, C2!cannot_claim_handler,
       P2!cannot_claim_handler, C2!claim, P2!claim, C2!claim_frame, P2!claim_frame,
       C2!claimable, P2!claimable, C2!claimed_failure, P2!claimed_failure, C2!claimed_loss,
       P2!claimed_loss, C2!claimed_priority, P2!claimed_priority, C2!claiming_failure,
       P2!claiming_failure, C2!claiming_loss, P2!claiming_loss, C2!claiming_priority,
       P2!claiming_priority, C2!clamped, P2!clamped, C2!drop, P2!drop, C2!enter_address_lost,
       P2!enter_address_lost, C2!enter_claiming, P2!enter_claiming, C2!enter_has_address,
       P2!enter_has_address, C2!enter_no_address, P2!enter_no_address, C2!erase, P2!erase,
       C2!ev, P2!ev, C2!find_address, P2!find_address, C2!find_free, P2!find_free,
       C2!find_preferred, P2!find_preferred, C2!full, P2!full, C2!get_address, P2!get_address,
       C2!in_network, P2!in_network, C2!insert, P2!insert, C2!insert_idle, P2!insert_idle,
       C2!insert_unicast, P2!insert_unicast, C2!is_global_address_req,
       P2!is_global_address_req, C2!leave_has_address, P2!leave_has_address, C2!machine,
       P2!machine, C2!no_valid_address, P2!no_valid_address, C2!occupied, P2!occupied,
       C2!outranked, P2!outranked, C2!process_address_claim, P2!process_address_claim,
       C2!process_address_request, P2!process_address_request,
       C2!process_claim_while_claiming, P2!process_claim_while_claiming,
       C2!process_claim_while_holding, P2!process_claim_while_holding,
       C2!process_random_retry, P2!process_random_retry, C2!process_restart,
       P2!process_restart, C2!process_start_claim, P2!process_start_claim, C2!process_timeout,
       P2!process_timeout, C2!refuse, P2!refuse, C2!release, P2!release, C2!reply, P2!reply,
       C2!request_frame, P2!request_frame, C2!retry_allowed, P2!retry_allowed, C2!search,
       P2!search, C2!self_config_address, P2!self_config_address, C2!send_cannot_claim,
       P2!send_cannot_claim, C2!set_address, P2!set_address, C2!set_idle, P2!set_idle,
       C2!try_emplace, P2!try_emplace, C2!valid_address, P2!valid_address,
       C2!valid_address_request, P2!valid_address_request, C2!valid_claiming_request,
       P2!valid_claiming_request, C2!Min, P2!Min, C2!Cardinality, P2!Cardinality

\* The constructor's state, the timer and the calls from outside are as well.
LEMMA SameCalls2 ==
  /\ C2!Init <=> P2!Init
  /\ C2!TimerExpires <=> P2!TimerExpires
  /\ \A pref : C2!start_address_claim(pref) <=> P2!start_address_claim(pref)
  /\ \A dst : C2!process_request(dst) <=> P2!process_request(dst)
  /\ \A m, a : C2!process_claim(m, a) <=> P2!process_claim(m, a)
<1>1. C2!Init <=> P2!Init
  BY ZenonT(60)
     DEF C2!EmptyTable, P2!EmptyTable, C2!Init, P2!Init, C2!NO_ADDR, P2!NO_ADDR,
         C2!NoName, P2!NoName, C2!NoTimer, P2!NoTimer, C2!Unicast, P2!Unicast
<1>2. C2!TimerExpires <=> P2!TimerExpires
  BY ZenonT(60)
     DEF C2!NO_ADDR, P2!NO_ADDR, C2!NoName, P2!NoName, C2!NoTimer, P2!NoTimer,
         C2!TimerExpires, P2!TimerExpires, C2!machine, P2!machine, C2!post, P2!post
<1>3. ASSUME NEW pref
      PROVE  C2!start_address_claim(pref) <=> P2!start_address_claim(pref)
  BY ZenonT(60)
     DEF C2!HasRoom, P2!HasRoom, C2!NO_ADDR, P2!NO_ADDR, C2!NoName, P2!NoName,
         C2!Restart, P2!Restart, C2!StartClaim, P2!StartClaim, C2!ev, P2!ev, C2!machine,
         P2!machine, C2!post, P2!post, C2!start_address_claim, P2!start_address_claim
<1>4. ASSUME NEW dst
      PROVE  C2!process_request(dst) <=> P2!process_request(dst)
  BY ZenonT(60)
     DEF C2!AddressRequest, P2!AddressRequest, C2!HasRoom, P2!HasRoom, C2!NoName,
         P2!NoName, C2!ev, P2!ev, C2!machine, P2!machine, C2!post, P2!post,
         C2!process_request, P2!process_request
<1>5. ASSUME NEW m, NEW a
      PROVE  C2!process_claim(m, a) <=> P2!process_claim(m, a)
  BY ZenonT(60)
     DEF C2!AddressClaim, P2!AddressClaim, C2!HasRoom, P2!HasRoom, C2!IDLE, P2!IDLE,
         C2!NO_ADDR, P2!NO_ADDR, C2!NoName, P2!NoName, C2!Unicast, P2!Unicast, C2!claim,
         P2!claim, C2!erase, P2!erase, C2!ev, P2!ev, C2!get_address, P2!get_address,
         C2!in_network, P2!in_network, C2!insert, P2!insert, C2!insert_idle,
         P2!insert_idle, C2!insert_unicast, P2!insert_unicast, C2!inserted, P2!inserted,
         C2!machine, P2!machine, C2!occupied, P2!occupied, C2!outranked, P2!outranked,
         C2!post, P2!post, C2!process_claim, P2!process_claim, C2!set_address,
         P2!set_address, C2!set_idle, P2!set_idle, C2!try_emplace, P2!try_emplace
<1>. QED
  BY <1>1, <1>2, <1>3, <1>4, <1>5, Zenon

------------------------------------------------------------------------------
(* The constants and the properties of the bus in terms of the instances *)

\* What the instances assume of their constants, which are those of the bus.
LEMMA Constants ==
  /\ {First} \subseteq Name /\ {Second} \subseteq Name /\ MaxQueue \in Nat
  /\ First \in Name /\ RetryPref \in P1!Address
  /\ Second \in Name /\ RetryPref \in P2!Address
  /\ First < Second /\ First # Second
  /\ MaxUnicast \in Nat /\ Name \subseteq Nat /\ SelfConfig \subseteq Name
  /\ P1!Address = Address /\ P2!Address = Address /\ Pref \subseteq Address
  /\ P1!NO_ADDR = NO_ADDR /\ P2!NO_ADDR = NO_ADDR
  /\ P1!Frame = P2!Frame
<1>1. First \in Nat /\ Second \in Nat
  BY BusAssumption, J1939Assumption, ZenonT(60)
<1>. QED
  BY <1>1, BusAssumption, J1939Assumption, SMTT(60)
     DEF Address, P1!Address, P2!Address, NO_ADDR, P1!NO_ADDR, P2!NO_ADDR,
         Unicast, P1!Frame, P2!Frame

------------------------------------------------------------------------------
(* What the weaker node knows of the stronger one *)

\* The stronger node has been asked for its address and has not answered yet.
Asked == P2!HasRequest(wire2) \/ P1!Queued(P1!AddressRequest(P1!NO_ADDR))

\* The weaker node has heard that the stronger one has address a, or has heard
\* nothing of it and will ask or has asked.
Heeds(a) ==
  \/ net2.name_addr[First] = a
  \/ net2.name_addr[First] = P2!NO_ADDR /\ (P2!Unasked \/ Asked)

\* An address the stronger node stands by is in the last claim on its wire, or
\* no claim is on its wire and the weaker node heeds it.
Informed ==
  \A a \in P1!Unicast :
    P1!Asserts(a) => P1!LastClaim(wire1, a) \/ (P1!OnlyRequests(wire1) /\ Heeds(a))

\* A node that is not switched on is as it was built.
Inv ==
  /\ P1!NodeInv /\ P2!NodeInv
  /\ First \notin on => P1!Init
  /\ Second \notin on => P2!Init
  /\ wire1 \in Seq(P1!Frame) /\ wire2 \in Seq(P2!Frame)
  /\ Informed

\* A step of the first node: what it stands by is what it sent last.
LEMMA Step1 ==
  ASSUME Inv, Prompt = TRUE, Run1 \/ \E pref \in Pref : Start1(pref)
  PROVE  Inv'
<1>1. /\ P1!PromptNext /\ P2!vars' = P2!vars /\ wire2' = wire2 /\ on' = on
      /\ wire1' = wire1 \o sent1' \/ (wire1' = wire1 /\ sent1' = <<>>)
      /\ First \in on \/ P1!RunHandler \/ P1!TimerExpires
  BY SameHandlers1, SameCalls1, Constants, SMTT(60)
     DEF Run1, Start1, P1!PromptNext, P1!Environment, P1!Start, P1!start_address_claim,
         node2, P2!vars
<1>2. /\ P1!NodeInv' /\ wire1' \in Seq(P1!Frame) /\ First \in on
      /\ \A a \in P1!Unicast : P1!Asserts(a)' =>
           \/ P1!LastClaim(wire1', a)
           \/ /\ wire1' = wire1 /\ P1!Asserts(a)
              /\ P1!Queued(P1!AddressRequest(P1!NO_ADDR)) =>
                   P1!Queued(P1!AddressRequest(P1!NO_ADDR))'
  BY <1>1, Constants, P1!TellerStep, ZenonT(60) DEF Inv
<1>3. /\ P2!NodeInv' /\ net2' = net2
      /\ P2!Unasked => P2!Unasked'
      /\ P2!Init => P2!Init'
  BY <1>1, Constants, P2!Untouched, SMTT(60) DEF Inv
<1>4. Informed'
  BY <1>1, <1>2, <1>3, ZenonT(60) DEF Inv, Informed, Heeds, Asked
<1>. QED
  BY <1>1, <1>2, <1>3, <1>4, ZenonT(60) DEF Inv

\* A step of the second node moves no entry of the first, and it asks before it
\* claims.
LEMMA Step2 ==
  ASSUME Inv, Prompt = TRUE, Run2 \/ \E pref \in Pref : Start2(pref)
  PROVE  Inv'
<1>1. /\ P2!NotHearing /\ P1!vars' = P1!vars /\ wire1' = wire1 /\ on' = on
      /\ wire2' = wire2 \o sent2' \/ (wire2' = wire2 /\ sent2' = <<>>)
      /\ Second \in on \/ P2!RunHandler \/ P2!TimerExpires
  BY SameHandlers2, SameCalls2, Constants, SMTT(60)
     DEF Run2, Start2, P2!NotHearing, P2!Start, P2!start_address_claim, node1, P1!vars
<1>2. /\ P2!NodeInv' /\ wire2' \in Seq(P2!Frame) /\ Second \in on
      /\ net2'.name_addr[First] = net2.name_addr[First]
      /\ P2!HasRequest(wire2) => P2!HasRequest(wire2')
      /\ P2!Unasked /\ net2.name_addr[First] = P2!NO_ADDR =>
           P2!Unasked' \/ P2!HasRequest(wire2')
  BY <1>1, Constants, P2!ListenerStep, ZenonT(60) DEF Inv
<1>3. /\ P1!NodeInv'
      /\ P1!Init => P1!Init'
      /\ \A a : P1!Asserts(a)' => P1!Asserts(a)
      /\ \A h : P1!Queued(h) => P1!Queued(h)'
  BY <1>1, Constants, P1!Untouched, SMTT(60) DEF Inv
<1>4. Informed'
  BY <1>1, <1>2, <1>3, ZenonT(60) DEF Inv, Informed, Heeds, Asked
<1>. QED
  BY <1>1, <1>2, <1>3, <1>4, ZenonT(60) DEF Inv

\* The first node receives a frame: it stands by its claim, and a request is
\* queued until it is answered.
LEMMA Step3 ==
  ASSUME Inv, Receive1
  PROVE  Inv'
<1>1. /\ wire2 # <<>> /\ wire2' = Tail(wire2) /\ wire1' = wire1 /\ on' = on
      /\ P2!vars' = P2!vars
      /\ P1!Hears(Second, Head(wire2), First \in on)
  BY SameCalls1, Constants, SMTT(60) DEF Receive1, P1!Hears, node1, node2, P1!vars, P2!vars
<1>2. /\ Head(wire2) \in P2!Frame /\ wire2' \in Seq(P2!Frame)
      /\ P2!HasRequest(wire2) => Head(wire2).type = "request" \/ P2!HasRequest(wire2')
  BY <1>1, Constants, P2!WireReceived, ZenonT(60) DEF Inv
<1>3. /\ P1!NodeInv' /\ (First \notin on => P1!Init')
      /\ \A a \in P1!Unicast : P1!Asserts(a)' =>
           /\ P1!Asserts(a)
           /\ Head(wire2).type = "request" \/ P1!Queued(P1!AddressRequest(P1!NO_ADDR)) =>
                P1!Queued(P1!AddressRequest(P1!NO_ADDR))'
  BY <1>1, <1>2, Constants, P1!TellerHears, ZenonT(60) DEF Inv
<1>4. /\ P2!NodeInv' /\ net2' = net2
      /\ P2!Unasked => P2!Unasked'
      /\ P2!Init => P2!Init'
  BY <1>1, Constants, P2!Untouched, SMTT(60) DEF Inv
<1>5. Informed'
  BY <1>1, <1>2, <1>3, <1>4, ZenonT(60) DEF Inv, Informed, Heeds, Asked
<1>. QED
  BY <1>1, <1>2, <1>3, <1>4, <1>5, ZenonT(60) DEF Inv

\* The second node receives a frame: after the last claim of the first node it
\* knows the address, or it is not switched on and has yet to ask.
LEMMA Step4 ==
  ASSUME Inv, Receive2
  PROVE  Inv'
<1>1. /\ wire1 # <<>> /\ wire1' = Tail(wire1) /\ wire2' = wire2 /\ on' = on
      /\ P1!vars' = P1!vars
      /\ P2!Hears(First, Head(wire1), Second \in on)
  BY SameCalls2, Constants, SMTT(60) DEF Receive2, P2!Hears, node1, node2, P1!vars, P2!vars
<1>2. /\ Head(wire1) \in P2!Frame /\ wire1' \in Seq(P1!Frame)
      /\ P1!OnlyRequests(wire1) =>
           Head(wire1).type = "request" /\ P1!OnlyRequests(wire1')
      /\ \A a \in P1!Address : P1!LastClaim(wire1, a) =>
           \/ P1!LastClaim(wire1', a)
           \/ Head(wire1) = P1!claim_frame(a) /\ P1!OnlyRequests(wire1')
  BY <1>1, Constants, P1!WireReceived, ZenonT(60) DEF Inv
<1>3. /\ P2!NodeInv' /\ (Second \notin on => P2!Init')
      /\ Head(wire1).type = "request" =>
           /\ net2'.name_addr[First] = net2.name_addr[First]
           /\ P2!Unasked /\ net2.name_addr[First] = P2!NO_ADDR => P2!Unasked'
      /\ Head(wire1).type # "request" /\ Head(wire1).src \in P2!Unicast =>
           \/ net2'.name_addr[First] = Head(wire1).src
           \/ net2'.name_addr[First] = P2!NO_ADDR /\ P2!Unasked'
  BY <1>1, <1>2, Constants, P2!ListenerHears, ZenonT(60) DEF Inv
<1>4. /\ P1!NodeInv'
      /\ P1!Init => P1!Init'
      /\ \A a : P1!Asserts(a)' => P1!Asserts(a)
      /\ \A h : P1!Queued(h) => P1!Queued(h)'
  BY <1>1, Constants, P1!Untouched, SMTT(60) DEF Inv
<1>5. ASSUME NEW a \in P1!Unicast
      PROVE  /\ a \in P1!Address /\ a \in P2!Unicast
             /\ P1!claim_frame(a).type # "request" /\ P1!claim_frame(a).src = a
  BY Constants, SMTT(60) DEF P1!claim_frame, P1!Unicast, P2!Unicast, Address, NO_ADDR
<1>6. Informed'
  BY <1>1, <1>2, <1>3, <1>4, <1>5, ZenonT(60) DEF Inv, Informed, Heeds, Asked
<1>. QED
  BY <1>1, <1>2, <1>3, <1>4, <1>6, ZenonT(60) DEF Inv

\* Switching a node on changes neither node.
LEMMA Step5 ==
  ASSUME Inv, (\E n \in {First, Second} : SwitchOn(n)) \/ UNCHANGED vars
  PROVE  Inv'
<1>1. /\ wire1' = wire1 /\ wire2' = wire2 /\ on \subseteq on'
      /\ P1!vars' = P1!vars /\ P2!vars' = P2!vars
  BY SMTT(60) DEF SwitchOn, vars, node1, node2, P1!vars, P2!vars
<1>2. /\ P1!NodeInv' /\ (P1!Init => P1!Init')
      /\ \A a : P1!Asserts(a)' => P1!Asserts(a)
      /\ \A h : P1!Queued(h) => P1!Queued(h)'
  BY <1>1, Constants, P1!Untouched, SMTT(60) DEF Inv
<1>3. /\ P2!NodeInv' /\ (P2!Init => P2!Init') /\ net2' = net2
      /\ P2!Unasked => P2!Unasked'
  BY <1>1, Constants, P2!Untouched, SMTT(60) DEF Inv
<1>. QED
  BY <1>1, <1>2, <1>3, ZenonT(60) DEF Inv, Informed, Heeds, Asked

------------------------------------------------------------------------------
(* The theorems *)

\* The invariant holds before any node is switched on.
LEMMA InvInit == Init => Inv
<1>. SUFFICES ASSUME Init PROVE Inv
  BY SMTT(60)
<1>1. P1!Init /\ P2!Init /\ wire1 = <<>> /\ wire2 = <<>>
  BY SameCalls1, SameCalls2, ZenonT(60) DEF Init
<1>2. P1!NodeInv /\ P2!NodeInv /\ \A a : ~P1!Asserts(a)
  BY <1>1, Constants, P1!NodeInit, P2!NodeInit, SMTT(60)
<1>3. wire1 \in Seq(P1!Frame) /\ wire2 \in Seq(P2!Frame)
  BY <1>1, SMTT(60)
<1>. QED
  BY <1>1, <1>2, <1>3, ZenonT(60) DEF Inv, Informed

\* Every step keeps the invariant when waits expire after the handlers before them.
LEMMA InvStep ==
  ASSUME Prompt = TRUE, Inv, [Next]_vars
  PROVE  Inv'
BY Step1, Step2, Step3, Step4, Step5, ZenonT(60) DEF Next

\* The properties in terms of the instances.
LEMMA SameProperties ==
  /\ P2!LossQueued(has_address2) => C2!LossQueued(has_address2)
  /\ P1!Queued(P1!AddressRequest(P1!NO_ADDR)) => C1!Queued(C1!AddressRequest(NO_ADDR))
  /\ C2!get_address(net2, First) = net2.name_addr[First]
<1>1. P2!LossQueued(has_address2) => C2!LossQueued(has_address2)
  BY ZenonT(60) DEF P2!LossQueued, C2!LossQueued, P2!Range, C2!Range,
                    P2!address_priority, C2!address_priority
<1>2. P1!Queued(P1!AddressRequest(P1!NO_ADDR)) => C1!Queued(C1!AddressRequest(NO_ADDR))
  BY ZenonT(60) DEF P1!Queued, C1!Queued, P1!Range, C1!Range, P1!AddressRequest,
                    C1!AddressRequest, P1!ev, C1!ev, P1!NoName, C1!NoName, P1!NO_ADDR, NO_ADDR
<1>3. C2!get_address(net2, First) = net2.name_addr[First]
  BY ZenonT(60) DEF C2!get_address
<1>. QED
  BY <1>1, <1>2, <1>3, SMTT(60)

\* What the invariant says of two holders: the address of the first is on its way to
\* the second, or known to it, or has been asked for.
LEMMA Holders ==
  ASSUME Inv, st1 = "has_address", st2 = "has_address"
  PROVE  \/ \E f \in Range(wire1) : f.type = "claim" /\ f.src = has_address1
         \/ net2.name_addr[First] = has_address1
         \/ \E f \in Range(wire2) : f.type = "request"
         \/ P1!Queued(P1!AddressRequest(P1!NO_ADDR))
<1>1. has_address1 \in P1!Unicast /\ P1!Asserts(has_address1) /\ ~P2!Unasked
  BY SMTT(60) DEF Inv, P1!NodeInv, P1!HeldIsUnicast, P1!Asserts, P2!Unasked
<1>2. \/ P1!LastClaim(wire1, has_address1) \/ net2.name_addr[First] = has_address1
      \/ P2!HasRequest(wire2) \/ P1!Queued(P1!AddressRequest(P1!NO_ADDR))
  BY <1>1, ZenonT(60) DEF Inv, Informed, Heeds, Asked
<1>3. wire1 \in Seq(P1!Frame) /\ wire2 \in Seq(P2!Frame)
  BY SMTT(60) DEF Inv
<1>4. CASE P1!LastClaim(wire1, has_address1)
  BY <1>3, <1>4, SMTT(60) DEF P1!LastClaim, P1!claim_frame, Range
<1>5. CASE P2!HasRequest(wire2)
  BY <1>3, <1>5, SMTT(60) DEF P2!HasRequest, Range
<1>. QED
  BY <1>2, <1>4, <1>5, SMTT(60)

\* Two nodes hold one address only while the weaker one is about to be told: for any
\* NAMEs, addresses and number of starts, on a bus that keeps the order of a node's
\* frames, when waits expire after the handlers before them.
THEOREM ConflictAlwaysReported ==
  ASSUME Prompt = TRUE
  PROVE  Spec => []ConflictIsReported
<1>1. Inv => ConflictIsReported
  <2>. SUFFICES ASSUME Inv, Conflict
                PROVE  \/ \E f \in Range(wire1) : f.type = "claim" /\ f.src = has_address1
                       \/ C2!LossQueued(has_address2)
                       \/ \E f \in Range(wire2) : f.type = "request"
                       \/ C1!Queued(C1!AddressRequest(NO_ADDR))
    BY SMTT(60) DEF ConflictIsReported
  <2>1. net2.name_addr[First] = has_address1 => P2!LossQueued(has_address2)
    BY Constants, P2!KnownIsLoss, SMTT(60) DEF Inv, Conflict
  <2>. QED
    BY <2>1, Holders, SameProperties, ZenonT(60) DEF Conflict
<1>. QED
  BY <1>1, InvInit, InvStep, PTL DEF Spec

\* Once nothing is on its way, the network of the weaker of two holders shows the
\* address of the stronger one, under the same conditions.
THEOREM StrongerAlwaysKnown ==
  ASSUME Prompt = TRUE
  PROVE  Spec => []StrongerIsKnown
<1>1. Inv => StrongerIsKnown
  <2>. SUFFICES ASSUME Inv, Silent, st1 = "has_address", st2 = "has_address"
                PROVE  C2!get_address(net2, First) = has_address1
    BY SMTT(60) DEF StrongerIsKnown
  <2>1. /\ ~\E f \in Range(wire1) : TRUE
        /\ ~\E f \in Range(wire2) : TRUE
        /\ ~P1!Queued(P1!AddressRequest(P1!NO_ADDR))
    BY SMTT(60) DEF Silent, Range, P1!Queued, P1!Range
  <2>. QED
    BY <2>1, Holders, SameProperties, ZenonT(60)
<1>. QED
  BY <1>1, InvInit, InvStep, PTL DEF Spec

==============================================================================
