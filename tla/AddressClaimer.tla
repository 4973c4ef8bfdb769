---------------------------- MODULE AddressClaimer ----------------------------
(***************************************************************************)
(* jay::address_claimer (address_claimer.hpp): the state machine driven by *)
(* handlers that run one at a time on the io_context, in the order they    *)
(* were queued, and by one timer shared by the start delay, the claim      *)
(* timeout and the cannot-claim delay.                                     *)
(*                                                                         *)
(* Boost.Asio is external.  expires_from_now cancels a wait that is still  *)
(* pending (its handler runs with operation_aborted and does nothing); a   *)
(* wait that has expired has its handler in the queue and is not cancelled *)
(* any more.  Delays are not measured: a pending wait may expire at any    *)
(* moment.                                                                 *)
(***************************************************************************)
EXTENDS AddressStateMachine

CONSTANTS
  Heard,      \* the NAMEs whose claims the node receives
  MaxQueue    \* bound: no call from outside while this many handlers wait

ASSUME ClaimerAssumption == Heard \subseteq Name /\ MaxQueue \in Nat

VARIABLE queue   \* the handlers waiting in the io_context

vars == <<st, claiming, has_address, net, timer, sent, queue>>

Init ==
  /\ st = "no_address"
  /\ claiming = NO_ADDR
  /\ has_address = NO_ADDR
  /\ net = EmptyTable
  /\ timer = NoTimer
  /\ sent = <<>>
  /\ queue = <<>>

------------------------------------------------------------------------------
(* Calls from outside *)

HasRoom == Len(queue) < MaxQueue

post(h) == queue' = Append(queue, h)

\* Seeded fault: the claim changes the network and is not passed on.
process_claim_no_event(m, a) ==
  /\ HasRoom
  /\ net' = insert(net, m, a)
  /\ sent' = <<>>
  /\ UNCHANGED <<machine, timer, queue>>

\* A claim frame arrives; a cannot-claim frame is one with source IDLE.  The
\* network learns of it at once, the state machine when the handler runs, and
\* never if insert refused it.
process_claim(m, a) ==
  /\ HasRoom
  /\ net' = insert(net, m, a)
  /\ IF inserted(net, m, a) THEN post(AddressClaim(m, a)) ELSE UNCHANGED queue
  /\ sent' = <<>>
  /\ UNCHANGED <<machine, timer>>

\* A request frame arrives, addressed to dst.
process_request(dst) ==
  /\ HasRoom
  /\ post(AddressRequest(dst))
  /\ sent' = <<>>
  /\ UNCHANGED <<machine, net, timer>>

start_address_claim(pref) ==
  /\ HasRoom
  /\ st = "no_address"
  /\ post(Restart)
  /\ timer' = StartClaim(pref)
  /\ sent' = <<>>
  /\ UNCHANGED <<machine, net>>

------------------------------------------------------------------------------
(* The io_context *)

\* Seeded fault: a wait that was cancelled runs its handler.
TimerExpires_cancelled ==
  /\ post(timer)
  /\ timer' = NoTimer
  /\ sent' = <<>>
  /\ UNCHANGED <<machine, net>>

\* The pending wait expires and its handler is queued.
TimerExpires ==
  /\ timer # NoTimer
  /\ post(timer)
  /\ timer' = NoTimer
  /\ sent' = <<>>
  /\ UNCHANGED <<machine, net>>

\* Seeded fault: the retry is not posted.
cannot_claim_handler_no_retry ==
  /\ sent' = <<cannot_claim_frame>>
  /\ queue' = Tail(queue)
  /\ UNCHANGED <<machine, net, timer>>

\* The handler of on_cannot_claim's wait.
cannot_claim_handler ==
  /\ sent' = <<cannot_claim_frame>>
  /\ queue' = IF self_config_address(Self) THEN Append(Tail(queue), RandomRetry)
                                           ELSE Tail(queue)
  /\ UNCHANGED <<machine, net, timer>>

\* The first handler in the queue runs.
RunHandler ==
  /\ queue # <<>>
  /\ LET h == Head(queue)
     IN  \/ h.type = "cannot" /\ cannot_claim_handler
         \/ /\ queue' = Tail(queue)
            /\ \/ h.type = "restart" /\ process_restart
               \/ h.type = "start" /\ process_start_claim(h.addr)
               \/ h.type = "claim" /\ process_address_claim(h.name, h.addr)
               \/ h.type = "request" /\ process_address_request(h.addr)
               \/ h.type = "timeout" /\ process_timeout
               \/ h.type = "retry" /\ process_random_retry

------------------------------------------------------------------------------

Start == \E pref \in Address : start_address_claim(pref)

\* What reaches the claimer from the bus and from the application.
Environment ==
  \/ \E m \in Heard, a \in Address : process_claim(m, a)
  \/ \E dst \in Address : process_request(dst)
  \/ Start

Next == Environment \/ TimerExpires \/ RunHandler

\* io_context::run keeps running handlers, and a wait that is not cancelled
\* expires.
Fairness == WF_vars(TimerExpires) /\ WF_vars(RunHandler)

Spec == Init /\ [][Next]_vars

FairSpec == Spec /\ Fairness

------------------------------------------------------------------------------
(* Properties *)

\* The state machine's data, the network, the armed timer and the queue hold
\* what their types allow: a timer whose wait completed is no longer armed, and
\* only the handlers of the claimer are queued.
TypeOK ==
  /\ st \in State
  /\ claiming \in Address
  /\ has_address \in Address
  /\ net \in Table
  /\ timer \in Handler \cup {NoTimer}
  /\ sent \in Seq(Frame)
  /\ queue \in Seq(Handler)

Queued(h) == h \in Range(queue)

\* A claim of address a by a name that Self has no priority over is waiting to
\* be processed by the state machine.
LossQueued(a) ==
  \E h \in Range(queue) : h.type = "claim" /\ h.addr = a /\ ~address_priority(h.name)

\* The network and the state machine agree on the address of Self, though they
\* learn of a claim at different times: process_claim changes the network at
\* once, the state machine only when the posted event runs.  A machine in
\* st_has_address whose address the network gave to another name has the
\* event that takes the address from it in the queue.
HolderAgrees ==
  st = "has_address" => \/ get_address(net, Self) = has_address
                        \/ LossQueued(has_address)

\* The other direction: an address the network shows for Self is the one the
\* state machine holds (on_exit of st_has_address released the earlier ones).
NetworkAgrees ==
  get_address(net, Self) \in Unicast =>
    st = "has_address" /\ has_address = get_address(net, Self)

\* While claiming, a self configurable name has a usable address in hand, and
\* what will end the claim is under way: the timeout is pending or queued, or
\* the claim that takes the address from it is queued.  (One timer serves
\* three purposes and each use cancels the one before.)
ClaimCannotStall ==
  self_config_address(Self) /\ st = "claiming" =>
    /\ claiming \in Unicast
    /\ timer = Timeout \/ Queued(Timeout) \/ LossQueued(claiming)

\* A name the network has sent to IDLE does not keep its address: the state
\* machine leaves st_has_address.
LossIsNoticed ==
  (st = "has_address" /\ get_address(net, Self) # has_address) ~> (st # "has_address")

\* A self configurable name that found all addresses taken tries again or gives
\* up; it does not stay in st_address_lost.
LostIsLeft == (st = "address_lost") ~> (st # "address_lost")

\* Once the bus and the application are silent, claiming comes to an end.
ClaimingSettles == <>[][~Environment]_vars => <>[](st # "claiming")

\* A request to all for the address is answered, by a claim or, after the
\* random delay, by a cannot-claim frame, unless the application goes on calling
\* start_address_claim for ever (each call cancels the pending answer).
RequestIsAnswered ==
  <>[][~Start]_vars =>
    (Queued(AddressRequest(NO_ADDR)) ~>
       (\E f \in Range(sent) : f.type \in {"claim", "cannot_claim"}))

------------------------------------------------------------------------------
(* Statements of the source's comments and tests that the code does not     *)
(* satisfy                                                                  *)

\* no_valid_address, "@return true if claiming address is not available in
\* network and and name does not have an address in the network".  A name that
\* is not in the network has the address NO_ADDR, not IDLE; neither guard of
\* ev_timeout holds, the event is dropped and no timer is left.
NoValidAddressAsDocumented ==
  st = "claiming" /\ ~valid_address => no_valid_address

\* state_machine_test.cpp, "Get competing address claim from device with lower
\* priority": the holder answers with its own claim.  process_claim does not
\* pass the event on when insert refuses the claim, which is this case.
HeldAddressIsDefended ==
  [][\A m \in Heard :
       st = "has_address" /\ address_priority(m) /\ process_claim(m, has_address)
         => queue' = Append(queue, AddressClaim(m, has_address))]_vars
==============================================================================
