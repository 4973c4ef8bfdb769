-------------------------- MODULE AddressStateMachine --------------------------
(***************************************************************************)
(* The address claim state machine (address_state_machine.hpp) of one      *)
(* NAME, Self, with the callbacks that address_claimer installs in it      *)
(* (address_claimer.hpp): one action per row of the transition table, the  *)
(* guards under their names in the source.                                 *)
(*                                                                         *)
(* boost::sml is external.  For a row with a target state it runs the      *)
(* guard, the on_exit action of the source, the state change, the row's    *)
(* action and the on_entry action of the target; for a row without one it  *)
(* runs the action only; an event no row accepts is dropped.               *)
(***************************************************************************)
EXTENDS NetworkTable, Sequences

CONSTANTS
  Self,       \* name_
  RetryPref   \* pref_address of the ev_start_claim the machine is built with

ASSUME SelfAssumption == Self \in Name /\ RetryPref \in Address

VARIABLES
  st,            \* the current state
  claiming,      \* st_claiming::address
  has_address,   \* st_has_address::address
  net,           \* the network that guards and callbacks use
  timer,         \* the wait pending on timeout_timer_, or NoTimer
  sent           \* the frames handed to on_frame_ in the last step

machine == <<st, claiming, has_address>>

State == {"no_address", "claiming", "has_address", "address_lost"}

------------------------------------------------------------------------------
(* What is posted to the io_context and waited for on the timer *)

\* One record type for all handlers: type tells which, name and addr are the
\* arguments captured by the lambda (NoName and NO_ADDR where it has none).
Handler == [type : {"restart", "start", "claim", "request", "timeout", "cannot", "retry"},
            name : Name \cup {NoName},
            addr : Address]

ev(type, name, addr) == [type |-> type, name |-> name, addr |-> addr]

NoTimer == [type |-> "none", name |-> NoName, addr |-> NO_ADDR]

StartClaim(pref) == ev("start", NoName, pref)
AddressClaim(m, a) == ev("claim", m, a)
AddressRequest(dst) == ev("request", NoName, dst)
Restart == ev("restart", NoName, NO_ADDR)
Timeout == ev("timeout", NoName, NO_ADDR)
CannotClaim == ev("cannot", NoName, NO_ADDR)
RandomRetry == ev("retry", NoName, NO_ADDR)

Frame == [type : {"claim", "cannot_claim", "request"}, src : Address]

claim_frame(a) == [type |-> "claim", src |-> a]
cannot_claim_frame == [type |-> "cannot_claim", src |-> IDLE]
request_frame == [type |-> "request", src |-> IDLE]

------------------------------------------------------------------------------
(* Guards *)

address_priority(m) == Self < m

address_change_required(m, a, own) == a = own /\ ~address_priority(m)

claiming_priority(m, a) == a = claiming /\ address_priority(m)
claiming_loss(m, a) == address_change_required(m, a, claiming) /\ ~full(net)
claiming_failure(m, a) == address_change_required(m, a, claiming) /\ full(net)

claimed_priority(m, a) == a = has_address /\ address_priority(m)
claimed_loss(m, a) == address_change_required(m, a, has_address) /\ ~full(net)
claimed_failure(m, a) == address_change_required(m, a, has_address) /\ full(net)

valid_address == claimable(net, claiming, Self) \/ get_address(net, Self) < IDLE
no_valid_address == ~claimable(net, claiming, Self) /\ get_address(net, Self) = IDLE

\* Seeded fault: the idle address is taken for the global one.
is_global_address_req_idle(dst) == dst = IDLE

is_global_address_req(dst) == dst = NO_ADDR
valid_claiming_request(dst) == dst = claiming \/ is_global_address_req(dst)
valid_address_request(dst) == dst = has_address \/ is_global_address_req(dst)

retry_allowed == self_config_address(Self) /\ ~full(net)

------------------------------------------------------------------------------
(* Actions, with the callbacks they invoke *)

\* send_cannot_claim: on_cannot_claim arms the timer with a random delay.
send_cannot_claim == timer' = CannotClaim

\* Seeded fault: the claim timeout is not armed.
begin_claiming_address_no_timer(t, pref) ==
  /\ claiming' = find_address(t, Self, pref)
  /\ sent' = <<claim_frame(find_address(t, Self, pref))>>
  /\ UNCHANGED timer

\* begin_claiming_address: on_begin_claiming arms the timer, then an address
\* is looked up in table t and claimed.
begin_claiming_address(t, pref) ==
  /\ timer' = Timeout
  /\ claiming' = find_address(t, Self, pref)
  /\ sent' = <<claim_frame(find_address(t, Self, pref))>>

\* Seeded fault: the other nodes are not asked for their addresses.
enter_no_address_no_request ==
  /\ st' = "no_address"
  /\ sent' = <<>>

\* on_entry of st_no_address
enter_no_address ==
  /\ st' = "no_address"
  /\ sent' = IF full(net) THEN <<>> ELSE <<request_frame>>

\* on_entry of st_claiming
enter_claiming(t, pref) ==
  /\ st' = "claiming"
  /\ begin_claiming_address(t, pref)

\* Seeded fault: set_claimed_address does not store the address.
enter_has_address_no_set_claimed(a) ==
  /\ st' = "has_address"
  /\ net' = insert(net, Self, a)
  /\ sent' = <<>>
  /\ UNCHANGED has_address

\* set_claimed_address, then on_entry of st_has_address: notify_address_gain
\* inserts the address in the network; what insert returns is not looked at.
enter_has_address(a) ==
  /\ st' = "has_address"
  /\ has_address' = a
  /\ net' = insert(net, Self, a)
  /\ sent' = <<>>

\* on_exit of st_has_address: notify_address_loss releases the address in the
\* network.
leave_has_address == net' = release(net, Self)

\* on_entry of st_address_lost
enter_address_lost ==
  /\ st' = "address_lost"
  /\ send_cannot_claim
  /\ sent' = <<>>

\* A row that only sends a frame.
reply(frame) ==
  /\ sent' = <<frame>>
  /\ UNCHANGED <<machine, net, timer>>

\* A row whose only action is send_cannot_claim.
refuse ==
  /\ send_cannot_claim
  /\ sent' = <<>>
  /\ UNCHANGED <<machine, net>>

\* An event that no row accepts.
drop ==
  /\ sent' = <<>>
  /\ UNCHANGED <<machine, net, timer>>

------------------------------------------------------------------------------
(* The transition table, by event *)

process_restart ==
  \/ /\ st = "no_address"
     /\ enter_no_address
     /\ UNCHANGED <<claiming, has_address, net, timer>>
  \/ st # "no_address" /\ drop

process_start_claim(pref) ==
  \/ /\ st = "no_address" /\ ~full(net)
     /\ enter_claiming(net, pref)
     /\ UNCHANGED <<has_address, net>>
  \/ st = "no_address" /\ full(net) /\ refuse
  \/ st # "no_address" /\ drop

process_address_request(dst) ==
  \/ st \in {"no_address", "address_lost"} /\ is_global_address_req(dst) /\ refuse
  \/ st \in {"no_address", "address_lost"} /\ ~is_global_address_req(dst) /\ drop
  \/ st = "claiming" /\ valid_claiming_request(dst) /\ reply(claim_frame(claiming))
  \/ st = "claiming" /\ ~valid_claiming_request(dst) /\ drop
  \/ st = "has_address" /\ valid_address_request(dst) /\ reply(claim_frame(has_address))
  \/ st = "has_address" /\ ~valid_address_request(dst) /\ drop

process_claim_while_claiming(m, a) ==
  \/ claiming_priority(m, a) /\ reply(claim_frame(claiming))
  \/ /\ claiming_loss(m, a)
     /\ begin_claiming_address(net, claiming)
     /\ UNCHANGED <<st, has_address, net>>
  \/ /\ claiming_failure(m, a)
     /\ enter_address_lost
     /\ UNCHANGED <<claiming, has_address, net>>
  \/ a # claiming /\ drop

\* Seeded fault: a claim is weighed against the last address that was claimed.
process_claim_while_holding_any(m, a) ==
  \/ a # claiming /\ drop
  \/ a = claiming /\ reply(claim_frame(has_address))

process_claim_while_holding(m, a) ==
  \/ claimed_priority(m, a) /\ reply(claim_frame(has_address))
  \/ /\ claimed_loss(m, a)
     /\ leave_has_address
     /\ enter_claiming(release(net, Self), has_address)
     /\ UNCHANGED has_address
  \/ /\ claimed_failure(m, a)
     /\ leave_has_address
     /\ enter_address_lost
     /\ UNCHANGED <<claiming, has_address>>
  \/ a # has_address /\ drop

process_address_claim(m, a) ==
  \/ st = "claiming" /\ process_claim_while_claiming(m, a)
  \/ st = "has_address" /\ process_claim_while_holding(m, a)
  \/ st \in {"no_address", "address_lost"} /\ drop

process_timeout ==
  \/ /\ st = "claiming" /\ valid_address
     /\ enter_has_address(claiming)
     /\ UNCHANGED <<claiming, timer>>
  \/ /\ st = "claiming" /\ no_valid_address
     /\ enter_no_address
     /\ UNCHANGED <<claiming, has_address, net, timer>>
  \/ st = "claiming" /\ ~valid_address /\ ~no_valid_address /\ drop
  \/ st # "claiming" /\ drop

process_random_retry ==
  \/ /\ st = "address_lost" /\ retry_allowed
     /\ enter_claiming(net, RetryPref)
     /\ UNCHANGED <<has_address, net>>
  \/ /\ st = "address_lost" /\ ~retry_allowed
     /\ send_cannot_claim
     /\ enter_no_address
     /\ UNCHANGED <<claiming, has_address, net>>
  \/ st # "address_lost" /\ drop
==============================================================================
