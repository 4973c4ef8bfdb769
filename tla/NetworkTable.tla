----------------------------- MODULE NetworkTable -----------------------------
(***************************************************************************)
(* The table of jay::network (network.hpp): two hash maps, from NAME to    *)
(* address and from address to NAME, and the operations on them as         *)
(* operators from table to table.                                          *)
(*                                                                         *)
(* name_addr[n] = NO_ADDR stands for a NAME that is not in name_addr_map_  *)
(* (the code stores only unicast addresses and IDLE there), addr_name[a] = *)
(* NoName for an address that is not in addr_name_map_.                    *)
(***************************************************************************)
EXTENDS J1939, FiniteSets, FiniteSetsExt

Table == [name_addr : [Name -> Address],
          addr_name : [Unicast -> Name \cup {NoName}]]

EmptyTable == [name_addr |-> [n \in Name |-> NO_ADDR],
               addr_name |-> [a \in Unicast |-> NoName]]

------------------------------------------------------------------------------
(* Lookups *)

in_network(t, n) == t.name_addr[n] # NO_ADDR

get_address(t, n) == t.name_addr[n]

occupied(t, a) == t.addr_name[a] # NoName

available(t, a) == a \in Unicast /\ ~occupied(t, a)

claimable(t, a, n) == a \in Unicast /\ (occupied(t, a) => t.addr_name[a] > n)

\* Seeded fault: full() compares with >=.
full_off_by_one(t) == Cardinality({a \in Unicast : occupied(t, a)}) >= MaxUnicast

full(t) == Cardinality({a \in Unicast : occupied(t, a)}) > MaxUnicast

\* The first address in from .. to - 1 that is free or already belongs to n.
search(t, n, from, to) ==
  LET found == {a \in from .. to - 1 : t.addr_name[a] \in {NoName, n}}
  IN  IF found = {} THEN NO_ADDR ELSE Min(found)

\* std::clamp(preferred_address, 0, J1939_MAX_UNICAST_ADDR)
clamped(a) == IF a > MaxUnicast THEN MaxUnicast ELSE a

find_preferred(t, n, pref) ==
  IF occupied(t, pref) => RawLeq(n, t.addr_name[pref]) THEN pref ELSE NO_ADDR

\* Seeded fault: the search does not wrap round.
find_free_above(t, n, pref) == search(t, n, pref, IDLE)

find_free(t, n, pref) ==
  LET above == search(t, n, pref, IDLE)
  IN  IF above = NO_ADDR THEN search(t, n, 0, pref) ELSE above

find_address(t, n, pref) ==
  IF self_config_address(n) THEN find_free(t, n, clamped(pref))
                            ELSE find_preferred(t, n, clamped(pref))

------------------------------------------------------------------------------
(* Updates *)

\* addr_name_map_.erase(a): no effect when a is not a key.
erase(t, a) ==
  [t EXCEPT !.addr_name = [x \in Unicast |-> IF x = a THEN NoName ELSE @[x]]]

set_address(t, n, a) == [t EXCEPT !.name_addr[n] = a]

\* The lambda set_idle of insert.  name_addr_map_[n] creates the entry with
\* address 0 when n is not in the map.
set_idle(t, n) ==
  set_address(erase(t, IF in_network(t, n) THEN get_address(t, n) ELSE 0), n, IDLE)

\* name_addr_map_.try_emplace(n, J1939_IDLE_ADDR)
try_emplace(t, n) == IF in_network(t, n) THEN t ELSE set_address(t, n, IDLE)

\* The lambda claim of insert.
claim(t, n, a) == [set_address(t, n, a) EXCEPT !.addr_name[a] = n]

\* insert with J1939_IDLE_ADDR or J1939_NO_ADDR.
insert_idle(t, n, a) ==
  IF in_network(t, n) /\ a = IDLE THEN set_idle(t, n) ELSE try_emplace(t, n)

\* Seeded fault: the comparison of the priorities is the wrong way round.
outranked_inverted(t, n, a) == occupied(t, a) /\ n < t.addr_name[a]

\* A NAME of lower priority (a larger number) cannot take an occupied address.
outranked(t, n, a) == occupied(t, a) /\ n > t.addr_name[a]

\* Seeded fault: the previous holder is not sent to IDLE.
insert_unicast_no_conflict(t, n, a) ==
  IF outranked(t, n, a) THEN try_emplace(t, n) ELSE claim(t, n, a)

insert_unicast(t, n, a) ==
  LET conflict == t.addr_name[a]
      vacated  == IF occupied(t, a) /\ conflict # n THEN set_idle(t, conflict) ELSE t
  IN  IF outranked(t, n, a) THEN try_emplace(t, n) ELSE claim(vacated, n, a)

insert(t, n, a) ==
  IF a \in Unicast THEN insert_unicast(t, n, a) ELSE insert_idle(t, n, a)

\* The value insert returns.
inserted(t, n, a) ==
  IF a \in Unicast THEN ~outranked(t, n, a) ELSE ~in_network(t, n) \/ a = IDLE

\* Seeded fault: on_new_name_ is called for the first address of a name only.
notifies_first(t, n, a) ==
  a \in Unicast /\ ~outranked(t, n, a) /\ ~in_network(t, n)

\* Seeded fault: on_new_name_ is called for a name that goes idle as well.
notifies_idle(t, n, a) == inserted(t, n, a) /\ get_address(t, n) # a

\* insert calls on_new_name_ (the variable notify, used by claim).
notifies(t, n, a) ==
  a \in Unicast /\ ~outranked(t, n, a) /\ get_address(t, n) # a

\* Seeded fault: release clears the reverse map only.
release_reverse_only(t, n) ==
  IF in_network(t, n) THEN erase(t, get_address(t, n)) ELSE t

release(t, n) ==
  IF in_network(t, n) THEN set_address(erase(t, get_address(t, n)), n, IDLE) ELSE t

remove(t, n) ==
  IF in_network(t, n) THEN set_address(erase(t, get_address(t, n)), n, NO_ADDR) ELSE t

------------------------------------------------------------------------------

\* The reverse map knows the holder of every address the forward map shows.
\* (Not the converse: claim leaves the reverse entry of the address that a
\* name moves away from.)
HoldersMatch(t) ==
  \A n \in Name : t.name_addr[n] \in Unicast => t.addr_name[t.name_addr[n]] = n

\* A name in the reverse map is in the forward map.
NamesKnown(t) ==
  \A a \in Unicast : occupied(t, a) => in_network(t, t.addr_name[a])
==============================================================================
