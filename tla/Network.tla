-------------------------------- MODULE Network --------------------------------
(***************************************************************************)
(* jay::network as an object: the table, and what a listener that          *)
(* registered on_new_name_callback has been told.  Every operation holds   *)
(* network_mtx_ from beginning to end, so each is one step.                *)
(***************************************************************************)
EXTENDS NetworkTable

VARIABLES
  net,     \* name_addr_map_ and addr_name_map_
  known    \* the last address the listener was told of each NAME

vars == <<net, known>>

Init ==
  /\ net = EmptyTable
  /\ known = [n \in Name |-> NO_ADDR]

Insert(n, a) ==
  /\ net' = insert(net, n, a)
  /\ known' = IF notifies(net, n, a) THEN [known EXCEPT ![n] = a] ELSE known

Release(n) ==
  /\ net' = release(net, n)
  /\ UNCHANGED known

Remove(n) ==
  /\ net' = remove(net, n)
  /\ UNCHANGED known

Clear ==
  /\ net' = EmptyTable
  /\ UNCHANGED known

\* The operations that jay's own components call on a network.
NextInUse ==
  \/ \E n \in Name, a \in Address : Insert(n, a)
  \/ \E n \in Name : Release(n)
  \/ Clear

Next == NextInUse \/ \E n \in Name : Remove(n)

SpecInUse == Init /\ [][NextInUse]_vars

Spec == Init /\ [][Next]_vars

------------------------------------------------------------------------------
(* Properties *)

\* Both maps hold what their types allow: the forward map only unicast
\* addresses and IDLE, the reverse map only unicast keys.
TypeOK ==
  /\ net \in Table
  /\ known \in [Name -> Unicast \cup {NO_ADDR}]

\* As long as no name is removed, the reverse map knows the holder of every
\* address the forward map hands out: insert and release never erase the
\* reverse entry of an address that some name still holds.
HolderMatches == HoldersMatch(net)

\* No two names hold the same unicast address (insert sends the previous
\* holder to IDLE before it gives the address away).
UniqueAddress ==
  \A n, m \in Name : /\ get_address(net, n) \in Unicast
                     /\ get_address(net, n) = get_address(net, m)
                     => n = m

\* A listener that remembers the last on_new_name call of each name knows
\* the address of every name that has one, through losses, re-claims of an
\* old address and clear().
ListenerCurrent ==
  \A n \in Name : get_address(net, n) \in Unicast => known[n] = get_address(net, n)

\* full(), a comparison of a size with J1939_MAX_UNICAST_ADDR, is true exactly
\* when available() is false for every unicast address.
FullMeansNoneAvailable == full(net) <=> \A a \in Unicast : ~available(net, a)

\* For a self configurable name, find_address finds an address whenever one is
\* free or already the name's own, wherever the search starts (the preferred
\* address is clamped and the search wraps round), and never one that another
\* name occupies.
SearchIsComplete ==
  \A n \in SelfConfig, pref \in Address :
    LET usable == {a \in Unicast : net.addr_name[a] \in {NoName, n}}
        found  == find_address(net, n, pref)
    IN  IF usable = {} THEN found = NO_ADDR ELSE found \in usable

\* A unicast address changes hands directly only from a name to one of
\* higher priority (a smaller number): insert refuses the others.
PriorityWins ==
  [][\A n, m \in Name :
       /\ get_address(net, n) \in Unicast
       /\ get_address(net', m) = get_address(net, n)
       /\ get_address(net', n) # get_address(net, n)
       => m < n]_vars
==============================================================================
