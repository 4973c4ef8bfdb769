-------------------------- MODULE NetworkTableProofs --------------------------
(***************************************************************************)
(* Facts about the operations on the table of jay::network, for any number *)
(* of names and addresses.                                                 *)
(***************************************************************************)
EXTENDS NetworkTable, FiniteSetTheorems, WellFoundedInduction, TLAPS

\* The unicast addresses are addresses.
LEMMA UnicastIsAddress == Unicast \subseteq Address
BY J1939Assumption DEF Unicast, Address, NO_ADDR

\* The idle address is an address of its own, not a unicast one.
LEMMA IdleIsAddress == IDLE \in Address /\ IDLE \notin Unicast /\ IDLE # NO_ADDR
BY J1939Assumption DEF Unicast, Address, NO_ADDR, IDLE

\* The broadcast address is an address that is not unicast.
LEMMA NoAddrIsAddress == NO_ADDR \in Address /\ NO_ADDR \notin Unicast
BY J1939Assumption DEF Unicast, Address, NO_ADDR

\* NoName is not the number of a NAME.
LEMMA NoNameIsNone == NoName \notin Name
BY J1939Assumption DEF NoName

------------------------------------------------------------------------------
(* The elementary updates of a table *)

\* What erase of the reverse map leaves and takes.
LEMMA EraseFacts ==
  ASSUME NEW t \in Table, NEW b
  PROVE  /\ erase(t, b) \in Table
         /\ erase(t, b).name_addr = t.name_addr
         /\ \A x \in Unicast :
              erase(t, b).addr_name[x] = IF x = b THEN NoName ELSE t.addr_name[x]
BY DEF Table, erase

\* A write to the forward map changes the entry of one name.
LEMMA SetAddressFacts ==
  ASSUME NEW t \in Table, NEW n \in Name, NEW a \in Address
  PROVE  /\ set_address(t, n, a) \in Table
         /\ set_address(t, n, a).addr_name = t.addr_name
         /\ \A x \in Name :
              set_address(t, n, a).name_addr[x] = IF x = n THEN a ELSE t.name_addr[x]
BY DEF Table, set_address

\* The lambda claim writes one entry of each map.
LEMMA ClaimFacts ==
  ASSUME NEW t \in Table, NEW n \in Name, NEW a \in Unicast
  PROVE  /\ claim(t, n, a) \in Table
         /\ \A x \in Name :
              claim(t, n, a).name_addr[x] = IF x = n THEN a ELSE t.name_addr[x]
         /\ \A x \in Unicast :
              claim(t, n, a).addr_name[x] = IF x = a THEN n ELSE t.addr_name[x]
<1>1. /\ set_address(t, n, a) \in Table
      /\ set_address(t, n, a).addr_name = t.addr_name
      /\ \A x \in Name :
           set_address(t, n, a).name_addr[x] = IF x = n THEN a ELSE t.name_addr[x]
  BY UnicastIsAddress, SetAddressFacts
<1>2. ASSUME NEW s \in Table
      PROVE  /\ [s EXCEPT !.addr_name[a] = n] \in Table
             /\ [s EXCEPT !.addr_name[a] = n].name_addr = s.name_addr
             /\ \A x \in Unicast : [s EXCEPT !.addr_name[a] = n].addr_name[x]
                                     = IF x = a THEN n ELSE s.addr_name[x]
  BY DEF Table
<1>. QED
  BY <1>1, <1>2 DEF claim

\* The lambda set_idle: what it does when n is in the network, and that it
\* clears at most one reverse entry in any case.
LEMMA SetIdleFacts ==
  ASSUME NEW t \in Table, NEW n \in Name
  PROVE  /\ set_idle(t, n) \in Table
         /\ \A x \in Name :
              set_idle(t, n).name_addr[x] = IF x = n THEN IDLE ELSE t.name_addr[x]
         /\ \A x \in Unicast :
              set_idle(t, n).addr_name[x] \in {NoName, t.addr_name[x]}
         /\ t.name_addr[n] # NO_ADDR => \A x \in Unicast :
              set_idle(t, n).addr_name[x]
                = IF x = t.name_addr[n] THEN NoName ELSE t.addr_name[x]
<1>. DEFINE b == IF in_network(t, n) THEN get_address(t, n) ELSE 0
<1>. HIDE DEF b
<1>1. set_idle(t, n) = set_address(erase(t, b), n, IDLE)
  BY DEF set_idle, b
<1>2. /\ erase(t, b) \in Table
      /\ erase(t, b).name_addr = t.name_addr
      /\ \A x \in Unicast :
           erase(t, b).addr_name[x] = IF x = b THEN NoName ELSE t.addr_name[x]
  BY EraseFacts
<1>3. t.name_addr[n] # NO_ADDR => b = t.name_addr[n]
  BY DEF b, in_network, get_address
<1>. QED
  BY <1>1, <1>2, <1>3, IdleIsAddress, SetAddressFacts

\* try_emplace adds an idle entry or does nothing.
LEMMA TryEmplaceFacts ==
  ASSUME NEW t \in Table, NEW n \in Name
  PROVE  /\ try_emplace(t, n) \in Table
         /\ try_emplace(t, n).addr_name = t.addr_name
         /\ \A x \in Name : try_emplace(t, n).name_addr[x]
              = IF x = n /\ t.name_addr[n] = NO_ADDR THEN IDLE ELSE t.name_addr[x]
BY SetAddressFacts, IdleIsAddress DEF try_emplace, in_network

------------------------------------------------------------------------------
(* insert, release and remove keep the type of the table *)

\* insert of a unicast address: the three outcomes, and the table it yields.
LEMMA InsertUnicastFacts ==
  ASSUME NEW t \in Table, NEW n \in Name, NEW a \in Unicast
  PROVE  /\ insert(t, n, a) \in Table
         /\ outranked(t, n, a) => insert(t, n, a) = try_emplace(t, n)
         /\ ~outranked(t, n, a) /\ t.addr_name[a] \in {NoName, n} =>
              insert(t, n, a) = claim(t, n, a)
         /\ ~outranked(t, n, a) /\ t.addr_name[a] \notin {NoName, n} =>
              /\ t.addr_name[a] \in Name
              /\ insert(t, n, a) = claim(set_idle(t, t.addr_name[a]), n, a)
<1>1. insert(t, n, a) = insert_unicast(t, n, a)
  BY DEF insert
<1>2. t.addr_name[a] \in Name \cup {NoName}
  BY DEF Table
<1>3. /\ try_emplace(t, n) \in Table
      /\ claim(t, n, a) \in Table
      /\ t.addr_name[a] \in Name => claim(set_idle(t, t.addr_name[a]), n, a) \in Table
  BY TryEmplaceFacts, ClaimFacts, SetIdleFacts, ZenonT(40)
<1>4. CASE outranked(t, n, a)
  BY <1>1, <1>3, <1>4 DEF insert_unicast
<1>5. CASE ~outranked(t, n, a) /\ t.addr_name[a] \in {NoName, n}
  BY <1>1, <1>3, <1>5 DEF insert_unicast, occupied
<1>6. CASE ~outranked(t, n, a) /\ t.addr_name[a] \notin {NoName, n}
  BY <1>1, <1>2, <1>3, <1>6 DEF insert_unicast, occupied
<1>. QED
  BY <1>4, <1>5, <1>6

\* insert keeps the types.
LEMMA InsertType ==
  ASSUME NEW t \in Table, NEW n \in Name, NEW a \in Address
  PROVE  insert(t, n, a) \in Table
<1>1. CASE a \in Unicast
  BY <1>1, InsertUnicastFacts
<1>2. CASE a \notin Unicast
  BY <1>2, SetIdleFacts, TryEmplaceFacts DEF insert, insert_idle
<1>. QED
  BY <1>1, <1>2

\* release sends a name of the network to IDLE and frees its address.
LEMMA ReleaseFacts ==
  ASSUME NEW t \in Table, NEW n \in Name
  PROVE  /\ release(t, n) \in Table
         /\ t.name_addr[n] = NO_ADDR => release(t, n) = t
         /\ t.name_addr[n] # NO_ADDR =>
              /\ \A x \in Name : release(t, n).name_addr[x]
                                   = IF x = n THEN IDLE ELSE t.name_addr[x]
              /\ \A x \in Unicast : release(t, n).addr_name[x]
                                      = IF x = t.name_addr[n] THEN NoName ELSE t.addr_name[x]
         /\ \A x \in Name : release(t, n).name_addr[x] \in {IDLE, t.name_addr[x]}
<1>1. t.name_addr[n] = NO_ADDR => release(t, n) = t
  BY DEF release, in_network
<1>2. t.name_addr[n] # NO_ADDR => release(t, n) = set_idle(t, n)
  BY DEF release, set_idle, in_network
<1>. QED
  BY <1>1, <1>2, SetIdleFacts

\* remove keeps the types.
LEMMA RemoveType ==
  ASSUME NEW t \in Table, NEW n \in Name
  PROVE  remove(t, n) \in Table
BY EraseFacts, SetAddressFacts, NoAddrIsAddress DEF remove

\* clear leaves a table.
LEMMA EmptyTableType == EmptyTable \in Table
BY NoAddrIsAddress DEF EmptyTable, Table

------------------------------------------------------------------------------
(* The two maps agree *)

\* Sending a name of the network to IDLE keeps the maps in agreement.
LEMMA SetIdleConsistent ==
  ASSUME NEW t \in Table, NEW n \in Name, in_network(t, n),
         HoldersMatch(t), NamesKnown(t)
  PROVE  HoldersMatch(set_idle(t, n)) /\ NamesKnown(set_idle(t, n))
<1>. DEFINE s == set_idle(t, n)
<1>1. /\ s \in Table
      /\ \A x \in Name : s.name_addr[x] = IF x = n THEN IDLE ELSE t.name_addr[x]
      /\ \A x \in Unicast :
           s.addr_name[x] = IF x = t.name_addr[n] THEN NoName ELSE t.addr_name[x]
  BY SetIdleFacts DEF in_network
<1>. HIDE DEF s
<1>2. HoldersMatch(s)
  BY <1>1, IdleIsAddress DEF HoldersMatch
<1>3. NamesKnown(s)
  BY <1>1, IdleIsAddress DEF NamesKnown, occupied, in_network, Table
<1>. QED
  BY <1>2, <1>3 DEF s

\* The lambda claim keeps the maps in agreement when no other name holds the
\* address according to the forward map.
LEMMA ClaimConsistent ==
  ASSUME NEW t \in Table, NEW n \in Name, NEW a \in Unicast,
         \A x \in Name \ {n} : t.name_addr[x] # a,
         HoldersMatch(t), NamesKnown(t)
  PROVE  HoldersMatch(claim(t, n, a)) /\ NamesKnown(claim(t, n, a))
<1>. DEFINE s == claim(t, n, a)
<1>1. /\ s \in Table
      /\ \A x \in Name : s.name_addr[x] = IF x = n THEN a ELSE t.name_addr[x]
      /\ \A x \in Unicast : s.addr_name[x] = IF x = a THEN n ELSE t.addr_name[x]
  BY ClaimFacts
<1>. HIDE DEF s
<1>2. HoldersMatch(s)
  BY <1>1 DEF HoldersMatch
<1>3. NamesKnown(s)
  BY <1>1, NoAddrIsAddress DEF NamesKnown, occupied, in_network, Table
<1>. QED
  BY <1>2, <1>3 DEF s

\* Adding an unknown name keeps the maps consistent.
LEMMA TryEmplaceConsistent ==
  ASSUME NEW t \in Table, NEW n \in Name, HoldersMatch(t), NamesKnown(t)
  PROVE  HoldersMatch(try_emplace(t, n)) /\ NamesKnown(try_emplace(t, n))
<1>. DEFINE s == try_emplace(t, n)
<1>1. /\ s \in Table
      /\ s.addr_name = t.addr_name
      /\ \A x \in Name : s.name_addr[x] = IF x = n /\ t.name_addr[x] = NO_ADDR
                                          THEN IDLE ELSE t.name_addr[x]
  BY TryEmplaceFacts
<1>. HIDE DEF s
<1>2. HoldersMatch(s)
  BY <1>1, IdleIsAddress DEF HoldersMatch
<1>3. NamesKnown(s)
  BY <1>1, IdleIsAddress DEF NamesKnown, occupied, in_network, Table
<1>. QED
  BY <1>2, <1>3 DEF s

\* insert keeps the maps in agreement.
LEMMA InsertConsistent ==
  ASSUME NEW t \in Table, NEW n \in Name, NEW a \in Address,
         HoldersMatch(t), NamesKnown(t)
  PROVE  HoldersMatch(insert(t, n, a)) /\ NamesKnown(insert(t, n, a))
<1>1. CASE a \notin Unicast
  BY <1>1, SetIdleConsistent, TryEmplaceConsistent DEF insert, insert_idle
<1>2. CASE a \in Unicast /\ outranked(t, n, a)
  BY <1>2, InsertUnicastFacts, TryEmplaceConsistent
<1>3. CASE a \in Unicast /\ ~outranked(t, n, a) /\ t.addr_name[a] \in {NoName, n}
  <2>1. \A x \in Name \ {n} : t.name_addr[x] # a
    BY <1>3, NoNameIsNone DEF HoldersMatch
  <2>. QED
    BY <1>3, <2>1, InsertUnicastFacts, ClaimConsistent
<1>4. CASE a \in Unicast /\ ~outranked(t, n, a) /\ t.addr_name[a] \notin {NoName, n}
  <2>. DEFINE m == t.addr_name[a]
              s == set_idle(t, m)
  <2>1. m \in Name /\ insert(t, n, a) = claim(s, n, a)
    BY <1>4, InsertUnicastFacts
  <2>2. in_network(t, m)
    BY <1>4 DEF NamesKnown, occupied
  <2>3. s \in Table /\ HoldersMatch(s) /\ NamesKnown(s)
    BY <2>1, <2>2, SetIdleFacts, SetIdleConsistent
  <2>4. \A x \in Name \ {n} : s.name_addr[x] # a
    <3>1. \A x \in Name : s.name_addr[x] = IF x = m THEN IDLE ELSE t.name_addr[x]
      BY <2>1, SetIdleFacts, SMTT(30)
    <3>2. \A x \in Name : t.name_addr[x] = a => x = m
      BY <1>4 DEF HoldersMatch
    <3>. HIDE DEF s, m
    <3>. QED
      BY <1>4, <3>1, <3>2, IdleIsAddress
  <2>. QED
    BY <1>4, <2>1, <2>3, <2>4, ClaimConsistent
<1>. QED
  BY <1>1, <1>2, <1>3, <1>4

\* release keeps the maps in agreement.
LEMMA ReleaseConsistent ==
  ASSUME NEW t \in Table, NEW n \in Name, HoldersMatch(t), NamesKnown(t)
  PROVE  HoldersMatch(release(t, n)) /\ NamesKnown(release(t, n))
<1>1. CASE in_network(t, n)
  <2>1. release(t, n) = set_idle(t, n)
    BY <1>1 DEF release, set_idle
  <2>. QED
    BY <1>1, <2>1, SetIdleConsistent
<1>. QED
  BY <1>1 DEF release

\* The maps of an empty table are consistent.
LEMMA EmptyConsistent == HoldersMatch(EmptyTable) /\ NamesKnown(EmptyTable)
BY NoAddrIsAddress DEF EmptyTable, HoldersMatch, NamesKnown, occupied

------------------------------------------------------------------------------
(* What one insert does to the addresses *)

\* insert changes the address of n, and of other names only by sending them to
\* IDLE.
LEMMA InsertAddresses ==
  ASSUME NEW t \in Table, NEW n \in Name, NEW a \in Address, NEW x \in Name,
         get_address(insert(t, n, a), x) \in Unicast
  PROVE  \/ get_address(insert(t, n, a), x) = get_address(t, x)
         \/ x = n /\ a \in Unicast /\ ~outranked(t, n, a)
              /\ get_address(insert(t, n, a), x) = a
<1>1. CASE a \notin Unicast
  <2>1. insert(t, n, a) \in {set_idle(t, n), try_emplace(t, n)}
    BY <1>1 DEF insert, insert_idle
  <2>2. set_idle(t, n).name_addr[x] \in {IDLE, t.name_addr[x]}
    BY SetIdleFacts
  <2>3. try_emplace(t, n).name_addr[x] \in {IDLE, t.name_addr[x]}
    BY TryEmplaceFacts
  <2>. QED
    BY <2>1, <2>2, <2>3, IdleIsAddress DEF get_address
<1>2. CASE a \in Unicast /\ outranked(t, n, a)
  BY <1>2, InsertUnicastFacts, TryEmplaceFacts, IdleIsAddress DEF get_address
<1>3. CASE a \in Unicast /\ ~outranked(t, n, a) /\ t.addr_name[a] \in {NoName, n}
  BY <1>3, InsertUnicastFacts, ClaimFacts DEF get_address
<1>4. CASE a \in Unicast /\ ~outranked(t, n, a) /\ t.addr_name[a] \notin {NoName, n}
  <2>. DEFINE m == t.addr_name[a]
              s == set_idle(t, m)
  <2>1. m \in Name /\ insert(t, n, a) = claim(s, n, a)
    BY <1>4, InsertUnicastFacts
  <2>. HIDE DEF m
  <2>2. /\ s \in Table
        /\ s.name_addr[x] = IF x = m THEN IDLE ELSE t.name_addr[x]
    BY <2>1, SetIdleFacts
  <2>. HIDE DEF s
  <2>3. claim(s, n, a).name_addr[x] = IF x = n THEN a ELSE s.name_addr[x]
    BY <1>4, <2>2, ClaimFacts
  <2>. QED
    BY <1>4, <2>1, <2>2, <2>3, IdleIsAddress DEF get_address
<1>. QED
  BY <1>1, <1>2, <1>3, <1>4

\* A claim that is not outranked gives the address to the name.
LEMMA InsertGains ==
  ASSUME NEW t \in Table, NEW n \in Name, NEW a \in Unicast, ~outranked(t, n, a)
  PROVE  /\ get_address(insert(t, n, a), n) = a
         /\ insert(t, n, a).addr_name[a] = n
<1>1. CASE t.addr_name[a] \in {NoName, n}
  BY <1>1, InsertUnicastFacts, ClaimFacts DEF get_address
<1>2. CASE t.addr_name[a] \notin {NoName, n}
  BY <1>2, InsertUnicastFacts, SetIdleFacts, ClaimFacts DEF get_address
<1>. QED
  BY <1>1, <1>2

------------------------------------------------------------------------------
(* The entries of one name *)

\* The reverse map shows n only at the address n has.  (Other names may have
\* reverse entries left over from addresses they moved away from.)
Exact(t, n) == \A x \in Unicast : t.addr_name[x] = n => get_address(t, n) = x

\* An insert for another name changes the address of n only when it takes that
\* address, and then n does not have priority over the other name.
LEMMA InsertOther ==
  ASSUME NEW t \in Table, NEW n \in Name, NEW m \in Name, m # n, NEW a \in Address,
         HoldersMatch(t), NamesKnown(t), Exact(t, n)
  PROVE  /\ Exact(insert(t, m, a), n)
         /\ \/ get_address(insert(t, m, a), n) = get_address(t, n)
            \/ /\ get_address(insert(t, m, a), n) = IDLE
               /\ a \in Unicast
               /\ a = get_address(t, n)
               /\ inserted(t, m, a)
               /\ ~(n < m)
<1>1. CASE a \notin Unicast /\ in_network(t, m) /\ a = IDLE
  <2>1. insert(t, m, a) = set_idle(t, m)
    BY <1>1 DEF insert, insert_idle
  <2>. QED
    BY <1>1, <2>1, SetIdleFacts, NoNameIsNone DEF Exact, get_address
<1>2. CASE a \notin Unicast /\ ~(in_network(t, m) /\ a = IDLE)
  <2>1. insert(t, m, a) = try_emplace(t, m)
    BY <1>2 DEF insert, insert_idle
  <2>. QED
    BY <2>1, TryEmplaceFacts DEF Exact, get_address
<1>3. CASE a \in Unicast /\ outranked(t, m, a)
  <2>1. insert(t, m, a) = try_emplace(t, m)
    BY <1>3, InsertUnicastFacts
  <2>. QED
    BY <2>1, TryEmplaceFacts DEF Exact, get_address
<1>4. CASE a \in Unicast /\ ~outranked(t, m, a) /\ t.addr_name[a] \in {NoName, m}
  <2>1. insert(t, m, a) = claim(t, m, a)
    BY <1>4, InsertUnicastFacts
  <2>. QED
    BY <1>4, <2>1, ClaimFacts DEF Exact, get_address
<1>5. CASE a \in Unicast /\ ~outranked(t, m, a) /\ t.addr_name[a] \notin {NoName, m}
  <2>. DEFINE k == t.addr_name[a]
              s == set_idle(t, k)
              r == claim(s, m, a)
  <2>1. k \in Name /\ insert(t, m, a) = r
    BY <1>5, InsertUnicastFacts
  <2>2. t.name_addr[k] # NO_ADDR
    BY <1>5, <2>1 DEF NamesKnown, occupied, in_network
  <2>. HIDE DEF k
  <2>3. /\ s \in Table
        /\ s.name_addr[n] = IF n = k THEN IDLE ELSE t.name_addr[n]
        /\ \A x \in Unicast :
             s.addr_name[x] = IF x = t.name_addr[k] THEN NoName ELSE t.addr_name[x]
    BY <2>1, <2>2, SetIdleFacts
  <2>4. /\ r.name_addr[n] = s.name_addr[n]
        /\ \A x \in Unicast : r.addr_name[x] = IF x = a THEN m ELSE s.addr_name[x]
    BY <1>5, <2>3, ClaimFacts
  <2>5. k = n => a = get_address(t, n) /\ inserted(t, m, a) /\ ~(n < m)
    BY <1>5, J1939Assumption DEF k, Exact, inserted, outranked, occupied
  <2>. HIDE DEF s, r
  <2>6. Exact(r, n)
    BY <2>3, <2>4, NoNameIsNone DEF Exact, get_address
  <2>. QED
    BY <1>5, <2>1, <2>3, <2>4, <2>5, <2>6 DEF get_address
<1>. QED
  BY <1>1, <1>2, <1>3, <1>4, <1>5

\* insert writes only m into the reverse map, at a, and only when it returns true.
LEMMA InsertReverse ==
  ASSUME NEW t \in Table, NEW m \in Name, NEW a \in Address, NEW x \in Unicast
  PROVE  \/ insert(t, m, a).addr_name[x] \in {NoName, t.addr_name[x]}
         \/ insert(t, m, a).addr_name[x] = m /\ x = a /\ inserted(t, m, a)
<1>1. CASE a \notin Unicast
  <2>1. insert(t, m, a) \in {set_idle(t, m), try_emplace(t, m)}
    BY <1>1 DEF insert, insert_idle
  <2>2. /\ set_idle(t, m).addr_name[x] \in {NoName, t.addr_name[x]}
        /\ try_emplace(t, m).addr_name[x] = t.addr_name[x]
    BY SetIdleFacts, TryEmplaceFacts
  <2>. QED
    BY <2>1, <2>2
<1>2. CASE a \in Unicast /\ outranked(t, m, a)
  <2>1. insert(t, m, a).addr_name = t.addr_name
    BY <1>2, InsertUnicastFacts, TryEmplaceFacts
  <2>. QED
    BY <2>1
<1>3. CASE a \in Unicast /\ ~outranked(t, m, a)
  <2>1. inserted(t, m, a)
    BY <1>3 DEF inserted
  <2>2. CASE t.addr_name[a] \in {NoName, m}
    BY <1>3, <2>1, <2>2, InsertUnicastFacts, ClaimFacts
  <2>3. CASE t.addr_name[a] \notin {NoName, m}
    <3>. DEFINE k == t.addr_name[a]
                s == set_idle(t, k)
    <3>1. k \in Name /\ insert(t, m, a) = claim(s, m, a)
      BY <1>3, <2>3, InsertUnicastFacts
    <3>. HIDE DEF k
    <3>2. s \in Table /\ s.addr_name[x] \in {NoName, t.addr_name[x]}
      BY <3>1, SetIdleFacts
    <3>. HIDE DEF s
    <3>3. claim(s, m, a).addr_name[x] = IF x = a THEN m ELSE s.addr_name[x]
      BY <1>3, <3>2, ClaimFacts
    <3>. QED
      BY <2>1, <3>1, <3>2, <3>3
  <2>. QED
    BY <2>2, <2>3
<1>. QED
  BY <1>1, <1>2, <1>3

\* release leaves no entry of the name in the reverse map.
LEMMA ReleaseExact ==
  ASSUME NEW t \in Table, NEW n \in Name, Exact(t, n)
  PROVE  /\ Exact(release(t, n), n)
         /\ get_address(release(t, n), n) \notin Unicast
BY ReleaseFacts, NoNameIsNone, NoAddrIsAddress, IdleIsAddress DEF Exact, get_address

\* A name without an address, and without entries, takes a claimable one.
LEMMA InsertClaimable ==
  ASSUME NEW t \in Table, NEW n \in Name, NEW a, claimable(t, a, n),
         get_address(t, n) \notin Unicast, Exact(t, n)
  PROVE  /\ a \in Unicast
         /\ get_address(insert(t, n, a), n) = a
         /\ Exact(insert(t, n, a), n)
<1>1. a \in Unicast /\ ~outranked(t, n, a)
  <2>1. t.addr_name[a] \in Name \cup {NoName}
    BY DEF claimable, Table
  <2>. QED
    BY <2>1, J1939Assumption DEF claimable, outranked, occupied, NoName
<1>2. get_address(insert(t, n, a), n) = a
  BY <1>1, InsertGains
<1>3. \A x \in Unicast : x # a => insert(t, n, a).addr_name[x] \in {NoName, t.addr_name[x]}
  BY <1>1, InsertReverse, UnicastIsAddress
<1>. QED
  BY <1>1, <1>2, <1>3, NoNameIsNone DEF Exact

------------------------------------------------------------------------------
(* The searches *)

\* The addresses that a search on behalf of n may return.
Usable(t, n) == {a \in Unicast : t.addr_name[a] \in {NoName, n}}

\* A set of numbers that is not empty has a minimum (the first usable address
\* of network::find_address).
LEMMA MinFacts ==
  ASSUME NEW S \in SUBSET Nat, S # {}
  PROVE  Min(S) \in S /\ \A y \in S : Min(S) <= y
<1>1. \E x \in S : \A y \in S : ~ (<<y, x>> \in OpToRel(<, Nat))
  BY NatLessThanWellFounded, WFMin, ZenonT(40)
<1>2. \A x, y \in Nat : y < x => <<y, x>> \in OpToRel(<, Nat)
  BY DEF OpToRel
<1>3. \E x \in S : \A y \in S : ~ (y < x)
  BY <1>1, <1>2, ZenonT(40)
<1>4. \E x \in S : \A y \in S : x <= y
  BY <1>3
<1>. QED
  BY <1>4, ZenonT(40) DEF Min

\* search finds a usable address of its range if there is one.
LEMMA SearchFacts ==
  ASSUME NEW t \in Table, NEW n \in Name, NEW from \in Nat, NEW to \in Nat, to <= IDLE
  PROVE  \/ /\ search(t, n, from, to) = NO_ADDR
            /\ Usable(t, n) \cap (from .. to - 1) = {}
         \/ search(t, n, from, to) \in Usable(t, n)
<1>. DEFINE found == {a \in from .. to - 1 : t.addr_name[a] \in {NoName, n}}
<1>1. found = Usable(t, n) \cap (from .. to - 1)
  BY J1939Assumption DEF Usable, Unicast, IDLE
<1>2. found \in SUBSET Nat
  OBVIOUS
<1>3. search(t, n, from, to) = IF found = {} THEN NO_ADDR ELSE Min(found)
  BY DEF search
<1>. HIDE DEF found
<1>. QED
  BY <1>1, <1>2, <1>3, MinFacts

\* The address the search starts from is unicast.
LEMMA ClampedIsUnicast ==
  ASSUME NEW a \in Address
  PROVE  clamped(a) \in Unicast
BY J1939Assumption DEF clamped, Unicast, Address, NO_ADDR

\* find_address of a self configurable name is complete: the two searches
\* cover all unicast addresses, wherever the first one starts.
LEMMA FindFreeComplete ==
  ASSUME NEW t \in Table, NEW n \in SelfConfig, NEW pref \in Address
  PROVE  IF Usable(t, n) = {} THEN find_address(t, n, pref) = NO_ADDR
                              ELSE find_address(t, n, pref) \in Usable(t, n)
<1>. DEFINE p == clamped(pref)
            above == search(t, n, p, IDLE)
            below == search(t, n, 0, p)
<1>1. p \in Unicast
  BY ClampedIsUnicast
<1>2. p \in Nat /\ IDLE \in Nat /\ p <= IDLE /\ n \in Name
  BY <1>1, J1939Assumption DEF Unicast, IDLE
<1>3. \/ above = NO_ADDR /\ Usable(t, n) \cap (p .. IDLE - 1) = {}
      \/ above \in Usable(t, n)
  BY <1>2, SearchFacts
<1>4. \/ below = NO_ADDR /\ Usable(t, n) \cap (0 .. p - 1) = {}
      \/ below \in Usable(t, n)
  BY <1>2, SearchFacts
<1>5. find_address(t, n, pref) = IF above = NO_ADDR THEN below ELSE above
  BY DEF find_address, find_free, self_config_address
<1>. HIDE DEF p, above, below
<1>6. Usable(t, n) \subseteq (p .. IDLE - 1) \cup (0 .. p - 1)
  BY <1>1, J1939Assumption DEF Usable, Unicast, IDLE
<1>7. NO_ADDR \notin Usable(t, n)
  BY NoAddrIsAddress DEF Usable
<1>. QED
  BY <1>3, <1>4, <1>5, <1>6, <1>7

\* full, a comparison of sizes, says that every address is occupied.
LEMMA FullFacts ==
  ASSUME NEW t \in Table
  PROVE  full(t) <=> \A a \in Unicast : occupied(t, a)
<1>. DEFINE taken == {a \in Unicast : occupied(t, a)}
<1>1. IsFiniteSet(Unicast) /\ Cardinality(Unicast) = MaxUnicast + 1
  BY FS_Interval, J1939Assumption DEF Unicast
<1>2. taken \in SUBSET Unicast
  OBVIOUS
<1>3. /\ IsFiniteSet(taken)
      /\ Cardinality(taken) <= Cardinality(Unicast)
      /\ Cardinality(Unicast) = Cardinality(taken) => Unicast = taken
  BY <1>1, <1>2, FS_Subset
<1>4. Cardinality(taken) \in Nat
  BY <1>3, FS_CardinalityType
<1>5. full(t) <=> Cardinality(taken) > MaxUnicast
  BY DEF full
<1>6. full(t) <=> taken = Unicast
  BY <1>1, <1>3, <1>4, <1>5, J1939Assumption
<1>. QED
  BY <1>6

\* A self configurable name without an address, and without entries, is given an
\* address it can claim when the network is not full.
LEMMA FindClaimable ==
  ASSUME NEW t \in Table, NEW n \in SelfConfig, NEW pref \in Address, ~full(t),
         Exact(t, n), get_address(t, n) \notin Unicast
  PROVE  /\ find_address(t, n, pref) \in Unicast
         /\ claimable(t, find_address(t, n, pref), n)
<1>1. PICK a \in Unicast : ~occupied(t, a)
  BY FullFacts
<1>2. Usable(t, n) # {}
  BY <1>1 DEF Usable, occupied
<1>3. find_address(t, n, pref) \in Usable(t, n)
  BY <1>2, FindFreeComplete
<1>. QED
  BY <1>3 DEF Usable, Exact, claimable, occupied

\* find_address returns an address.
LEMMA FindAddressType ==
  ASSUME NEW t \in Table, NEW n \in Name, NEW pref \in Address
  PROVE  find_address(t, n, pref) \in Unicast \cup {NO_ADDR}
<1>1. CASE self_config_address(n)
  BY <1>1, FindFreeComplete DEF Usable, self_config_address
<1>2. CASE ~self_config_address(n)
  BY <1>2, ClampedIsUnicast DEF find_address, find_preferred
<1>. QED
  BY <1>1, <1>2
==============================================================================
