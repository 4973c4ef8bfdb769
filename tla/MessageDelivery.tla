--------------------------- MODULE MessageDelivery ---------------------------
(***************************************************************************)
(* What a transport promises on each link from a sender to a destination:  *)
(* the messages that come out are among those that were put in, each       *)
(* unchanged, at most once and in the order in which they were put in.     *)
(* Messages may be dropped.                                                *)
(***************************************************************************)
EXTENDS Naturals, Sequences

CONSTANTS Link, Message

VARIABLES
  offered,     \* by link, the messages put in
  delivered    \* by link, the messages that came out

vars == <<offered, delivered>>

Init ==
  /\ offered = [l \in Link |-> <<>>]
  /\ delivered = [l \in Link |-> <<>>]

\* No message is put in twice, so that a second copy is told from a second
\* message.
Offer(l, m) ==
  /\ \A i \in DOMAIN offered[l] : offered[l][i] # m
  /\ offered' = [offered EXCEPT ![l] = Append(@, m)]
  /\ UNCHANGED delivered

\* The i-th message comes out; neither it nor a later one did before.
Deliver(l, i) ==
  /\ \A j \in DOMAIN offered[l], d \in DOMAIN delivered[l] :
       offered[l][j] = delivered[l][d] => j < i
  /\ delivered' = [delivered EXCEPT ![l] = Append(@, offered[l][i])]
  /\ UNCHANGED offered

Next ==
  \E l \in Link :
    \/ \E m \in Message : Offer(l, m)
    \/ \E i \in DOMAIN offered[l] : Deliver(l, i)

Spec == Init /\ [][Next]_vars
==============================================================================
