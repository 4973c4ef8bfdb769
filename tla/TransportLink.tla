---------------------------- MODULE TransportLink ----------------------------
(***************************************************************************)
(* Two nodes that send each other messages.                                *)
(***************************************************************************)
EXTENDS TransportProtocol

Node == 0 .. 1

peer(n) == 1 - n

\* Source and destination of a message.
Link == {<<n, d>> : n \in Node, d \in Node \cup {NO_ADDR}} \ {<<n, n>> : n \in Node}

\* Every message is told apart from the others by its header and its packets.
numbered(m, size) == [hdr |-> m, buf |-> [i \in 1 .. size |-> m * SeqSize + i]]
==============================================================================
