------------------------------ MODULE Addresses ------------------------------
(***************************************************************************)
(* The addresses of a J1939 network (j1939_type.hpp).  MaxUnicast is       *)
(* J1939_MAX_UNICAST_ADDR, 253 in the code; the two special addresses are  *)
(* the two numbers above it, as in the code.                               *)
(***************************************************************************)
EXTENDS Integers

CONSTANT MaxUnicast

Unicast == 0 .. MaxUnicast

\* J1939_IDLE_ADDR, 254 in the code: the source of a cannot-claim frame.
IDLE == MaxUnicast + 1

\* J1939_NO_ADDR, 255 in the code: the broadcast address.
NO_ADDR == MaxUnicast + 2

Address == 0 .. NO_ADDR
==============================================================================
