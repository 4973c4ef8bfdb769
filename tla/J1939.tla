-------------------------------- MODULE J1939 --------------------------------
(***************************************************************************)
(* The NAMEs of a J1939 network, as jay represents them (name.hpp).        *)
(*                                                                         *)
(* A NAME is a 64-bit number.  Bit 63, "self configurable address", is     *)
(* masked out by name's operators <, > and ==, so a NAME is represented    *)
(* here by the number the other 63 bits hold, and bit 63 by membership in  *)
(* SelfConfig.  Two NAMEs that differ in bit 63 only are not distinguished *)
(* by this representation.                                                 *)
(***************************************************************************)
EXTENDS Addresses

CONSTANTS
  Name,         \* the NAMEs that occur on the network
  SelfConfig    \* those whose bit 63 is set

ASSUME J1939Assumption ==
  /\ MaxUnicast \in Nat
  /\ Name \subseteq Nat
  /\ SelfConfig \subseteq Name

\* The value that stands for "no such entry" where a NAME is expected.
NoName == -1

\* name::self_config_address
self_config_address(n) == n \in SelfConfig

\* name has no operator <=, so n <= m converts both to their 64-bit integer
\* and bit 63 takes part in the comparison.
RawLeq(n, m) ==
  IF self_config_address(n) = self_config_address(m)
  THEN n <= m
  ELSE self_config_address(m)
==============================================================================
