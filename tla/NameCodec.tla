------------------------------ MODULE NameCodec ------------------------------
(***************************************************************************)
(* jay::name (name.hpp): the 64-bit NAME, its bit fields, its comparisons  *)
(* and its conversion to and from the eight bytes of a payload.            *)
(***************************************************************************)
EXTENDS Words, Sequences

NameField == {"id_num", "man_code", "ecu_inst", "func_inst", "func",
              "dev_cls", "dev_cls_inst", "ind_grp", "slf_cfg_addr"}

\* The constants <field>_start_bit.
start_bit(f) ==
  CASE f = "id_num"       -> 0
    [] f = "man_code"     -> 21
    [] f = "ecu_inst"     -> 32
    [] f = "func_inst"    -> 35
    [] f = "func"         -> 40
    [] f = "dev_cls"      -> 49
    [] f = "dev_cls_inst" -> 56
    [] f = "ind_grp"      -> 60
    [] f = "slf_cfg_addr" -> 63

\* The constants <field>_mask.
mask(f) ==
  CASE f = "id_num"       -> 0 .. 20
    [] f = "man_code"     -> 21 .. 31
    [] f = "ecu_inst"     -> 32 .. 34
    [] f = "func_inst"    -> 35 .. 39
    [] f = "func"         -> 40 .. 47
    [] f = "dev_cls"      -> 49 .. 55
    [] f = "dev_cls_inst" -> 56 .. 59
    [] f = "ind_grp"      -> 60 .. 62
    [] f = "slf_cfg_addr" -> 63 .. 63

\* The width of the setters' parameter.
param_width(f) ==
  CASE f = "id_num" -> 32
    [] f = "man_code" -> 16
    [] OTHER -> 8

\* The value v placed in field f; bits that do not belong there are removed.
placed(f, v) == shift_left(bits(v, param_width(f)), start_bit(f)) \cap mask(f)

\* Seeded fault: extra bits of the value reach the neighbouring field.
set_field_unmasked(n, f, v) ==
  (n \ mask(f)) \cup shift_left(bits(v, param_width(f)), start_bit(f))

\* The setter of field f.
set_field(n, f, v) == (n \ mask(f)) \cup placed(f, v)

\* The getter of field f.
get_field(n, f) == number(shift_right(n \cap mask(f), start_bit(f)))

\* The constructor from all fields; values is a function on NameField.
name_of(values) == UNION {placed(f, values[f]) : f \in NameField}

\* Conversion to std::array<std::uint8_t, 8>.
to_payload(n) == [i \in 1 .. 8 |-> shift_right(n, 8 * (i - 1)) \cap 0 .. 7]

\* Seeded fault: the bytes are read in the wrong order.
from_payload_swapped(p) == UNION {shift_left(p[i], 8 * (8 - i)) : i \in 1 .. 8}

\* The constructor from a payload.
from_payload(p) == UNION {shift_left(p[i], 8 * (i - 1)) : i \in 1 .. 8}

\* Seeded fault: bit 63 takes part in the comparison.
name_less_raw(n, m) == below(n, m)

\* operator <, and operator > with the arguments swapped
name_less(n, m) == below(n \ mask("slf_cfg_addr"), m \ mask("slf_cfg_addr"))

\* operator ==
name_equal(n, m) == n \ mask("slf_cfg_addr") = m \ mask("slf_cfg_addr")
==============================================================================
