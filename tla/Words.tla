-------------------------------- MODULE Words --------------------------------
(***************************************************************************)
(* Unsigned machine words as the sets of their one bits, bit 0 being the   *)
(* least significant: and, or and complement are those of sets, and a word *)
(* of 64 bits is no larger a value than one of 8.                          *)
(***************************************************************************)
EXTENDS Integers, FiniteSets, FiniteSetsExt

\* The word of width w that holds the number v (the bits beyond w are lost).
\* The numbers themselves are below 2^31.
bits(v, w) == {b \in 0 .. w - 1 : b < 31 /\ (v \div 2^b) % 2 = 1}

\* The number a word holds.
number(word) == MapThenSumSet(LAMBDA b : 2^b, word)

shift_left(word, n) == {b + n : b \in word}

shift_right(word, n) == {b - n : b \in {c \in word : c >= n}}

\* The comparison word < other: the highest bit that differs is other's.
below(word, other) ==
  LET differ == (word \ other) \cup (other \ word)
  IN  differ # {} /\ Max(differ) \in other
==============================================================================
