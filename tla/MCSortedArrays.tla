--------------------------- MODULE MCSortedArrays ---------------------------
(* Instances of SortedArrays for TLC.                                      *)
EXTENDS SortedArrays

CONSTANTS a1, a2

TwoItems == {1, 2}

\* One array of four slots (five are refused), and one of two beside it.
CONSTANTS number, object

\* A number in text becomes an item, an object becomes none.
OneBecomesAnItem == [x \in {number} |-> 2]

LongAndShort == [n \in Name |-> IF n = a1 THEN {4, 5} ELSE {2}]

ManyAndFew == [n \in Name |-> IF n = a1 THEN 0..MaxCapacity ELSE {0, 1}]

Undamaged == ~damaged
=============================================================================
