-------------------------- MODULE MCUnsortedArrays --------------------------
(* Instances of UnsortedArrays for TLC.                                    *)
EXTENDS UnsortedArrays

TwoItems == {1, 2}

CONSTANTS number, object

\* A number in text becomes an item, an object becomes none.
OneBecomesAnItem == [x \in {number} |-> 2]

EveryLength == [n \in Name |-> 0..MaxCapacity + 1]

EveryPosition == [n \in Name |-> 0..MaxCapacity]
=============================================================================
