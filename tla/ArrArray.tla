------------------------------ MODULE ArrArray ------------------------------
(***************************************************************************)
(* The fixed-size array of core/arr/ArrArray.h: a vector of `size' slots,  *)
(* of which the first `used' hold items.  The class checks no bounds; the  *)
(* tests its callers make are the operators isInBounds .. isSetInBounds.   *)
(*                                                                         *)
(* Positions count from 0, as in the code.                                 *)
(***************************************************************************)
EXTENDS Integers, Sequences

CONSTANTS
  Item,     \* what clients store: integers, for the order of a sorted array
  Blank     \* what a slot holds before anything is stored in it

ASSUME ItemAssumption == Item \subseteq Int /\ Blank \in Int

Cell == Item \cup {Blank}

NewArray(len) ==
  [size |-> len, used |-> 0, slots |-> [i \in 0..len - 1 |-> Blank]]

\* No array has size 0: it marks a name with no array.
NoArray == NewArray(0)

\* The array a with other contents.
Holding(a, used, slots) == [size |-> a.size, used |-> used, slots |-> slots]

Least(a, b) == IF a <= b THEN a ELSE b

isInBounds(a, pos) == pos < a.size

isFull(a) == a.used >= a.size

\* (Plausible bug: the items already there are not counted.)
HasCapacityOfEmpty(a, n) == n <= a.size

hasCapacity(a, n) == a.used + n <= a.size

\* (Plausible bug: only the first position is tested.)
SetInBoundsStartOnly(a, start, n) == start < a.size

isSetInBounds(a, start, n) == start < a.size /\ start + n <= a.size

\* std::copy of the items to pos, as far as there are slots.
CopyTo(slots, pos, items) ==
  [i \in DOMAIN slots |->
     IF pos <= i /\ i < pos + Len(items) THEN items[i - pos + 1] ELSE slots[i]]

\* std::rotate: what is at middle comes to first, and what was before it goes
\* to the end of [first, last).
Rotate(slots, first, middle, last) ==
  [i \in DOMAIN slots |->
     IF i < first \/ last <= i THEN slots[i]
     ELSE IF i + middle - first < last THEN slots[i + middle - first]
     ELSE slots[i + middle - last]]

\* std::lower_bound: p is the first position of [first, last) not below x.
IsLowerBound(slots, first, last, x, p) ==
  /\ p \in first..last
  /\ \A i \in first..p - 1 : slots[i] < x
  /\ p < last => slots[p] >= x

\* What reading n slots from pos can give: past the last slot it is whatever
\* the memory there holds.
Reads(a, pos, n) ==
  {s \in [1..n -> Cell] :
     \A i \in 1..n : pos + i - 1 < a.size => s[i] = a.slots[pos + i - 1]}
=============================================================================
