--------------------------- MODULE Arrays_proofs ---------------------------
(***************************************************************************)
(* What holds of sorted and of unsorted arrays alike: lemmas about the     *)
(* operators on arrays, the types, and the steps of the commands that both *)
(* kinds share.                                                            *)
(***************************************************************************)
EXTENDS Arrays, SequenceTheorems, TLAPS

\* What the constants are assumed to be.
USE ItemAssumption, NameAssumption, MaxCapacityAssumption,
    MaxRspSizeAssumption, MaxItemsAssumption, UsedBoundAssumption

-----------------------------------------------------------------------------
(* The operators on arrays and batches.                                    *)

\* The fields of an array.
LEMMA ArrayFields ==
  ASSUME NEW a \in Array
  PROVE  /\ a.size \in 0..MaxCapacity
         /\ a.used \in 0..UsedBound
         /\ a.slots \in [0..a.size - 1 -> Cell]
         /\ a = [size |-> a.size, used |-> a.used, slots |-> a.slots]
  BY DEF Array

\* A record with these fields is an array.
LEMMA ArrayMade ==
  ASSUME NEW size \in 0..MaxCapacity, NEW used \in 0..UsedBound,
         NEW slots \in [0..size - 1 -> Cell]
  PROVE  [size |-> size, used |-> used, slots |-> slots] \in Array
<1>1. [size |-> size, used |-> used, slots |-> slots] \in
        [size : {size}, used : 0..UsedBound, slots : [0..size - 1 -> Cell]]
  OBVIOUS
<1>. QED  BY <1>1 DEF Array

\* A new array is an array.
LEMMA NewArrayMade ==
  ASSUME NEW len \in 0..MaxCapacity
  PROVE  NewArray(len) \in Array
<1>1. [i \in 0..len - 1 |-> Blank] \in [0..len - 1 -> Cell]
  BY DEF Cell
<1>2. 0 \in 0..UsedBound
  OBVIOUS
<1>. QED  BY <1>1, <1>2, ArrayMade DEF NewArray

\* A batch is a sequence of items.
LEMMA BatchIsSeq ==
  ASSUME NEW items \in Batch
  PROVE  /\ items \in Seq(Item)
         /\ Len(items) \in Nat
         /\ \A i \in 1..Len(items) : items[i] \in Item
<1>1. PICK n \in 0..MaxItems : items \in [1..n -> Item]
  BY DEF Batch
<1>2. items \in Seq(Item)
  BY <1>1, SeqDef
<1>. QED  BY <1>2, LenProperties, ElementOfSeq

\* So is what a client sends, also when it is not made of items.
LEMMA SentIsSeq ==
  ASSUME NEW sent \in Sent
  PROVE  Len(sent) \in 0..MaxItems /\ DOMAIN sent = 1..Len(sent)
<1>1. PICK n \in 0..MaxItems : sent \in [1..n -> Item \cup Foreign]
  BY DEF Sent
<1>2. sent \in Seq(Item \cup Foreign)
  BY <1>1, SeqDef
<1>3. DOMAIN sent = 1..n
  BY <1>1
<1>. QED  BY <1>2, <1>3, LenProperties

\* What can be converted becomes a batch of as many items.
LEMMA ConvertedIsBatch ==
  ASSUME NEW sent \in Sent, Converts(sent)
  PROVE  Converted(sent) \in Batch /\ Len(Converted(sent)) = Len(sent)
<1>1. PICK n \in 0..MaxItems : n = Len(sent) /\ DOMAIN sent = 1..n
  BY SentIsSeq
<1>2. PICK Convertible \in SUBSET Foreign : As \in [Convertible -> Item]
  BY AsAssumption
<1>3. \A i \in 1..n : (IF sent[i] \in Item THEN sent[i] ELSE As[sent[i]]) \in Item
  BY <1>1, <1>2 DEF Converts
<1>4. PICK items : items = Converted(sent)
  OBVIOUS
<1>5. items \in [1..n -> Item]
  BY <1>1, <1>3, <1>4 DEF Converted
<1>6. items \in Seq(Item) /\ DOMAIN items = 1..n
  BY <1>5, SeqDef
<1>7. Len(items) = n
  BY <1>6, LenProperties
<1>. QED  BY <1>1, <1>4, <1>5, <1>7 DEF Batch

\* Cells are integers, so they can be compared.
LEMMA CellsAreIntegers == Cell \subseteq Int
  BY DEF Cell

\* Copying a batch changes no slot's type, wherever it is copied to.
LEMMA CopyTyped ==
  ASSUME NEW size \in Nat, NEW slots \in [0..size - 1 -> Cell],
         NEW pos \in Int, NEW items \in Seq(Item)
  PROVE  CopyTo(slots, pos, items) \in [0..size - 1 -> Cell]
<1>1. Len(items) \in Nat /\ \A k \in 1..Len(items) : items[k] \in Item
  BY LenProperties, ElementOfSeq
<1>2. \A i \in 0..size - 1 : pos <= i /\ i < pos + Len(items) => i - pos + 1 \in 1..Len(items)
  BY <1>1
<1>. QED  BY <1>1, <1>2 DEF CopyTo, Cell

\* Rotating [start, pivot) to the end moves what is behind it to start.
LEMMA RangeMoved ==
  ASSUME NEW size \in Nat, NEW start \in Nat, NEW pivot \in Nat,
         NEW slots \in [0..size - 1 -> Cell], start <= pivot, pivot <= size,
         NEW s, s = Rotate(slots, start, pivot, size)
  PROVE  /\ s \in [0..size - 1 -> Cell]
         /\ \A i \in 0..size - 1 :
              /\ i < start => s[i] = slots[i]
              /\ start <= i /\ i < size - (pivot - start) => s[i] = slots[i + pivot - start]
<1>1. s = [i \in 0..size - 1 |->
             IF i < start \/ size <= i THEN slots[i]
             ELSE IF i + pivot - start < size THEN slots[i + pivot - start]
             ELSE slots[i + pivot - size]]
  BY DEF Rotate
<1>2. ASSUME NEW i \in 0..size - 1 PROVE s[i] \in Cell
  <2>1. CASE i < start
    BY <1>1, <2>1
  <2>2. CASE i >= start /\ i + pivot - start < size
    <3>1. i + pivot - start \in 0..size - 1
      BY <2>2
    <3>. QED  BY <1>1, <2>2, <3>1
  <2>3. CASE i >= start /\ ~(i + pivot - start < size)
    <3>1. i + pivot - size \in 0..size - 1
      BY <2>3
    <3>. QED  BY <1>1, <2>3, <3>1
  <2>. QED  BY <2>1, <2>2, <2>3
<1>. QED  BY <1>1, <1>2

-----------------------------------------------------------------------------
(* The types.                                                              *)

ArraysTyped ==
  /\ process \in {"running", "down"}
  /\ arrays \in [Name -> Array]
  /\ damaged \in BOOLEAN

LEMMA InitTyped == ArrInit => ArraysTyped
<1>1. NoArray \in Array
  BY NewArrayMade DEF NoArray
<1>. QED  BY <1>1 DEF ArrInit, ArraysTyped

\* An array, taken apart.
LEMMA PartsOf ==
  ASSUME ArraysTyped, NEW n \in Name
  PROVE  \E size \in 0..MaxCapacity, used \in 0..UsedBound :
           \E slots \in [0..size - 1 -> Cell] :
             arrays[n] = [size |-> size, used |-> used, slots |-> slots]
<1>1. arrays[n] \in Array
  BY DEF ArraysTyped
<1>. QED  BY <1>1, ArrayFields

LEMMA UpdateTyped ==
  ASSUME ArraysTyped, NEW cmd, NEW n \in Name, NEW args, NEW a \in Array,
         Update(cmd, n, args, a)
  PROVE  ArraysTyped'
<1>1. arrays' \in [Name -> Array]
  BY DEF ArraysTyped, Update
<1>. QED  BY <1>1 DEF ArraysTyped, Update

LEMMA DieTyped ==
  ASSUME NEW cmd, NEW n, NEW args, Die(cmd, n, args)
  PROVE  ArraysTyped'
<1>1. NoArray \in Array
  BY NewArrayMade DEF NoArray
<1>. QED  BY <1>1 DEF ArraysTyped, Die

LEMMA OverrunTyped ==
  ASSUME ArraysTyped, NEW cmd, NEW n \in Name, NEW args, NEW used \in Nat,
         NEW Slots \in SUBSET [0..arrays[n].size - 1 -> Cell],
         Overrun(cmd, n, args, used, Slots)
  PROVE  ArraysTyped'
<1>1. CASE Die(cmd, n, args)
  BY <1>1, DieTyped
<1>2. CASE ~Die(cmd, n, args)
  <2>1. PICK s \in Slots :
          arrays' = [arrays EXCEPT ![n] = Holding(arrays[n], used, s)]
    BY <1>2 DEF Overrun
  <2>2. damaged' = TRUE /\ used \in 0..UsedBound /\ UNCHANGED process
    BY <1>2 DEF Overrun
  <2>3. arrays[n] \in Array
    BY DEF ArraysTyped
  <2>4. Holding(arrays[n], used, s) \in Array
    BY <2>1, <2>2, <2>3, ArrayFields, ArrayMade DEF Holding
  <2>5. arrays' \in [Name -> Array]
    BY <2>1, <2>4 DEF ArraysTyped
  <2>. QED  BY <2>2, <2>5 DEF ArraysTyped
<1>. QED  BY <1>1, <1>2

LEMMA QuietTyped ==
  ASSUME ArraysTyped, UNCHANGED <<process, arrays, damaged>>
  PROVE  ArraysTyped'
  BY DEF ArraysTyped

-----------------------------------------------------------------------------
(* CLEAR.                                                                  *)

\* How a CLEAR of the array of these parts ends, when it is not refused.
ClearEnds(n, start, stop, size, used, slots, pivot, left) ==
  LET args == <<start, stop>>
  IN  \/ /\ start = 0 /\ pivot = size
         /\ Update("CLEAR", n, args, [size |-> size, used |-> 0, slots |-> slots])
      \/ /\ start <= pivot /\ pivot <= size
         /\ Update("CLEAR", n, args,
                   [size |-> size, used |-> left,
                    slots |-> Rotate(slots, start, pivot, size)])
      \/ /\ start > pivot \/ pivot > size
         /\ Overrun("CLEAR", n, args, left, [0..size - 1 -> Junk])

\* The range that is cleared ends at `used' or before, and what is left is
\* counted as what is not in it.
LEMMA ClearShape ==
  ASSUME NEW n \in Name, NEW start \in Nat, NEW stop \in Nat \cup {NoStop},
         NEW size \in Nat, NEW used \in Nat, NEW slots \in [0..size - 1 -> Cell],
         arrays[n] = [size |-> size, used |-> used, slots |-> slots],
         Clear(n, start, stop)
  PROVE  \/ NotExist("CLEAR", n) \/ Refuse("CLEAR", n, "Bounds")
         \/ \E pivot, left \in Nat :
              /\ pivot = Least(used, StopOf(arrays[n], stop))
              /\ pivot <= used /\ left = used - (pivot - start)
              /\ start < size
              /\ ClearEnds(n, start, stop, size, used, slots, pivot, left)
<1>1. PICK pivot \in Nat :
        pivot = Least(used, StopOf(arrays[n], stop)) /\ pivot <= used
  BY DEF Least, StopOf, NoStop
<1>2. PICK left \in Nat : left = used - (pivot - start)
  BY <1>1
<1>3. /\ arrays[n].size = size /\ arrays[n].used = used /\ arrays[n].slots = slots
      /\ \A u, s : Holding(arrays[n], u, s) = [size |-> size, used |-> u, slots |-> s]
  BY DEF Holding
<1>4. SUFFICES ASSUME isInBounds(arrays[n], start), ClearArray(n, start, stop)
               PROVE  start < size
                      /\ ClearEnds(n, start, stop, size, used, slots, pivot, left)
  BY <1>1, <1>2 DEF Clear
<1>5. start < size
  BY <1>3, <1>4 DEF isInBounds
<1>6. ClearEnds(n, start, stop, size, used, slots, pivot, left)
  BY <1>1, <1>2, <1>3, <1>4 DEF ClearArray, ClearEnds
<1>. QED  BY <1>5, <1>6

LEMMA ClearTyped ==
  ASSUME ArraysTyped, NEW n \in Name,
         NEW start \in Nat, NEW stop \in Nat \cup {NoStop}, Clear(n, start, stop)
  PROVE  ArraysTyped'
<1>1. PICK size \in 0..MaxCapacity, used \in 0..UsedBound :
        \E slots \in [0..size - 1 -> Cell] :
          arrays[n] = [size |-> size, used |-> used, slots |-> slots]
  BY PartsOf
<1>2. PICK slots \in [0..size - 1 -> Cell] :
        arrays[n] = [size |-> size, used |-> used, slots |-> slots]
  BY <1>1
<1>3. CASE NotExist("CLEAR", n) \/ Refuse("CLEAR", n, "Bounds")
  BY <1>3, QuietTyped DEF NotExist, Refuse
<1>4. ASSUME NEW pivot \in Nat, NEW left \in Nat, pivot <= used,
             left = used - (pivot - start),
             ClearEnds(n, start, stop, size, used, slots, pivot, left)
      PROVE  ArraysTyped'
  <2>1. CASE Update("CLEAR", n, <<start, stop>>, [size |-> size, used |-> 0, slots |-> slots])
    <3>1. [size |-> size, used |-> 0, slots |-> slots] \in Array
      BY ArrayMade
    <3>. QED  BY <2>1, <3>1, UpdateTyped
  <2>2. CASE /\ start <= pivot /\ pivot <= size
             /\ Update("CLEAR", n, <<start, stop>>,
                       [size |-> size, used |-> left,
                        slots |-> Rotate(slots, start, pivot, size)])
    <3>1. PICK s : s = Rotate(slots, start, pivot, size)
      OBVIOUS
    <3>2. s \in [0..size - 1 -> Cell]
      <4>1. size \in Nat /\ start <= pivot /\ pivot <= size
        BY <2>2
      <4>. QED  BY <3>1, <4>1, RangeMoved
    <3>3. left \in 0..UsedBound
      BY <1>4, <2>2
    <3>4. [size |-> size, used |-> left, slots |-> s] \in Array
      BY <3>2, <3>3, ArrayMade
    <3>. QED  BY <2>2, <3>1, <3>4, UpdateTyped
  <2>3. CASE Overrun("CLEAR", n, <<start, stop>>, left, [0..size - 1 -> Junk])
    BY <1>2, <2>3, JunkAssumption, OverrunTyped
  <2>. QED  BY <1>4, <2>1, <2>2, <2>3 DEF ClearEnds
<1>5. size \in Nat /\ used \in Nat
  OBVIOUS
<1>6. \/ NotExist("CLEAR", n) \/ Refuse("CLEAR", n, "Bounds")
      \/ \E pivot, left \in Nat :
           /\ pivot = Least(used, StopOf(arrays[n], stop))
           /\ pivot <= used /\ left = used - (pivot - start)
           /\ start < size
           /\ ClearEnds(n, start, stop, size, used, slots, pivot, left)
  BY <1>2, <1>5, ClearShape
<1>. QED  BY <1>3, <1>4, <1>6

\* What an array of these parts holds.
LEMMA HeldOf ==
  ASSUME NEW size \in Nat, NEW used \in Nat, NEW slots \in [0..size - 1 -> Cell],
         NEW a, a = [size |-> size, used |-> used, slots |-> slots], used <= size
  PROVE  /\ Held(a) \in Seq(Cell) /\ Len(Held(a)) = used
         /\ \A i \in 1..used : Held(a)[i] = slots[i - 1]
<1>1. Held(a) = [i \in 1..used |-> slots[i - 1]]
  BY DEF Held, Least
<1>2. \A i \in 1..used : i - 1 \in 0..size - 1
  OBVIOUS
<1>3. Held(a) \in [1..used -> Cell]
  BY <1>1, <1>2
<1>4. Held(a) \in Seq(Cell)
  BY <1>3, SeqDef
<1>5. Len(Held(a)) = used
  BY <1>3, <1>4, LenProperties
<1>. QED  BY <1>1, <1>4, <1>5

\* t is h, of length n, without the items from start to pivot.
Without(t, S, h, n, start, pivot) ==
  /\ t \in Seq(S) /\ Len(t) = n - (pivot - start)
  /\ \A i \in 1..n - (pivot - start) :
       t[i] = IF i <= start THEN h[i] ELSE h[i + pivot - start]

\* What is before a part and what is behind it, put together.
LEMMA PartTakenOut ==
  ASSUME NEW S, NEW h \in Seq(S), NEW start \in Nat, NEW pivot \in Nat,
         NEW n \in Nat, n = Len(h), start <= pivot, pivot <= n,
         NEW t, t = SubSeq(h, 1, start) \o SubSeq(h, pivot + 1, n)
  PROVE  Without(t, S, h, n, start, pivot)
<1>1. /\ n \in Nat /\ n = Len(h) /\ start \in Nat /\ pivot \in Nat
      /\ start <= pivot /\ pivot <= n
  OBVIOUS
<1>2. \A i \in 1..n : h[i] \in S
  BY <1>1, ElementOfSeq
<1>3. PICK u : u = SubSeq(h, 1, start)
  OBVIOUS
<1>4. PICK v : v = SubSeq(h, pivot + 1, n)
  OBVIOUS
<1>5. u \in Seq(S) /\ Len(u) = start /\ \A i \in 1..start : u[i] = h[i]
  <2>1. \A i \in 1..start : h[i] \in S
    BY <1>1, <1>2
  <2>2. /\ SubSeq(h, 1, start) \in Seq(S)
        /\ Len(SubSeq(h, 1, start)) = IF 1 <= start THEN start - 1 + 1 ELSE 0
        /\ \A i \in 1..start - 1 + 1 : SubSeq(h, 1, start)[i] = h[1 + i - 1]
    BY <2>1, SubSeqProperties
  <2>. QED  BY <1>3, <2>2
<1>6. v \in Seq(S) /\ Len(v) = n - pivot /\ \A i \in 1..n - pivot : v[i] = h[i + pivot]
  <2>1. \A i \in pivot + 1..n : h[i] \in S
    BY <1>1, <1>2
  <2>2. pivot + 1 \in Int /\ n \in Int
    OBVIOUS
  <2>3. /\ SubSeq(h, pivot + 1, n) \in Seq(S)
        /\ Len(SubSeq(h, pivot + 1, n)) =
             IF pivot + 1 <= n THEN n - (pivot + 1) + 1 ELSE 0
        /\ \A i \in 1..n - (pivot + 1) + 1 :
             SubSeq(h, pivot + 1, n)[i] = h[pivot + 1 + i - 1]
    BY <2>1, <2>2, SubSeqProperties
  <2>. QED  BY <1>1, <1>4, <2>3
<1>7. /\ u \o v \in Seq(S) /\ Len(u \o v) = Len(u) + Len(v)
      /\ \A i \in 1..Len(u) + Len(v) :
           (u \o v)[i] = IF i <= Len(u) THEN u[i] ELSE v[i - Len(u)]
  BY <1>5, <1>6, ConcatProperties
<1>8. t = u \o v
  BY <1>3, <1>4
<1>9. t \in Seq(S) /\ Len(t) = n - (pivot - start)
  BY ONLY <1>1, <1>5, <1>6, <1>7, <1>8
<1>10. ASSUME NEW i \in 1..n - (pivot - start)
       PROVE  t[i] = IF i <= start THEN h[i] ELSE h[i + pivot - start]
  <2>0. i \in 1..n - (pivot - start)
    OBVIOUS
  <2>1. t[i] = IF i <= start THEN u[i] ELSE v[i - start]
    BY ONLY <1>1, <1>5, <1>6, <1>7, <1>8, <2>0
  <2>2. CASE i <= start
    <3>1. i \in 1..start
      BY ONLY <1>1, <2>0, <2>2
    <3>. QED  BY ONLY <1>5, <2>1, <2>2, <3>1
  <2>3. CASE ~(i <= start)
    <3>1. i - start \in 1..n - pivot /\ i - start + pivot = i + pivot - start
      BY ONLY <1>1, <2>0, <2>3
    <3>2. PICK k : k = i - start
      OBVIOUS
    <3>. QED  BY ONLY <1>6, <2>1, <2>3, <3>1, <3>2
  <2>. QED  BY <2>2, <2>3
<1>. QED  BY <1>9, <1>10 DEF Without

\* Clearing [start, stop) of an array within its size takes out those items.
LEMMA ClearTakesOut ==
  ASSUME ArraysTyped, NEW n \in Name, NEW start \in Nat, NEW stop \in Nat \cup {NoStop},
         Clear(n, start, stop), rsp'.st = "Ok", ~damaged',
         arrays[n].used <= arrays[n].size
  PROVE  LET a == arrays[n]
             end == Least(a.used, StopOf(a, stop))
         IN  Held(arrays'[n]) =
               SubSeq(Held(a), 1, start) \o SubSeq(Held(a), end + 1, a.used)
<1>1. PICK size \in 0..MaxCapacity, used \in 0..UsedBound :
        \E slots \in [0..size - 1 -> Cell] :
          arrays[n] = [size |-> size, used |-> used, slots |-> slots]
  BY PartsOf
<1>2. PICK slots \in [0..size - 1 -> Cell] :
        arrays[n] = [size |-> size, used |-> used, slots |-> slots]
  BY <1>1
<1>3. size \in Nat /\ used \in Nat /\ used <= size
  BY <1>2
<1>4. ~NotExist("CLEAR", n) /\ ~Refuse("CLEAR", n, "Bounds")
  BY DEF NotExist, Refuse, Reply
<1>5. PICK pivot \in Nat, left \in Nat :
        /\ pivot = Least(used, StopOf(arrays[n], stop))
        /\ pivot <= used /\ left = used - (pivot - start)
        /\ start < size
        /\ ClearEnds(n, start, stop, size, used, slots, pivot, left)
  BY <1>2, <1>3, <1>4, ClearShape
<1>6. ~Overrun("CLEAR", n, <<start, stop>>, left, [0..size - 1 -> Junk])
  BY DEF Overrun, Die, Reply
<1>7. PICK h : h = Held(arrays[n])
  OBVIOUS
<1>8. h \in Seq(Cell) /\ Len(h) = used /\ \A i \in 1..used : h[i] = slots[i - 1]
  BY <1>2, <1>3, <1>7, HeldOf
<1>9. \A a : Update("CLEAR", n, <<start, stop>>, a) => arrays'[n] = a
  BY DEF Update, ArraysTyped
<1>. DEFINE Left(u, s) ==
       /\ arrays'[n] = [size |-> size, used |-> u, slots |-> s]
       /\ start <= pivot /\ u = used - (pivot - start)
       /\ s \in [0..size - 1 -> Cell]
       /\ \A i \in 0..u - 1 : s[i] = IF i < start THEN slots[i] ELSE slots[i + pivot - start]
<1>a. ASSUME start = 0, pivot = size,
             Update("CLEAR", n, <<start, stop>>,
                    [size |-> size, used |-> 0, slots |-> slots])
      PROVE  \E u, s : Left(u, s)
  <2>1. arrays'[n] = [size |-> size, used |-> 0, slots |-> slots]
    BY <1>9, <1>a
  <2>2. start <= pivot /\ 0 = used - (pivot - start)
    BY <1>3, <1>5, <1>a
  <2>3. \A i \in 0..0 - 1 :
          slots[i] = IF i < start THEN slots[i] ELSE slots[i + pivot - start]
    OBVIOUS
  <2>4. slots \in [0..size - 1 -> Cell]
    OBVIOUS
  <2>5. Left(0, slots)
    BY ONLY <2>1, <2>2, <2>3, <2>4
  <2>. HIDE DEF Left
  <2>. QED  BY ONLY <2>5
<1>b. ASSUME start <= pivot, pivot <= size,
             Update("CLEAR", n, <<start, stop>>,
                    [size |-> size, used |-> left,
                     slots |-> Rotate(slots, start, pivot, size)])
      PROVE  \E u, s : Left(u, s)
  <2>1. PICK s : s = Rotate(slots, start, pivot, size)
    OBVIOUS
  <2>2. /\ s \in [0..size - 1 -> Cell]
        /\ \A i \in 0..size - 1 :
             /\ i < start => s[i] = slots[i]
             /\ start <= i /\ i < size - (pivot - start) => s[i] = slots[i + pivot - start]
    <3>1. /\ size \in Nat /\ start \in Nat /\ pivot \in Nat
          /\ slots \in [0..size - 1 -> Cell] /\ start <= pivot /\ pivot <= size
      BY <1>b
    <3>. QED  BY ONLY <2>1, <3>1, RangeMoved
  <2>3. arrays'[n] = [size |-> size, used |-> left, slots |-> s]
    BY <1>9, <1>b, <2>1
  <2>4. \A i \in 0..left - 1 :
          s[i] = IF i < start THEN slots[i] ELSE slots[i + pivot - start]
    <3>1. \A i \in 0..left - 1 : i \in 0..size - 1 /\ i < size - (pivot - start)
      BY <1>3, <1>5, <1>b
    <3>. QED  BY <2>2, <3>1
  <2>5. start <= pivot /\ left = used - (pivot - start)
    BY <1>5, <1>b
  <2>6. Left(left, s)
    BY ONLY <2>2, <2>3, <2>4, <2>5
  <2>. QED  BY ONLY <2>6
<1>10. PICK u, s : Left(u, s)
  BY <1>5, <1>6, <1>a, <1>b DEF ClearEnds
<1>11. PICK g, b : g = Held(b) /\ b = arrays'[n]
  OBVIOUS
<1>12. u \in Nat /\ u <= size
  BY <1>3, <1>5, <1>10
<1>13. g \in Seq(Cell) /\ Len(g) = u /\ \A i \in 1..u : g[i] = s[i - 1]
  <2>1. /\ size \in Nat /\ u \in Nat /\ s \in [0..size - 1 -> Cell]
        /\ b = [size |-> size, used |-> u, slots |-> s] /\ u <= size
    BY <1>3, <1>10, <1>11, <1>12
  <2>2. /\ Held(b) \in Seq(Cell) /\ Len(Held(b)) = u
        /\ \A i \in 1..u : Held(b)[i] = s[i - 1]
    BY ONLY <2>1, HeldOf
  <2>. QED  BY <1>11, <2>2
<1>14. PICK t : t = SubSeq(h, 1, start) \o SubSeq(h, pivot + 1, used)
  OBVIOUS
<1>15. /\ t \in Seq(Cell) /\ Len(t) = u
       /\ \A i \in 1..u : t[i] = IF i <= start THEN h[i] ELSE h[i + pivot - start]
  <2>1. /\ h \in Seq(Cell) /\ used \in Nat /\ used = Len(h)
        /\ start \in Nat /\ pivot \in Nat /\ start <= pivot /\ pivot <= used
    BY <1>3, <1>5, <1>8, <1>10
  <2>2. Without(t, Cell, h, used, start, pivot)
    BY ONLY <1>14, <2>1, PartTakenOut
  <2>. QED  BY ONLY <1>10, <2>2 DEF Without
<1>16. ASSUME NEW i \in 1..u PROVE g[i] = t[i]
  <2>0. i \in 1..u /\ start \in Nat /\ pivot \in Nat
    OBVIOUS
  <2>1. CASE i <= start
    <3>1. i \in 1..used /\ i - 1 \in 0..u - 1 /\ i - 1 < start
      BY ONLY <1>3, <1>5, <1>10, <1>12, <2>0, <2>1
    <3>. QED  BY <1>8, <1>10, <1>13, <1>15, <2>1, <3>1
  <2>2. CASE ~(i <= start)
    <3>1. /\ i + pivot - start \in 1..used /\ i - 1 \in 0..u - 1 /\ ~(i - 1 < start)
          /\ i - 1 + pivot - start = i + pivot - start - 1
      BY ONLY <1>3, <1>5, <1>10, <1>12, <2>0, <2>2
    <3>2. g[i] = slots[i - 1 + pivot - start]
      BY <1>10, <1>13, <3>1
    <3>3. t[i] = h[i + pivot - start]
      BY <1>15, <2>2
    <3>4. h[i + pivot - start] = slots[i + pivot - start - 1]
      BY <1>8, <3>1
    <3>. QED  BY <3>1, <3>2, <3>3, <3>4
  <2>. QED  BY <2>1, <2>2
<1>17. g = t
  BY <1>13, <1>15, <1>16, SeqEqual
<1>18. arrays[n].used = used /\ pivot = Least(arrays[n].used, StopOf(arrays[n], stop))
  BY <1>2, <1>5
<1>. QED  BY <1>7, <1>11, <1>14, <1>17, <1>18

-----------------------------------------------------------------------------
(* The commands that sorted and unsorted arrays share.                     *)

LEMMA CommandTyped ==
  ASSUME ArraysTyped, Command
  PROVE  ArraysTyped'
<1>1. NoArray \in Array
  BY NewArrayMade DEF NoArray
<1>2. CASE DeleteAll
  BY <1>1, <1>2 DEF ArraysTyped, DeleteAll
<1>3. ASSUME NEW n \in Name, NEW len \in Lengths[n], Create(n, len)
      PROVE  ArraysTyped'
  <2>1. CASE Refuse("CREATE", n, "Duplicate") \/ Refuse("CREATE", n, "Bounds")
    BY <2>1, QuietTyped DEF Refuse
  <2>2. CASE /\ len \in 1..MaxCapacity
             /\ Update("CREATE", n, <<len>>, NewArray(len))
    <3>1. NewArray(len) \in Array
      BY <2>2, NewArrayMade
    <3>. QED  BY <2>2, <3>1, UpdateTyped
  <2>. QED  BY <1>3, <2>1, <2>2 DEF Create
<1>4. ASSUME NEW n \in Name, Delete(n) PROVE ArraysTyped'
  BY <1>1, <1>4, UpdateTyped DEF Delete
<1>5. ASSUME NEW n \in Name, NEW pos \in Positions[n], Get(n, pos)
      PROVE  ArraysTyped'
  BY <1>5, QuietTyped DEF Get, NotExist, Refuse, Show
<1>6. ASSUME NEW n \in Name, NEW start \in Positions[n],
             NEW stop \in Positions[n] \cup {NoStop}, GetRange(n, start, stop)
      PROVE  ArraysTyped'
  BY <1>6, QuietTyped DEF GetRange, NotExist, Refuse, Show
<1>7. ASSUME NEW n \in Name, NEW start \in Positions[n],
             NEW stop \in Positions[n] \cup {NoStop}, Clear(n, start, stop)
      PROVE  ArraysTyped'
  <2>1. start \in Nat /\ stop \in Nat \cup {NoStop}
    BY <1>7, PositionsAssumption
  <2>. QED  BY <1>7, <2>1, ClearTyped
<1>. QED  BY <1>2, <1>3, <1>4, <1>5, <1>6, <1>7 DEF Command

\* What a command ends in tells what it did to the arrays.
LEMMA Ends ==
  /\ \A cmd, n, args, a : Update(cmd, n, args, a) => rsp'.st = "Ok"
  /\ \A cmd, n, args, items :
       Show(cmd, n, args, items) => UNCHANGED <<process, arrays, damaged>>
  /\ \A cmd, n, st : Refuse(cmd, n, st) => UNCHANGED <<process, arrays, damaged>>
  /\ \A cmd, n : NotExist(cmd, n) => UNCHANGED <<process, arrays, damaged>>
  /\ \A cmd, n, args, used, Slots :
       Overrun(cmd, n, args, used, Slots) => rsp'.st \in {"Ok", "none"}
  /\ \A cmd, n, args : Die(cmd, n, args) => rsp'.st = "none"
  BY DEF Update, Show, Refuse, NotExist, Overrun, Die, Reply

LEMMA RefusedCommand ==
  ASSUME Command, rsp'.st \notin {"Ok", "none"}
  PROVE  UNCHANGED arrays
<1>1. ~DeleteAll
  BY DEF DeleteAll, Reply
<1>2. \A n, len : Create(n, len) => UNCHANGED arrays
  BY Ends DEF Create
<1>3. \A n : ~Delete(n)
  BY Ends DEF Delete
<1>4. \A n, pos : Get(n, pos) => UNCHANGED arrays
  BY Ends DEF Get
<1>5. \A n, start, stop : GetRange(n, start, stop) => UNCHANGED arrays
  BY Ends DEF GetRange
<1>6. \A n, start, stop : Clear(n, start, stop) => UNCHANGED arrays
  BY Ends DEF Clear, ClearArray
<1>. QED  BY <1>1, <1>2, <1>3, <1>4, <1>5, <1>6 DEF Command

\* Which commands are answered as a CLEAR: those that are one.
LEMMA NamedInAnswer ==
  /\ \A cmd, n, args, a : Update(cmd, n, args, a) => rsp'.cmd = cmd
  /\ \A cmd, n, args, items : Show(cmd, n, args, items) => rsp'.cmd = cmd
  /\ \A cmd, n, st : Refuse(cmd, n, st) => rsp'.cmd = cmd
  /\ \A cmd, n : NotExist(cmd, n) => rsp'.cmd = cmd
  /\ \A cmd, n, args, used, Slots : Overrun(cmd, n, args, used, Slots) => rsp'.cmd = cmd
  /\ \A cmd, n, args : Die(cmd, n, args) => rsp'.cmd = cmd
  BY DEF Update, Show, Refuse, NotExist, Overrun, Die, Reply

\* A CLEAR that is answered Ok names what it cleared.
LEMMA ClearAnswered ==
  ASSUME NEW n, NEW start, NEW stop, Clear(n, start, stop), rsp'.st = "Ok"
  PROVE  rsp'.name = n /\ rsp'.args[1] = start /\ rsp'.args[2] = stop
<1>1. ~NotExist("CLEAR", n) /\ ~Refuse("CLEAR", n, "Bounds")
  BY DEF NotExist, Refuse, Reply
<1>2. /\ \A a : Update("CLEAR", n, <<start, stop>>, a) =>
                  rsp'.name = n /\ rsp'.args = <<start, stop>>
      /\ \A used, Slots : Overrun("CLEAR", n, <<start, stop>>, used, Slots) =>
                            rsp'.name = n /\ rsp'.args = <<start, stop>>
  BY DEF Update, Overrun, Die, Reply
<1>. QED  BY <1>1, <1>2 DEF Clear, ClearArray

LEMMA ClearCommand ==
  ASSUME Command, rsp'.cmd = "CLEAR"
  PROVE  \E n \in Name : \E start \in Positions[n], stop \in Positions[n] \cup {NoStop} :
           Clear(n, start, stop)
<1>1. ~DeleteAll
  BY DEF DeleteAll, Reply
<1>2. \A n, len : ~Create(n, len)
  BY NamedInAnswer DEF Create
<1>3. \A n : ~Delete(n)
  BY NamedInAnswer DEF Delete
<1>4. \A n, pos : ~Get(n, pos)
  BY NamedInAnswer DEF Get
<1>5. \A n, start, stop : ~GetRange(n, start, stop)
  BY NamedInAnswer DEF GetRange
<1>. QED  BY <1>1, <1>2, <1>3, <1>4, <1>5 DEF Command

\* What ClearKeepsTheRest says of a step.
ClearKeeps(n) ==
  LET a == arrays[n]
      start == rsp'.args[1]
      end == Least(a.used, StopOf(a, rsp'.args[2]))
  IN  rsp'.cmd = "CLEAR" /\ rsp'.name = n /\ rsp'.st = "Ok" /\ ~damaged'
      /\ a.used <= a.size =>
        Held(arrays'[n]) =
          SubSeq(Held(a), 1, start) \o SubSeq(Held(a), end + 1, a.used)

LEMMA CommandClears ==
  ASSUME ArraysTyped, Command, NEW n \in Name
  PROVE  ClearKeeps(n)
<1>. SUFFICES ASSUME rsp'.cmd = "CLEAR", rsp'.name = n, rsp'.st = "Ok", ~damaged',
                     arrays[n].used <= arrays[n].size
              PROVE  LET a == arrays[n]
                         end == Least(a.used, StopOf(a, rsp'.args[2]))
                     IN  Held(arrays'[n]) =
                           SubSeq(Held(a), 1, rsp'.args[1]) \o SubSeq(Held(a), end + 1, a.used)
  BY DEF ClearKeeps
<1>1. PICK m \in Name : \E start \in Positions[m], stop \in Positions[m] \cup {NoStop} :
        Clear(m, start, stop)
  BY ClearCommand
<1>2. PICK start \in Positions[m], stop \in Positions[m] \cup {NoStop} :
        Clear(m, start, stop)
  BY <1>1
<1>3. m = n /\ rsp'.args[1] = start /\ rsp'.args[2] = stop
  BY <1>2, ClearAnswered
<1>4. start \in Nat /\ stop \in Nat \cup {NoStop}
  BY <1>2, <1>3, PositionsAssumption
<1>5. LET a == arrays[n]
          end == Least(a.used, StopOf(a, stop))
      IN  Held(arrays'[n]) =
            SubSeq(Held(a), 1, start) \o SubSeq(Held(a), end + 1, a.used)
  BY <1>2, <1>3, <1>4, ClearTakesOut
<1>. QED  BY <1>3, <1>5
=============================================================================
