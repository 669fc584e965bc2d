----------------------- MODULE UnsortedArrays_proofs -----------------------
(***************************************************************************)
(* Theorems about UnsortedArrays, for every set of items, every capacity   *)
(* and every limit of the configuration: the types, and what refused       *)
(* commands, CLEAR and the tests of the bounds do to the storage.          *)
(***************************************************************************)
EXTENDS UnsortedArrays, Arrays_proofs

\* What the constants are assumed to be.
USE ItemAssumption, NameAssumption, MaxCapacityAssumption,
    MaxRspSizeAssumption, MaxItemsAssumption, UsedBoundAssumption

LEMMA TypeOKIsTyped == TypeOK <=> ArraysTyped
  BY DEF TypeOK, ArraysTyped

-----------------------------------------------------------------------------
(* The commands of unsorted arrays.                                        *)

\* An array with other contents, put together.
LEMMA HoldingTyped ==
  ASSUME NEW size \in 0..MaxCapacity, NEW used \in 0..UsedBound,
         NEW slots \in [0..size - 1 -> Cell], NEW a, a.size = size
  PROVE  Holding(a, used, slots) \in Array
  BY ArrayMade DEF Holding

LEMMA SetNextTyped ==
  ASSUME ArraysTyped, NEW n \in Name, NEW x \in Item, SetNext(n, x)
  PROVE  ArraysTyped'
<1>1. PICK size \in 0..MaxCapacity, used \in 0..UsedBound :
        \E slots \in [0..size - 1 -> Cell] :
          arrays[n] = [size |-> size, used |-> used, slots |-> slots]
  BY PartsOf
<1>2. PICK slots \in [0..size - 1 -> Cell] :
        arrays[n] = [size |-> size, used |-> used, slots |-> slots]
  BY <1>1
<1>3. CASE NotExist("SET", n) \/ Refuse("SET", n, "Bounds")
  BY <1>3, Ends, QuietTyped
<1>4. CASE /\ ~isFull(arrays[n])
           /\ Update("SET", n, <<x>>,
                     [size |-> size, used |-> used + 1, slots |-> [slots EXCEPT ![used] = x]])
  <2>1. used \in 0..size - 1 /\ used + 1 \in 0..UsedBound
    BY <1>2, <1>4 DEF isFull
  <2>2. [slots EXCEPT ![used] = x] \in [0..size - 1 -> Cell]
    BY <2>1 DEF Cell
  <2>3. [size |-> size, used |-> used + 1, slots |-> [slots EXCEPT ![used] = x]] \in Array
    BY <2>1, <2>2, ArrayMade
  <2>. QED  BY <1>4, <2>3, UpdateTyped
<1>. QED  BY <1>2, <1>3, <1>4 DEF SetNext, Holding

LEMMA SetAtTyped ==
  ASSUME ArraysTyped, NEW n \in Name, NEW pos \in Nat, NEW x \in Item, SetAt(n, pos, x)
  PROVE  ArraysTyped'
<1>1. PICK size \in 0..MaxCapacity, used \in 0..UsedBound :
        \E slots \in [0..size - 1 -> Cell] :
          arrays[n] = [size |-> size, used |-> used, slots |-> slots]
  BY PartsOf
<1>2. PICK slots \in [0..size - 1 -> Cell] :
        arrays[n] = [size |-> size, used |-> used, slots |-> slots]
  BY <1>1
<1>3. CASE NotExist("SET", n) \/ Refuse("SET", n, "Bounds")
  BY <1>3, Ends, QuietTyped
<1>4. CASE /\ pos < size
           /\ Update("SET", n, <<pos, x>>,
                     [size |-> size, used |-> used, slots |-> [slots EXCEPT ![pos] = x]])
  <2>1. pos \in 0..size - 1
    BY <1>4
  <2>2. [slots EXCEPT ![pos] = x] \in [0..size - 1 -> Cell]
    BY <2>1 DEF Cell
  <2>3. [size |-> size, used |-> used, slots |-> [slots EXCEPT ![pos] = x]] \in Array
    BY <2>2, ArrayMade
  <2>. QED  BY <1>4, <2>3, UpdateTyped
<1>. QED  BY <1>2, <1>3, <1>4 DEF SetAt, Holding, isInBounds

LEMMA StoreTyped ==
  ASSUME ArraysTyped, NEW n \in Name, NEW pos \in Nat, NEW sent \in Sent,
         Converts(sent), Store(n, pos, sent)
  PROVE  ArraysTyped'
<1>1. PICK size \in 0..MaxCapacity, used \in 0..UsedBound :
        \E slots \in [0..size - 1 -> Cell] :
          arrays[n] = [size |-> size, used |-> used, slots |-> slots]
  BY PartsOf
<1>2. PICK slots \in [0..size - 1 -> Cell] :
        arrays[n] = [size |-> size, used |-> used, slots |-> slots]
  BY <1>1
<1>3. PICK items \in Seq(Item) :
        items = Converted(sent) /\ Len(items) = Len(sent) /\ Len(sent) \in Nat
  BY ConvertedIsBatch, BatchIsSeq
<1>4. PICK s : s = CopyTo(slots, pos, items)
  OBVIOUS
<1>5. s \in [0..size - 1 -> Cell]
  <2>1. size \in Nat /\ pos \in Int
    OBVIOUS
  <2>. QED  BY <1>3, <1>4, <2>1, CopyTyped
<1>6. PICK u \in Nat : u = used + Len(sent)
  BY <1>3
<1>7. CASE u <= UsedBound /\ Update("SET_RNG", n, sent, [size |-> size, used |-> u, slots |-> s])
  <2>1. [size |-> size, used |-> u, slots |-> s] \in Array
    BY <1>5, <1>7, ArrayMade
  <2>. QED  BY <1>7, <2>1, UpdateTyped
<1>8. CASE Overrun("SET_RNG", n, sent, u, {s})
  <2>1. {s} \in SUBSET [0..arrays[n].size - 1 -> Cell]
    BY <1>2, <1>5
  <2>. QED  BY <1>8, <2>1, OverrunTyped
<1>. QED  BY <1>2, <1>3, <1>4, <1>6, <1>7, <1>8 DEF Store, Holding

LEMMA SetRangesTyped ==
  ASSUME ArraysTyped, NEW n \in Name, NEW sent \in Sent,
         AppendRange(n, sent) \/ \E pos \in Positions[n] : SetRangeAt(n, pos, sent)
  PROVE  ArraysTyped'
<1>1. CASE NotExist("SET_RNG", n) \/ Unconverted(n, sent) \/ Refuse("SET_RNG", n, "Bounds")
  BY <1>1, Ends, QuietTyped DEF Unconverted
<1>2. CASE Converts(sent) /\ Store(n, arrays[n].used, sent)
  <2>1. arrays[n].used \in Nat
    BY ArrayFields DEF ArraysTyped
  <2>. QED  BY <1>2, <2>1, StoreTyped
<1>3. ASSUME NEW pos \in Positions[n], Converts(sent), Store(n, pos, sent)
      PROVE  ArraysTyped'
  BY <1>3, StoreTyped, PositionsAssumption
<1>. QED  BY <1>1, <1>2, <1>3 DEF AppendRange, SetRangeAt

LEMMA SwapTyped ==
  ASSUME ArraysTyped, NEW n \in Name, NEW posA \in Nat, NEW posB \in Nat,
         Swap(n, posA, posB)
  PROVE  ArraysTyped'
<1>1. PICK size \in 0..MaxCapacity, used \in 0..UsedBound :
        \E slots \in [0..size - 1 -> Cell] :
          arrays[n] = [size |-> size, used |-> used, slots |-> slots]
  BY PartsOf
<1>2. PICK slots \in [0..size - 1 -> Cell] :
        arrays[n] = [size |-> size, used |-> used, slots |-> slots]
  BY <1>1
<1>3. CASE NotExist("SWAP", n) \/ Refuse("SWAP", n, "Bounds")
  BY <1>3, Ends, QuietTyped
<1>4. PICK s : s = [slots EXCEPT ![posA] = slots[posB], ![posB] = slots[posA]]
  OBVIOUS
<1>5. CASE /\ isInBounds(arrays[n], posA) /\ isInBounds(arrays[n], posB)
           /\ Update("SWAP", n, <<posA, posB>>, [size |-> size, used |-> used, slots |-> s])
  <2>1. posA \in 0..size - 1 /\ posB \in 0..size - 1
    BY <1>2, <1>5 DEF isInBounds
  <2>2. s \in [0..size - 1 -> Cell]
    BY <1>4, <2>1
  <2>3. [size |-> size, used |-> used, slots |-> s] \in Array
    BY <2>2, ArrayMade
  <2>. QED  BY <1>5, <2>3, UpdateTyped
<1>. QED  BY <1>2, <1>3, <1>4, <1>5 DEF Swap, Holding

LEMMA NextTyped ==
  ASSUME ArraysTyped, Next
  PROVE  ArraysTyped'
<1>1. CASE Start
  BY <1>1 DEF Start, ArraysTyped
<1>2. CASE Command
  BY <1>2, CommandTyped
<1>3. ASSUME NEW n \in Name, NEW x \in Item, SetNext(n, x) PROVE ArraysTyped'
  BY <1>3, SetNextTyped
<1>4. ASSUME NEW n \in Name, NEW x \in Item, NEW pos \in Positions[n], SetAt(n, pos, x)
      PROVE  ArraysTyped'
  BY <1>4, SetAtTyped, PositionsAssumption
<1>5. ASSUME NEW n \in Name, NEW sent \in Sent,
             AppendRange(n, sent) \/ \E pos \in Positions[n] : SetRangeAt(n, pos, sent)
      PROVE  ArraysTyped'
  BY <1>5, SetRangesTyped
<1>6. ASSUME NEW n \in Name, NEW posA \in Positions[n], NEW posB \in Positions[n],
             Swap(n, posA, posB)
      PROVE  ArraysTyped'
  BY <1>6, SwapTyped, PositionsAssumption
<1>. QED  BY <1>1, <1>2, <1>3, <1>4, <1>5, <1>6 DEF Next

-----------------------------------------------------------------------------
(* The theorems.                                                           *)

LEMMA Invariance == Spec => []ArraysTyped
<1>1. Init => ArraysTyped
  BY InitTyped DEF Init
<1>2. ArraysTyped /\ [Next]_arrVars => ArraysTyped'
  BY NextTyped, QuietTyped DEF arrVars
<1>. QED  BY <1>1, <1>2, PTL DEF Spec

\* The variables keep their types: a vector never has another number of slots
\* than it was created with, whatever is written outside of it.
THEOREM TypeCorrect == Spec => []TypeOK
  BY Invariance, TypeOKIsTyped, PTL

\* No command that is refused has stored, moved or counted anything: neither a
\* SET_RNG out of bounds nor one of whose items only one cannot be converted.
THEOREM RefusedKeeps == Spec => RefusedChangesNothing
<1>1. ASSUME Next, process' = "running", rsp'.st \notin {"Ok", "none"}
      PROVE  arrays' = arrays
  <2>1. Start => arrays' = arrays
    BY DEF Start
  <2>2. Command => arrays' = arrays
    BY <1>1, RefusedCommand
  <2>3. \A n, x : SetNext(n, x) => arrays' = arrays
    BY <1>1, Ends DEF SetNext
  <2>4. \A n, x, pos : SetAt(n, pos, x) => arrays' = arrays
    BY <1>1, Ends DEF SetAt
  <2>5. \A n, pos, sent : ~Store(n, pos, sent)
    BY <1>1, Ends DEF Store
  <2>6. \A n, pos, sent : AppendRange(n, sent) \/ SetRangeAt(n, pos, sent) => arrays' = arrays
    BY <2>5, Ends DEF AppendRange, SetRangeAt, Unconverted
  <2>7. \A n, posA, posB : Swap(n, posA, posB) => arrays' = arrays
    BY <1>1, Ends DEF Swap
  <2>. QED  BY <1>1, <2>1, <2>2, <2>3, <2>4, <2>6, <2>7 DEF Next
<1>. QED  BY <1>1, PTL DEF Spec, RefusedChangesNothing

\* A CLEAR takes out the items of its range and keeps the others in their order.
THEOREM ClearTakes == Spec => ClearKeepsTheRest
<1>1. ASSUME ArraysTyped, Next, NEW n \in Name
      PROVE  ClearKeeps(n)
  <2>. SUFFICES ASSUME rsp'.cmd = "CLEAR" PROVE ClearKeeps(n)
    BY DEF ClearKeeps
  <2>1. ~Start
    BY DEF Start, NoRsp
  <2>2. \A m, x, pos : ~SetNext(m, x) /\ ~SetAt(m, pos, x)
    BY NamedInAnswer DEF SetNext, SetAt
  <2>3. \A m, pos, sent : ~Store(m, pos, sent)
    BY NamedInAnswer DEF Store
  <2>4. \A m, pos, sent : ~AppendRange(m, sent) /\ ~SetRangeAt(m, pos, sent)
    BY <2>3, NamedInAnswer DEF AppendRange, SetRangeAt, Unconverted
  <2>5. \A m, posA, posB : ~Swap(m, posA, posB)
    BY NamedInAnswer DEF Swap
  <2>6. Command
    BY <1>1, <2>1, <2>2, <2>4, <2>5 DEF Next
  <2>. QED  BY <1>1, <2>6, CommandClears
<1>2. ArraysTyped /\ [Next]_arrVars => [\A n \in Name : ClearKeeps(n)]_arrVars
  BY <1>1
<1>3. [\A n \in Name : ClearKeeps(n)]_arrVars =>
      [\A n \in Name :
         LET a == arrays[n]
             start == rsp'.args[1]
             end == Least(a.used, StopOf(a, rsp'.args[2]))
         IN  rsp'.cmd = "CLEAR" /\ rsp'.name = n /\ rsp'.st = "Ok" /\ ~damaged'
             /\ a.used <= a.size =>
               Held(arrays'[n]) =
                 SubSeq(Held(a), 1, start) \o SubSeq(Held(a), end + 1, a.used)]_arrVars
  BY DEF ClearKeeps
<1>. QED  BY <1>2, <1>3, Invariance, PTL DEF Spec, ClearKeepsTheRest

\* What OnlyKnownDamage says of array n in a step that leaves a storage.
Known(n) ==
  \/ /\ rsp'.cmd = "SET_RNG" /\ rsp'.name = n
     /\ arrays[n].used < arrays[n].size
     /\ arrays[n].used + Len(rsp'.args) > arrays[n].size
  \/ /\ rsp'.cmd = "CLEAR" /\ rsp'.name = n
     /\ \/ rsp'.args[1] > arrays[n].used
        \/ rsp'.args[2] # NoStop /\ rsp'.args[1] > rsp'.args[2]
        \/ arrays[n].used > arrays[n].size

\* Only Overrun sets `damaged'.
LEMMA Damaging ==
  ASSUME ~damaged, damaged'
  PROVE  /\ \A cmd, n, args, a : ~Update(cmd, n, args, a)
         /\ \A cmd, n, args, items : ~Show(cmd, n, args, items)
         /\ \A cmd, n, st : ~Refuse(cmd, n, st) /\ ~NotExist(cmd, n)
         /\ \A cmd, n, args, used, Slots : Overrun(cmd, n, args, used, Slots) =>
              rsp'.cmd = cmd /\ rsp'.name = n /\ rsp'.args = args
<1>1. ~UNCHANGED damaged
  BY Zenon
<1>2. /\ \A cmd, n, args, a : ~Update(cmd, n, args, a)
      /\ \A cmd, n, args, items : ~Show(cmd, n, args, items)
      /\ \A cmd, n, st : ~Refuse(cmd, n, st) /\ ~NotExist(cmd, n)
  BY <1>1 DEF Update, Show, Refuse, NotExist
<1>3. \A cmd, n, args, used, Slots : Overrun(cmd, n, args, used, Slots) =>
        rsp'.cmd = cmd /\ rsp'.name = n /\ rsp'.args = args
  BY DEF Overrun, Die, Reply
<1>. QED  BY <1>2, <1>3

\* A CLEAR leaves the storage only with a range behind the items, one that
\* ends before it starts, or more items counted than there are slots.
LEMMA ClearDamage ==
  ASSUME ArraysTyped, NEW n \in Name, NEW start \in Nat, NEW stop \in Nat \cup {NoStop},
         Clear(n, start, stop), ~damaged, damaged'
  PROVE  Known(n)
<1>1. PICK size \in 0..MaxCapacity, used \in 0..UsedBound :
        \E slots \in [0..size - 1 -> Cell] :
          arrays[n] = [size |-> size, used |-> used, slots |-> slots]
  BY PartsOf
<1>2. PICK slots \in [0..size - 1 -> Cell] :
        arrays[n] = [size |-> size, used |-> used, slots |-> slots]
  BY <1>1
<1>3. ~NotExist("CLEAR", n) /\ ~Refuse("CLEAR", n, "Bounds")
  BY Damaging
<1>4. PICK pivot \in Nat, left \in Nat :
        /\ pivot = Least(used, StopOf(arrays[n], stop))
        /\ pivot <= used /\ left = used - (pivot - start)
        /\ start < size
        /\ ClearEnds(n, start, stop, size, used, slots, pivot, left)
  <2>1. size \in Nat /\ used \in Nat
    OBVIOUS
  <2>. QED  BY <1>2, <1>3, <2>1, ClearShape
<1>5. /\ start > pivot \/ pivot > size
      /\ Overrun("CLEAR", n, <<start, stop>>, left, [0..size - 1 -> Junk])
  BY <1>4, Damaging DEF ClearEnds
<1>6. rsp'.cmd = "CLEAR" /\ rsp'.name = n /\ rsp'.args = <<start, stop>>
  BY <1>5, Damaging
<1>7. start > used \/ (stop # NoStop /\ start > stop) \/ used > size
  BY <1>2, <1>4, <1>5 DEF Least, StopOf, NoStop
<1>. QED  BY <1>2, <1>6, <1>7 DEF Known

\* A SET_RNG leaves it only without a position, given more than is free.
LEMMA StoreDamage ==
  ASSUME NEW n, NEW pos, NEW sent, Store(n, pos, sent), ~damaged, damaged'
  PROVE  /\ pos + Len(sent) > arrays[n].size
         /\ rsp'.cmd = "SET_RNG" /\ rsp'.name = n /\ rsp'.args = sent
  BY Damaging DEF Store

\* The tests of the bounds let no command write outside of a vector but for a
\* SET_RNG at the end that is too long and the CLEARs of an odd range.
THEOREM DamageIsKnown == Spec => OnlyKnownDamage
<1>1. ASSUME ArraysTyped, Next, ~damaged, damaged'
      PROVE  \E n \in Name : Known(n)
  <2>1. ~Start /\ ~DeleteAll
    BY <1>1 DEF Start, DeleteAll
  <2>2. \A n, x : ~SetNext(n, x)
    BY <1>1, Damaging DEF SetNext
  <2>3. \A n, x, pos : ~SetAt(n, pos, x)
    BY <1>1, Damaging DEF SetAt, isInBounds
  <2>4. ASSUME NEW n \in Name, NEW sent \in Sent, AppendRange(n, sent)
        PROVE  Known(n)
    <3>1. ~isFull(arrays[n]) /\ Store(n, arrays[n].used, sent)
      BY <1>1, <2>4, Damaging DEF AppendRange, Unconverted
    <3>2. arrays[n].used \in Int /\ arrays[n].size \in Int
      BY <1>1, ArrayFields DEF ArraysTyped
    <3>3. /\ arrays[n].used + Len(sent) > arrays[n].size
          /\ rsp'.cmd = "SET_RNG" /\ rsp'.name = n /\ rsp'.args = sent
      BY <1>1, <3>1, StoreDamage
    <3>. QED  BY <3>1, <3>2, <3>3 DEF Known, isFull
  <2>5. ASSUME NEW n \in Name, NEW sent \in Sent, NEW pos \in Positions[n],
               SetRangeAt(n, pos, sent)
        PROVE  FALSE
    <3>1. isSetInBounds(arrays[n], pos, Len(sent)) /\ Store(n, pos, sent)
      BY <1>1, <2>5, Damaging DEF SetRangeAt, Unconverted
    <3>2. pos + Len(sent) > arrays[n].size
      BY <1>1, <3>1, StoreDamage
    <3>3. pos \in Int /\ Len(sent) \in Int /\ arrays[n].size \in Int
      BY <1>1, ArrayFields, SentIsSeq, PositionsAssumption DEF ArraysTyped
    <3>. QED  BY <3>1, <3>2, <3>3 DEF isSetInBounds
  <2>6. \A n, posA, posB : ~Swap(n, posA, posB)
    BY <1>1, Damaging DEF Swap
  <2>7. \A n, len : ~Create(n, len) /\ ~Delete(n)
    BY <1>1, Damaging DEF Create, Delete
  <2>8. \A n, pos : ~Get(n, pos)
    BY <1>1, Damaging DEF Get
  <2>9. \A n, start, stop : ~GetRange(n, start, stop)
    BY <1>1, Damaging DEF GetRange
  <2>10. ASSUME NEW n \in Name, NEW start \in Positions[n],
                NEW stop \in Positions[n] \cup {NoStop}, Clear(n, start, stop)
         PROVE  Known(n)
    <3>1. start \in Nat /\ stop \in Nat \cup {NoStop}
      BY <2>10, PositionsAssumption
    <3>. QED  BY <1>1, <2>10, <3>1, ClearDamage
  <2>11. CASE Command
    BY <2>1, <2>7, <2>8, <2>9, <2>10, <2>11 DEF Command
  <2>. QED  BY <1>1, <2>1, <2>2, <2>3, <2>4, <2>5, <2>6, <2>11 DEF Next
<1>2. ArraysTyped /\ [Next]_arrVars =>
      [damaged' /\ ~damaged => \E n \in Name : Known(n)]_arrVars
  BY <1>1
<1>3. [damaged' /\ ~damaged => \E n \in Name : Known(n)]_arrVars =>
      [damaged' /\ ~damaged =>
         \E n \in Name :
           \/ /\ rsp'.cmd = "SET_RNG" /\ rsp'.name = n
              /\ arrays[n].used < arrays[n].size
              /\ arrays[n].used + Len(rsp'.args) > arrays[n].size
           \/ /\ rsp'.cmd = "CLEAR" /\ rsp'.name = n
              /\ \/ rsp'.args[1] > arrays[n].used
                 \/ rsp'.args[2] # NoStop /\ rsp'.args[1] > rsp'.args[2]
                 \/ arrays[n].used > arrays[n].size]_arrVars
  BY DEF Known
<1>. QED  BY <1>2, <1>3, Invariance, PTL DEF Spec, OnlyKnownDamage
=============================================================================
