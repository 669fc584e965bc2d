------------------------ MODULE SortedArrays_proofs ------------------------
(***************************************************************************)
(* Theorems about SortedArrays, for every set of items, every capacity and *)
(* every limit of the configuration.                                       *)
(***************************************************************************)
EXTENDS SortedArrays, Arrays_proofs, FiniteSetTheorems, WellFoundedInduction

\* What the constants are assumed to be.
USE ItemAssumption, NameAssumption, MaxCapacityAssumption,
    MaxRspSizeAssumption, MaxItemsAssumption, UsedBoundAssumption

-----------------------------------------------------------------------------
(* The operators on arrays and batches.                                    *)

\* The items of a new array are in order: it has none.
LEMMA NewArrayInOrder ==
  ASSUME NEW len \in 0..MaxCapacity
  PROVE  NewArray(len) \in Array /\ InOrder(NewArray(len))
<1>1. InOrder(NewArray(len))
  BY DEF NewArray, InOrder
<1>. QED  BY <1>1, NewArrayMade

\* In s, the run of r items stands between the slots before and after `lower'.
Inserted(s, slots, used, lower, run, r) ==
  /\ \A i \in 0..lower - 1 : s[i] = slots[i]
  /\ \A i \in lower..lower + r - 1 : s[i] = run[i - lower + 1]
  /\ \A i \in lower + r..used + r - 1 : s[i] = slots[i - r]

\* Writing a run behind the items of an array appends it.
LEMMA RunAppended ==
  ASSUME NEW size \in Nat, NEW used \in Nat, NEW slots \in [0..size - 1 -> Cell],
         NEW run \in Seq(Item), NEW r \in Nat, r = Len(run), used + r <= size,
         NEW c, c = CopyTo(slots, used, run)
  PROVE  c \in [0..size - 1 -> Cell] /\ Inserted(c, slots, used, used, run, r)
<1>1. \A i \in 1..r : run[i] \in Item
  BY ElementOfSeq
<1>2. c = [i \in 0..size - 1 |-> IF used <= i /\ i < used + r
                                 THEN run[i - used + 1] ELSE slots[i]]
  BY DEF CopyTo
<1>3. \A i \in 0..size - 1 : used <= i /\ i < used + r => i - used + 1 \in 1..r
  OBVIOUS
<1>. QED  BY <1>1, <1>2, <1>3 DEF Cell, Inserted

\* Rotating it to `lower' inserts it there (Array::setRange).
LEMMA RunInserted ==
  ASSUME NEW size \in Nat, NEW used \in Nat, NEW lower \in 0..used,
         NEW slots \in [0..size - 1 -> Cell],
         NEW run \in Seq(Item), NEW r \in Nat, r = Len(run), used + r <= size,
         NEW s, s = Rotate(CopyTo(slots, used, run), lower, used, used + r)
  PROVE  s \in [0..size - 1 -> Cell] /\ Inserted(s, slots, used, lower, run, r)
<1>1. PICK c : c = CopyTo(slots, used, run)
  OBVIOUS
<1>2. /\ c \in [0..size - 1 -> Cell]
      /\ \A i \in 0..used - 1 : c[i] = slots[i]
      /\ \A i \in used..used + r - 1 : c[i] = run[i - used + 1]
  <2>1. c \in [0..size - 1 -> Cell] /\ Inserted(c, slots, used, used, run, r)
    BY <1>1, RunAppended
  <2>. QED  BY <2>1 DEF Inserted
<1>3. s = [i \in 0..size - 1 |->
             IF i < lower \/ used + r <= i THEN c[i]
             ELSE IF i + used - lower < used + r THEN c[i + used - lower]
             ELSE c[i + used - (used + r)]]
  BY <1>1, <1>2 DEF Rotate
<1>4. s \in [0..size - 1 -> Cell]
  <2>1. ASSUME NEW i \in 0..size - 1 PROVE s[i] \in Cell
    <3>1. CASE i < lower \/ used + r <= i
      BY <1>2, <1>3, <3>1
    <3>2. CASE ~(i < lower \/ used + r <= i) /\ i + used - lower < used + r
      <4>1. i + used - lower \in 0..size - 1
        BY <1>1, <3>2
      <4>. QED  BY <1>2, <1>3, <3>2, <4>1
    <3>3. CASE ~(i < lower \/ used + r <= i) /\ ~(i + used - lower < used + r)
      <4>1. i + used - (used + r) \in 0..size - 1
        BY <1>1, <3>3
      <4>. QED  BY <1>2, <1>3, <3>3, <4>1
    <3>. QED  BY <3>1, <3>2, <3>3
  <2>. QED  BY <1>3, <2>1
<1>5. \A i \in 0..lower - 1 : s[i] = slots[i]
  BY <1>1, <1>2, <1>3
<1>6. ASSUME NEW i \in lower..lower + r - 1 PROVE s[i] = run[i - lower + 1]
  <2>1. i \in 0..size - 1 /\ i + used - lower \in used..used + r - 1
    BY <1>1
  <2>2. s[i] = c[i + used - lower]
    <3>1. ~(i < lower \/ used + r <= i) /\ i + used - lower < used + r
      OBVIOUS
    <3>. QED  BY <1>3, <2>1, <3>1
  <2>3. c[i + used - lower] = run[i + used - lower - used + 1]
    BY <1>2, <2>1
  <2>4. i + used - lower - used + 1 = i - lower + 1
    OBVIOUS
  <2>. QED  BY <2>2, <2>3, <2>4
<1>7. ASSUME NEW i \in lower + r..used + r - 1 PROVE s[i] = slots[i - r]
  <2>1. i \in 0..size - 1 /\ i - r \in 0..used - 1
    BY <1>1
  <2>2. s[i] = c[i - r]
    <3>1. i + used - (used + r) = i - r /\ ~(i < lower \/ used + r <= i)
          /\ ~(i + used - lower < used + r)
      OBVIOUS
    <3>. QED  BY <1>3, <2>1, <3>1
  <2>. QED  BY <1>1, <1>2, <2>1, <2>2
<1>. QED  BY <1>4, <1>5, <1>6, <1>7 DEF Inserted

\* The first n slots are in ascending order.
Rising(slots, n) == \A i, j \in 0..n - 1 : i <= j => slots[i] <= slots[j]

\* Inserting a rising run of r items where all before it is not higher and all
\* behind it not lower than its items leaves the slots rising.
LEMMA RunKeepsOrder ==
  ASSUME NEW used \in Nat, NEW lower \in 0..used, NEW r \in Nat,
         NEW slots, NEW s, NEW run,
         Inserted(s, slots, used, lower, run, r),
         Rising(slots, used),
         \A k, l \in 1..r : k <= l => run[k] <= run[l],
         \A i \in 0..lower - 1 : \A k \in 1..r : slots[i] <= run[k],
         \A i \in lower..used - 1 : \A k \in 1..r : run[k] <= slots[i]
  PROVE  Rising(s, used + r)
<1>1. ASSUME NEW i \in 0..used + r - 1, NEW j \in 0..used + r - 1, i <= j
      PROVE  s[i] <= s[j]
  <2>1. CASE j < lower
    <3>1. i \in 0..lower - 1 /\ j \in 0..lower - 1 /\ i \in 0..used - 1 /\ j \in 0..used - 1
      BY <1>1, <2>1
    <3>2. slots[i] <= slots[j]
      BY <1>1, <3>1 DEF Rising
    <3>3. s[i] = slots[i] /\ s[j] = slots[j]
      BY <3>1 DEF Inserted
    <3>. QED  BY <3>2, <3>3
  <2>2. CASE i < lower /\ lower <= j /\ j < lower + r
    <3>1. i \in 0..lower - 1 /\ j \in lower..lower + r - 1 /\ j - lower + 1 \in 1..r
      BY <1>1, <2>2
    <3>2. s[i] = slots[i] /\ s[j] = run[j - lower + 1]
      BY <3>1 DEF Inserted
    <3>. QED  BY <3>1, <3>2
  <2>3. CASE i < lower /\ lower + r <= j
    <3>1. /\ i \in 0..lower - 1 /\ j \in lower + r..used + r - 1
          /\ i \in 0..used - 1 /\ j - r \in 0..used - 1 /\ i <= j - r
      BY <1>1, <2>3
    <3>2. s[i] = slots[i] /\ s[j] = slots[j - r]
      BY <3>1 DEF Inserted
    <3>3. slots[i] <= slots[j - r]
      BY <3>1 DEF Rising
    <3>. QED  BY <3>2, <3>3
  <2>4. CASE lower <= i /\ j < lower + r
    <3>1. /\ i \in lower..lower + r - 1 /\ j \in lower..lower + r - 1
          /\ i - lower + 1 \in 1..r /\ j - lower + 1 \in 1..r
          /\ i - lower + 1 <= j - lower + 1
      BY <1>1, <2>4
    <3>2. s[i] = run[i - lower + 1] /\ s[j] = run[j - lower + 1]
      BY <3>1 DEF Inserted
    <3>. QED  BY <3>1, <3>2
  <2>5. CASE lower <= i /\ i < lower + r /\ lower + r <= j
    <3>1. /\ i \in lower..lower + r - 1 /\ j \in lower + r..used + r - 1
          /\ i - lower + 1 \in 1..r /\ j - r \in lower..used - 1
      BY <1>1, <2>5
    <3>2. s[i] = run[i - lower + 1] /\ s[j] = slots[j - r]
      BY <3>1 DEF Inserted
    <3>. QED  BY <3>1, <3>2
  <2>6. CASE lower + r <= i
    <3>1. /\ i \in lower + r..used + r - 1 /\ j \in lower + r..used + r - 1
          /\ i - r \in 0..used - 1 /\ j - r \in 0..used - 1 /\ i - r <= j - r
      BY <1>1, <2>6
    <3>2. s[i] = slots[i - r] /\ s[j] = slots[j - r]
      BY <3>1 DEF Inserted
    <3>3. slots[i - r] <= slots[j - r]
      BY <3>1 DEF Rising
    <3>. QED  BY <3>2, <3>3
  <2>. QED  BY <1>1, <2>1, <2>2, <2>3, <2>4, <2>5, <2>6
<1>. QED  BY <1>1 DEF Rising

\* Rotating a range of the used slots behind them takes it out of the array
\* and keeps the order of the others (Array::clear).
LEMMA RangeTakenOut ==
  ASSUME NEW size \in Nat, NEW used \in Nat, NEW start \in Nat, NEW pivot \in Nat,
         NEW slots \in [0..size - 1 -> Cell],
         start <= pivot, pivot <= used, pivot <= size,
         NEW s, s = Rotate(slots, start, pivot, size)
  PROVE  /\ s \in [0..size - 1 -> Cell]
         /\ used <= size /\ Rising(slots, used) =>
              Rising(s, used - (pivot - start))
<1>1. /\ s \in [0..size - 1 -> Cell]
      /\ \A i \in 0..size - 1 :
           /\ i < start => s[i] = slots[i]
           /\ start <= i /\ i < size - (pivot - start) => s[i] = slots[i + pivot - start]
  BY RangeMoved
<1>4. ASSUME used <= size, Rising(slots, used),
             NEW i \in 0..used - (pivot - start) - 1,
             NEW j \in 0..used - (pivot - start) - 1, i <= j
      PROVE  s[i] <= s[j]
  <2>1. CASE j < start
    BY <1>1, <1>4, <2>1 DEF Rising
  <2>2. CASE i < start /\ start <= j
    <3>1. j + pivot - start \in 0..used - 1 /\ i <= j + pivot - start
      BY <1>4, <2>2
    <3>2. s[i] = slots[i] /\ s[j] = slots[j + pivot - start]
      BY <1>1, <1>4, <2>2, <3>1
    <3>. QED  BY <1>4, <2>2, <3>1, <3>2 DEF Rising
  <2>3. CASE start <= i
    <3>1. /\ i + pivot - start \in 0..used - 1 /\ j + pivot - start \in 0..used - 1
          /\ i + pivot - start <= j + pivot - start
      BY <1>4, <2>3
    <3>2. s[i] = slots[i + pivot - start] /\ s[j] = slots[j + pivot - start]
      BY <1>1, <1>4, <2>3, <3>1
    <3>. QED  BY <1>4, <3>1, <3>2 DEF Rising
  <2>. QED  BY <1>4, <2>1, <2>2, <2>3
<1>. QED  BY <1>1, <1>4 DEF Rising

-----------------------------------------------------------------------------
(* The inductive invariant.                                                *)

\* The loop of a SET_RNG runs on an array that exists, in a running process.
MergeRuns == merge # NoMerge => process = "running" /\ Exists(merge.name)

IInv == TypeOK /\ HeldInOrder /\ MergeFits /\ MergeRuns

\* The server starts without arrays.
LEMMA InitInv == Init => IInv
<1>1. NoArray \in Array /\ InOrder(NoArray)
  BY NewArrayInOrder DEF NoArray
<1>. QED
  BY <1>1 DEF Init, ArrInit, IInv, TypeOK, HeldInOrder, MergeFits, MergeRuns

\* A command that only answers keeps the invariant.
LEMMA QuietStep ==
  ASSUME IInv, UNCHANGED <<process, arrays, damaged, merge>>
  PROVE  IInv'
  BY DEF IInv, TypeOK, HeldInOrder, MergeFits, MergeRuns, Merged, Remaining,
         Exists

\* So does one that gives an array another value, if that is in order.
LEMMA UpdateStep ==
  ASSUME IInv, merge' = NoMerge,
         NEW cmd, NEW n \in Name, NEW args, NEW a \in Array,
         ~damaged => InOrder(a), Update(cmd, n, args, a)
  PROVE  IInv'
<1>1. arrays' \in [Name -> Array]
  BY DEF IInv, TypeOK, Update
<1>2. TypeOK'
  BY <1>1 DEF IInv, TypeOK, Update
<1>3. HeldInOrder'
  BY DEF IInv, TypeOK, HeldInOrder, Update
<1>. QED  BY <1>2, <1>3 DEF IInv, MergeFits, MergeRuns

\* A process that dies leaves no arrays.
LEMMA DieStep ==
  ASSUME IInv, merge' = NoMerge, NEW cmd, NEW n, NEW args, Die(cmd, n, args)
  PROVE  IInv'
<1>1. NoArray \in Array /\ InOrder(NoArray)
  BY NewArrayInOrder DEF NoArray
<1>. QED
  BY <1>1 DEF IInv, TypeOK, HeldInOrder, MergeFits, MergeRuns, Die

\* A command that leaves the storage sets `damaged', and promises no order.
LEMMA OverrunStep ==
  ASSUME IInv, merge = NoMerge, UNCHANGED merge, NEW cmd, NEW n \in Name,
         NEW args, NEW used \in Nat,
         NEW Slots \in SUBSET [0..arrays[n].size - 1 -> Cell],
         Overrun(cmd, n, args, used, Slots)
  PROVE  IInv'
<1>1. CASE Die(cmd, n, args)
  BY <1>1, DieStep
<1>2. CASE ~Die(cmd, n, args)
  <2>1. PICK s \in Slots :
          arrays' = [arrays EXCEPT ![n] = Holding(arrays[n], used, s)]
    BY <1>2 DEF Overrun
  <2>2. damaged' = TRUE /\ used \in 0..UsedBound /\ UNCHANGED process
    BY <1>2 DEF Overrun
  <2>3. arrays[n] \in Array
    BY DEF IInv, TypeOK
  <2>4. Holding(arrays[n], used, s) \in Array
    BY <2>1, <2>2, <2>3, ArrayFields, ArrayMade DEF Holding
  <2>5. arrays' \in [Name -> Array]
    BY <2>1, <2>4 DEF IInv, TypeOK
  <2>. QED
    BY <2>2, <2>5 DEF IInv, TypeOK, HeldInOrder, MergeFits, MergeRuns
<1>. QED  BY <1>1, <1>2

\* An array, taken apart.
LEMMA ArrayParts ==
  ASSUME IInv, NEW n \in Name
  PROVE  \E size \in 0..MaxCapacity, used \in 0..UsedBound :
           \E slots \in [0..size - 1 -> Cell] :
             /\ arrays[n] = [size |-> size, used |-> used, slots |-> slots]
             /\ ~damaged => used <= size /\ Rising(slots, used)
<1>1. PICK a \in Array : a = arrays[n] /\ (~damaged => InOrder(a))
  BY DEF IInv, TypeOK, HeldInOrder
<1>2. ~damaged => a.used <= a.size /\ Rising(a.slots, a.used)
  BY <1>1 DEF InOrder, Rising
<1>3. /\ a.size \in 0..MaxCapacity /\ a.used \in 0..UsedBound
      /\ a.slots \in [0..a.size - 1 -> Cell]
      /\ a = [size |-> a.size, used |-> a.used, slots |-> a.slots]
  BY ArrayFields
<1>. QED  BY <1>1, <1>2, <1>3

\* An array put together: what UpdateStep asks for.
LEMMA ArrayReady ==
  ASSUME NEW size \in 0..MaxCapacity, NEW used \in 0..UsedBound,
         NEW slots \in [0..size - 1 -> Cell]
  PROVE  LET a == [size |-> size, used |-> used, slots |-> slots]
         IN  a \in Array /\ (used <= size /\ Rising(slots, used) => InOrder(a))
  BY ArrayMade DEF InOrder, Rising

-----------------------------------------------------------------------------
(* The commands that change an array in one step.                          *)

\* Clearing a range keeps the items before it and after it in their order.
LEMMA ClearStep ==
  ASSUME IInv, merge = NoMerge, UNCHANGED merge, NEW n \in Name,
         NEW start \in Nat, NEW stop \in Nat \cup {NoStop},
         Clear(n, start, stop)
  PROVE  IInv'
<1>0. PICK size \in 0..MaxCapacity, used \in 0..UsedBound :
        \E slots \in [0..size - 1 -> Cell] :
          /\ arrays[n] = [size |-> size, used |-> used, slots |-> slots]
          /\ ~damaged => used <= size /\ Rising(slots, used)
  BY ArrayParts
<1>1. PICK slots \in [0..size - 1 -> Cell] :
        /\ arrays[n] = [size |-> size, used |-> used, slots |-> slots]
        /\ ~damaged => used <= size /\ Rising(slots, used)
  BY <1>0
<1>. DEFINE args == <<start, stop>>
<1>2. start \in Nat
  OBVIOUS
<1>3. PICK pivot \in Nat :
        pivot = Least(used, StopOf(arrays[n], stop)) /\ pivot <= used
  BY <1>1 DEF Least, StopOf, NoStop
<1>4. PICK left \in Nat : left = used - (pivot - start)
  BY <1>2, <1>3
<1>5. CASE NotExist("CLEAR", n) \/ Refuse("CLEAR", n, "Bounds")
  BY <1>5, QuietStep DEF NotExist, Refuse
<1>6. CASE Update("CLEAR", n, args, [size |-> size, used |-> 0, slots |-> slots])
  <2>1. 0 \in 0..UsedBound /\ 0 <= size /\ Rising(slots, 0)
    BY DEF Rising
  <2>. QED  BY <1>6, <2>1, ArrayReady, UpdateStep
<1>7. CASE /\ start <= pivot /\ pivot <= size
           /\ Update("CLEAR", n, args,
                     [size |-> size, used |-> left,
                      slots |-> Rotate(slots, start, pivot, size)])
  <2>1. left \in 0..UsedBound /\ left <= used
    BY <1>2, <1>3, <1>4, <1>7
  <2>2. PICK s : s = Rotate(slots, start, pivot, size)
    OBVIOUS
  <2>a. /\ s \in [0..size - 1 -> Cell]
        /\ used <= size /\ Rising(slots, used) => Rising(s, left)
    <3>1. size \in Nat /\ used \in Nat /\ start <= pivot /\ pivot <= size
      BY <1>7
    <3>. QED  BY <1>2, <1>3, <1>4, <2>2, <3>1, RangeTakenOut
  <2>3. ~damaged => left <= size /\ Rising(s, left)
    BY <1>1, <2>1, <2>a
  <2>4. PICK a \in Array : /\ a = [size |-> size, used |-> left, slots |-> s]
                           /\ ~damaged => InOrder(a)
    BY <2>1, <2>3, <2>a, ArrayReady
  <2>. QED  BY <1>7, <2>2, <2>4, UpdateStep
<1>8. CASE Overrun("CLEAR", n, args, left, [0..size - 1 -> Junk])
  BY <1>1, <1>8, JunkAssumption, OverrunStep
<1>. QED
  BY <1>1, <1>3, <1>4, <1>5, <1>6, <1>7, <1>8 DEF Clear, ClearArray, Holding

\* SET inserts its item at its lower bound.
LEMMA SetStep ==
  ASSUME IInv, merge = NoMerge, UNCHANGED merge, NEW n \in Name,
         NEW x \in Item, Set(n, x)
  PROVE  IInv'
<1>0. PICK size \in 0..MaxCapacity, used \in 0..UsedBound :
        \E slots \in [0..size - 1 -> Cell] :
          /\ arrays[n] = [size |-> size, used |-> used, slots |-> slots]
          /\ ~damaged => used <= size /\ Rising(slots, used)
  BY ArrayParts
<1>1. PICK slots \in [0..size - 1 -> Cell] :
        /\ arrays[n] = [size |-> size, used |-> used, slots |-> slots]
        /\ ~damaged => used <= size /\ Rising(slots, used)
  BY <1>0
<1>2. CASE NotExist("SET", n) \/ Refuse("SET", n, "Bounds")
  BY <1>2, QuietStep DEF NotExist, Refuse
<1>3. CASE ~(NotExist("SET", n) \/ Refuse("SET", n, "Bounds"))
  <2>0. arrays[n].size = size /\ arrays[n].used = used /\ arrays[n].slots = slots
    BY <1>1
  <2>1. PICK p \in 0..used :
          /\ IsLowerBound(slots, 0, used, x, p)
          /\ Update("SET", n, <<x>>,
               [size |-> size, used |-> used + 1,
                slots |-> Rotate([slots EXCEPT ![used] = x], p, used, used + 1)])
    BY <1>3, <2>0 DEF Set, Holding
  <2>2. used < size
    BY <1>3, <2>0 DEF Set, isFull
  <2>3. PICK run \in Seq(Item) : run = <<x>> /\ Len(run) = 1 /\ run[1] = x
    <3>1. <<x>> \in Seq(Item) /\ Len(<<x>>) = 1 /\ <<x>>[1] = x
      OBVIOUS
    <3>. QED  BY <3>1
  <2>4. [slots EXCEPT ![used] = x] = CopyTo(slots, used, run)
    <3>1. CopyTo(slots, used, run) =
            [i \in 0..size - 1 |-> IF used <= i /\ i < used + 1
                                   THEN run[i - used + 1] ELSE slots[i]]
      BY <2>3 DEF CopyTo
    <3>2. \A i \in 0..size - 1 :
            used <= i /\ i < used + 1 => i = used /\ run[i - used + 1] = x
      BY <2>3
    <3>3. \A i \in 0..size - 1 :
            (IF used <= i /\ i < used + 1 THEN run[i - used + 1] ELSE slots[i])
              = IF i = used THEN x ELSE slots[i]
      BY <3>2
    <3>. QED  BY <3>1, <3>3
  <2>5. PICK s : s = Rotate([slots EXCEPT ![used] = x], p, used, used + 1)
    OBVIOUS
  <2>a. s \in [0..size - 1 -> Cell] /\ Inserted(s, slots, used, p, run, 1)
    <3>1. /\ size \in Nat /\ used \in Nat /\ 1 \in Nat /\ 1 = Len(run)
          /\ used + 1 <= size
      BY <2>2, <2>3
    <3>2. s = Rotate(CopyTo(slots, used, run), p, used, used + 1)
      BY ONLY <2>4, <2>5
    <3>3. slots \in [0..size - 1 -> Cell] /\ run \in Seq(Item) /\ p \in 0..used
      BY <2>1, <2>3
    <3>. QED  BY ONLY <3>1, <3>2, <3>3, RunInserted
  <2>6. ASSUME ~damaged PROVE Rising(s, used + 1)
    <3>1. Rising(slots, used) /\ used <= size
      BY <1>1, <2>6
    <3>2. ASSUME NEW i \in 0..used - 1 PROVE slots[i] \in Int
      <4>1. i \in 0..size - 1
        BY <2>2
      <4>2. slots[i] \in Cell
        BY <4>1
      <4>. QED  BY <4>2, CellsAreIntegers
    <3>3. \A i \in 0..p - 1 : slots[i] <= x
      BY <2>1, <3>2 DEF IsLowerBound
    <3>4. \A i \in p..used - 1 : x <= slots[i]
      BY <2>1, <3>1, <3>2 DEF IsLowerBound, Rising
    <3>5. \A k, l \in 1..1 : k <= l => run[k] <= run[l]
      BY <2>3
    <3>6. \A i \in 0..p - 1 : \A k \in 1..1 : slots[i] <= run[k]
      BY <2>3, <3>3
    <3>7. \A i \in p..used - 1 : \A k \in 1..1 : run[k] <= slots[i]
      BY <2>3, <3>4
    <3>8. used \in Nat /\ 1 \in Nat
      OBVIOUS
    <3>. QED  BY <2>a, <3>1, <3>5, <3>6, <3>7, <3>8, RunKeepsOrder
  <2>7. used + 1 \in 0..UsedBound /\ used + 1 <= size
    BY <2>2
  <2>8. PICK a \in Array : /\ a = [size |-> size, used |-> used + 1, slots |-> s]
                           /\ ~damaged => InOrder(a)
    BY <2>6, <2>7, <2>a, ArrayReady
  <2>. QED  BY <2>1, <2>5, <2>8, UpdateStep
<1>. QED  BY <1>2, <1>3

-----------------------------------------------------------------------------
(* SET_RNG: the request and the turns of its loop.                         *)

\* run is r consecutive items from k on, in ascending order.
RisingRun(run, items, k, r) ==
  /\ run \in Seq(Item) /\ r = Len(run)
  /\ \A i \in 1..r : run[i] = items[k + i - 1] /\ run[i] \in Int
  /\ \A i, j \in 1..r : i <= j => run[i] <= run[j]

\* So is what is cut from a sorted batch.
LEMMA RunOf ==
  ASSUME NEW items \in SortedBatch, NEW k \in 1..Len(items) + 1, NEW r \in Nat,
         k + r - 1 <= Len(items), NEW run, run = SubSeq(items, k, k + r - 1)
  PROVE  RisingRun(run, items, k, r)
<1>1. /\ items \in Seq(Item) /\ Len(items) \in Nat
      /\ \A i \in 1..Len(items) : items[i] \in Item
  BY BatchIsSeq DEF SortedBatch
<1>2. \A i, j \in 1..Len(items) : i <= j => items[i] <= items[j]
  BY DEF SortedBatch, Ascending
<1>3. k \in 1..Len(items) + 1 /\ k + r - 1 \in k - 1..Len(items)
  BY <1>1
<1>4. /\ run \in Seq(Item) /\ Len(run) = r
      /\ \A i \in 1..r : run[i] = items[k + i - 1]
  <2>1. /\ run \in Seq(Item)
        /\ Len(run) = IF k <= k + r - 1 THEN k + r - 1 - k + 1 ELSE 0
        /\ \A i \in 1..k + r - 1 - k + 1 : run[i] = items[k + i - 1]
    <3>1. k \in Int /\ k + r - 1 \in Int
      BY <1>1
    <3>2. \A i \in k..k + r - 1 : items[i] \in Item
      BY <1>1, <1>3
    <3>3. PICK last \in Int : last = k + r - 1
      BY <3>1
    <3>4. /\ SubSeq(items, k, last) \in Seq(Item)
          /\ Len(SubSeq(items, k, last)) = IF k <= last THEN last - k + 1 ELSE 0
          /\ \A i \in 1..last - k + 1 : SubSeq(items, k, last)[i] = items[k + i - 1]
      BY ONLY <3>1, <3>2, <3>3, SubSeqProperties
    <3>5. run = SubSeq(items, k, last)
      BY <3>3
    <3>. QED  BY ONLY <3>3, <3>4, <3>5
  <2>2. k + r - 1 - k + 1 = r /\ (IF k <= k + r - 1 THEN r ELSE 0) = r
    BY <1>1
  <2>. QED  BY <2>1, <2>2
<1>5. \A i \in 1..r : k + i - 1 \in 1..Len(items)
  BY <1>1, <1>3
<1>6. ASSUME NEW i \in 1..r PROVE run[i] \in Int
  <2>1. run[i] \in Item
    BY <1>1, <1>4, <1>5
  <2>. QED  BY <2>1
<1>7. ASSUME NEW i \in 1..r, NEW j \in 1..r, i <= j PROVE run[i] <= run[j]
  <2>1. k + i - 1 <= k + j - 1
    BY <1>1, <1>7
  <2>2. items[k + i - 1] <= items[k + j - 1]
    BY <1>2, <1>5, <2>1
  <2>. QED  BY <1>4, <2>2
<1>. QED  BY <1>4, <1>6, <1>7 DEF RisingRun

\* Sorting gives a sorted batch.
LEMMA SortsAreBatches ==
  ASSUME NEW sent \in Sent, Converts(sent)
  PROVE  SortsOf[sent] \subseteq SortedBatch
  BY DEF SortsOf

\* A SET_RNG that is accepted has room for its items and knows the place of
\* the first.
LEMMA BeginMergeStep ==
  ASSUME IInv, merge = NoMerge, NEW n \in Name, Exists(n), NEW items \in SortedBatch,
         BeginMerge(n, items)
  PROVE  IInv'
<1>1. items \in Seq(Item) /\ Len(items) \in Nat
  BY BatchIsSeq DEF SortedBatch
<1>2. CASE Refuse("SET_RNG", n, "Bounds") /\ UNCHANGED merge
  BY <1>2, QuietStep DEF Refuse
<1>3. CASE Die("SET_RNG", n, items) /\ UNCHANGED merge
  BY <1>3, DieStep
<1>4. CASE /\ process = "running"
           /\ hasCapacity(arrays[n], Len(items))
           /\ \E p \in 0..arrays[n].used :
                /\ items # <<>> =>
                     IsLowerBound(arrays[n].slots, 0, arrays[n].used, items[1], p)
                /\ merge' = [name |-> n, items |-> items, next |-> 1, lower |-> p]
           /\ UNCHANGED <<process, arrays, damaged>>
  <2>1. PICK p \in 0..arrays[n].used :
          /\ items # <<>> =>
               IsLowerBound(arrays[n].slots, 0, arrays[n].used, items[1], p)
          /\ merge' = [name |-> n, items |-> items, next |-> 1, lower |-> p]
    BY <1>4
  <2>2. arrays[n].used \in Nat /\ p \in Nat
    BY <2>1, ArrayFields DEF IInv, TypeOK
  <2>3. TypeOK'
    BY <1>1, <1>4, <2>1, <2>2 DEF IInv, TypeOK
  <2>4. /\ merge'.name = n /\ merge'.items = items /\ merge'.next = 1
        /\ merge'.lower = p
    BY <2>1
  <2>5. Remaining' = Len(items) /\ Merged' = arrays[n]
    BY <1>1, <1>4, <2>4 DEF Remaining, Merged
  <2>6. Len(items) > 0 => items # <<>>
    BY <1>1
  <2>7. MergeFits'
    BY <1>4, <2>1, <2>4, <2>5, <2>6 DEF MergeFits, hasCapacity
  <2>8. HeldInOrder' /\ MergeRuns'
    BY <1>4, <2>4 DEF IInv, HeldInOrder, MergeRuns, Exists
  <2>. QED  BY <2>3, <2>7, <2>8 DEF IInv
<1>. QED  BY <1>2, <1>3, <1>4 DEF BeginMerge

\* The loop's array, items and positions, taken apart.
LEMMA MergeParts ==
  ASSUME IInv, merge # NoMerge
  PROVE  /\ merge.name \in Name /\ merge.items \in SortedBatch
         /\ Len(merge.items) \in Nat
         /\ merge.next \in 1..Len(merge.items) + 1
         /\ merge.lower \in Nat
         /\ Remaining \in Nat /\ Remaining = Len(merge.items) - merge.next + 1
         /\ merge = [name |-> merge.name, items |-> merge.items,
                     next |-> merge.next, lower |-> merge.lower]
         /\ process = "running"
<1>1. /\ merge.name \in Name /\ merge.items \in SortedBatch
      /\ merge.next \in 1..Len(merge.items) + 1
      /\ merge.lower \in Nat
      /\ merge = [name |-> merge.name, items |-> merge.items,
                  next |-> merge.next, lower |-> merge.lower]
  BY DEF IInv, TypeOK
<1>2. Len(merge.items) \in Nat
  BY <1>1, BatchIsSeq DEF SortedBatch
<1>. QED  BY <1>1, <1>2 DEF IInv, MergeRuns, Remaining

\* A turn of the loop stores its run in order, leaves room for the others and
\* finds the place of the next item.
LEMMA MergeRunStep ==
  ASSUME IInv, MergeRun
  PROVE  IInv'
<1>1. merge # NoMerge /\ merge.lower < Merged.used /\ Remaining > 0
  BY DEF MergeRun, Merging
<1>2. PICK n \in Name, items \in SortedBatch, k \in Nat, lower \in Nat :
        merge = [name |-> n, items |-> items, next |-> k, lower |-> lower]
  BY <1>1, MergeParts
<1>a. /\ merge.name = n /\ merge.items = items /\ merge.next = k
      /\ merge.lower = lower
  BY <1>2
<1>b. /\ Len(items) \in Nat /\ k \in 1..Len(items) + 1
      /\ Remaining \in Nat /\ Remaining = Len(items) - k + 1
      /\ process = "running"
  BY <1>1, <1>a, MergeParts
<1>3. PICK size \in 0..MaxCapacity, used \in 0..UsedBound :
        \E slots \in [0..size - 1 -> Cell] :
          /\ arrays[n] = [size |-> size, used |-> used, slots |-> slots]
          /\ ~damaged => used <= size /\ Rising(slots, used)
  BY ArrayParts
<1>4. PICK slots \in [0..size - 1 -> Cell] :
        /\ arrays[n] = [size |-> size, used |-> used, slots |-> slots]
        /\ ~damaged => used <= size /\ Rising(slots, used)
  BY <1>3
<1>5. Merged.size = size /\ Merged.used = used /\ Merged.slots = slots
  BY <1>4, <1>a DEF Merged
<1>6. lower < used /\ size \in Nat /\ used \in Nat
  BY <1>1, <1>5, <1>a
<1>7. /\ used + Remaining <= size
      /\ IsLowerBound(slots, 0, used, items[k], lower)
  BY <1>1, <1>5, <1>a DEF IInv, MergeFits
<1>8. PICK r \in 0..Remaining :
        /\ IsRun(r)
        /\ LET run == SubSeq(items, k, k + r - 1)
               s == Rotate(CopyTo(slots, used, run), lower, used, used + r)
           IN  /\ arrays' = [arrays EXCEPT ![n] =
                               [size |-> size, used |-> used + r, slots |-> s]]
               /\ \E p \in lower + r..used + r :
                    /\ IF r < Remaining
                       THEN IsLowerBound(s, lower + r, used + r, items[k + r], p)
                       ELSE p = lower + r
                    /\ merge' = [name |-> n, items |-> items, next |-> k + r,
                                 lower |-> p]
  BY <1>5, <1>a DEF MergeRun, Holding
<1>9. PICK run : run = SubSeq(items, k, k + r - 1)
  OBVIOUS
<1>10. PICK s : s = Rotate(CopyTo(slots, used, run), lower, used, used + r)
  OBVIOUS
<1>11. PICK p \in lower + r..used + r :
         /\ arrays' = [arrays EXCEPT ![n] =
                         [size |-> size, used |-> used + r, slots |-> s]]
         /\ r < Remaining =>
              IsLowerBound(s, lower + r, used + r, items[k + r], p)
         /\ merge' = [name |-> n, items |-> items, next |-> k + r, lower |-> p]
  BY <1>8, <1>9, <1>10
<1>12. /\ r \in Nat /\ p \in Nat /\ k \in Nat /\ k + r - 1 <= Len(items)
       /\ k + r \in Nat \ {0} /\ k + r <= Len(items) + 1
       /\ used + r <= size /\ lower \in 0..used
  BY <1>2, <1>a, <1>b, <1>6, <1>7
<1>13. /\ run \in Seq(Item) /\ r = Len(run)
       /\ \A i \in 1..r : run[i] = items[k + i - 1] /\ run[i] \in Int
       /\ \A i, j \in 1..r : i <= j => run[i] <= run[j]
  <2>1. /\ items \in SortedBatch /\ k \in 1..Len(items) + 1 /\ r \in Nat
        /\ k + r - 1 <= Len(items)
    BY <1>2, <1>a, <1>b, <1>12
  <2>2. RisingRun(run, items, k, r)
    BY <1>9, <2>1, RunOf
  <2>. QED  BY <2>2 DEF RisingRun
<1>14. s \in [0..size - 1 -> Cell] /\ Inserted(s, slots, used, lower, run, r)
  <2>1. /\ size \in Nat /\ used \in Nat /\ lower \in 0..used
        /\ slots \in [0..size - 1 -> Cell] /\ run \in Seq(Item)
        /\ r \in Nat /\ r = Len(run) /\ used + r <= size
    BY <1>6, <1>12, <1>13
  <2>. QED  BY <1>10, <2>1, RunInserted
<1>15. ASSUME NEW i \in 0..used - 1 PROVE slots[i] \in Int
  <2>1. i \in 0..size - 1
    BY <1>12
  <2>2. slots[i] \in Cell
    BY <2>1
  <2>. QED  BY <2>2, CellsAreIntegers
<1>16. /\ \A i \in 1..Len(items) : items[i] \in Int
       /\ \A i, j \in 1..Len(items) : i <= j => items[i] <= items[j]
  BY <1>2, <1>a, <1>b, BatchIsSeq DEF SortedBatch, Ascending
\* What is before the run is lower than the run; the run is not above the slot
\* at itLowerBound.
<1>17. \A i \in 0..lower - 1 : \A j \in k..Len(items) : slots[i] < items[j]
  <2>1. \A i \in 0..lower - 1 : slots[i] < items[k]
    BY <1>7 DEF IsLowerBound
  <2>2. \A j \in k..Len(items) : items[k] <= items[j] /\ items[j] \in Int
                                 /\ items[k] \in Int
    BY <1>2, <1>a, <1>b, <1>16
  <2>. QED  BY <1>12, <1>15, <2>1, <2>2
<1>18. \A i \in 1..r : run[i] <= slots[lower]
  <2>1. \A i \in 0..r - 1 : items[k + i] <= slots[lower]
    BY <1>5, <1>8, <1>a DEF IsRun
  <2>2. \A i \in 1..r : i - 1 \in 0..r - 1 /\ k + (i - 1) = k + i - 1
    BY <1>12
  <2>. QED  BY <1>13, <2>1, <2>2
<1>19. r < Remaining => items[k + r] > slots[lower]
  BY <1>5, <1>8, <1>a DEF IsRun
<1>20. ASSUME ~damaged PROVE Rising(s, used + r)
  <2>1. Rising(slots, used)
    BY <1>4, <1>20
  <2>2. \A i \in 0..lower - 1 : \A j \in 1..r : slots[i] <= run[j]
    <3>1. \A j \in 1..r : k + j - 1 \in k..Len(items)
      BY <1>2, <1>a, <1>b, <1>12
    <3>2. ASSUME NEW i \in 0..lower - 1, NEW j \in 1..r
          PROVE  slots[i] <= run[j]
      <4>1. slots[i] < items[k + j - 1]
        BY <1>17, <3>1
      <4>2. slots[i] \in Int /\ run[j] \in Int /\ run[j] = items[k + j - 1]
        BY <1>12, <1>13, <1>15
      <4>. QED  BY <4>1, <4>2
    <3>. QED  BY <3>2
  <2>3. \A i \in lower..used - 1 : \A j \in 1..r : run[j] <= slots[i]
    <3>1. ASSUME NEW i \in lower..used - 1, NEW j \in 1..r
          PROVE  run[j] <= slots[i]
      <4>1. run[j] <= slots[lower]
        BY <1>18
      <4>2. slots[lower] <= slots[i]
        BY <1>6, <1>12, <2>1 DEF Rising
      <4>3. slots[lower] \in Int /\ slots[i] \in Int /\ run[j] \in Int
        BY <1>6, <1>12, <1>13, <1>15
      <4>. QED  BY <4>1, <4>2, <4>3
    <3>. QED  BY <3>1
  <2>. QED
    BY <1>6, <1>12, <1>13, <1>14, <2>1, <2>2, <2>3, RunKeepsOrder
<1>21. r < Remaining => IsLowerBound(s, 0, used + r, items[k + r], p)
  <2>1. SUFFICES ASSUME r < Remaining
                 PROVE  IsLowerBound(s, 0, used + r, items[k + r], p)
    OBVIOUS
  <2>2. IsLowerBound(s, lower + r, used + r, items[k + r], p)
    BY <1>11, <2>1
  <2>3. k + r \in k..Len(items) /\ items[k + r] \in Int
    BY <1>2, <1>a, <1>b, <1>12, <1>16, <2>1
  <2>4. ASSUME NEW i \in 0..p - 1 PROVE s[i] < items[k + r]
    <3>1. CASE i \in 0..lower - 1
      BY <1>12, <1>14, <1>17, <2>3, <3>1 DEF Inserted
    <3>2. CASE i \in lower..lower + r - 1
      <4>1. i - lower + 1 \in 1..r /\ s[i] = run[i - lower + 1]
        BY <1>12, <1>14, <3>2 DEF Inserted
      <4>2. run[i - lower + 1] <= slots[lower] /\ run[i - lower + 1] \in Int
        BY <1>13, <1>18, <4>1
      <4>3. slots[lower] \in Int /\ items[k + r] > slots[lower]
        BY <1>6, <1>12, <1>15, <1>19, <2>1
      <4>. QED  BY <2>3, <4>1, <4>2, <4>3
    <3>3. CASE i \in lower + r..p - 1
      BY <2>2, <3>3 DEF IsLowerBound
    <3>. QED  BY <1>12, <3>1, <3>2, <3>3
  <2>. QED  BY <1>12, <2>2, <2>4 DEF IsLowerBound
<1>22. used + r \in 0..UsedBound
  BY <1>12
<1>23. PICK a \in Array : /\ a = [size |-> size, used |-> used + r, slots |-> s]
                          /\ ~damaged => InOrder(a)
  BY <1>12, <1>14, <1>20, <1>22, ArrayReady
<1>24. arrays' \in [Name -> Array] /\ arrays'[n] = a
  BY <1>2, <1>a, <1>b, <1>11, <1>23 DEF IInv, TypeOK
<1>25. UNCHANGED <<process, damaged>>
  BY DEF MergeRun
<1>26. merge' \in [name : Name, items : SortedBatch, next : Nat \ {0}, lower : Nat]
  BY <1>2, <1>a, <1>b, <1>11, <1>12
<1>27. /\ merge'.name = n /\ merge'.items = items /\ merge'.next = k + r
       /\ merge'.lower = p
  BY <1>11
<1>28. TypeOK'
  BY <1>12, <1>24, <1>25, <1>26, <1>27 DEF IInv, TypeOK
<1>29. HeldInOrder'
  BY <1>2, <1>a, <1>b, <1>11, <1>23, <1>25 DEF IInv, TypeOK, HeldInOrder
<1>30. MergeFits'
  <2>1. Merged' = a /\ Remaining' = Len(items) - (k + r) + 1
    BY <1>24, <1>27 DEF Merged, Remaining
  <2>2. a.used = used + r /\ a.size = size /\ a.slots = s
    BY <1>23
  <2>3. Remaining' = Remaining - r
    BY <1>2, <1>a, <1>b, <1>12, <2>1
  <2>4. (Merged.used)' = used + r /\ (Merged.size)' = size
        /\ (Merged.slots)' = s
    BY <2>1, <2>2
  <2>5. used + r + Remaining' <= size
    BY <1>2, <1>a, <1>b, <1>7, <1>12, <2>3
  <2>6. Remaining' > 0 => r < Remaining
    BY <1>2, <1>a, <1>b, <1>12, <2>3
  <2>. QED  BY <1>21, <1>27, <2>4, <2>5, <2>6 DEF MergeFits
<1>31. MergeRuns'
  <2>1. size > 0
    BY <1>6, <1>12
  <2>2. a.size = size
    BY <1>23
  <2>. QED  BY <1>2, <1>a, <1>b, <1>24, <1>25, <1>27, <2>1, <2>2 DEF MergeRuns, Exists
<1>. QED  BY <1>28, <1>29, <1>30, <1>31 DEF IInv

\* The items the loop has left are copied behind the others: they are above
\* all of them.
LEMMA MergeRestStep ==
  ASSUME IInv, MergeRest
  PROVE  IInv'
<1>1. merge # NoMerge /\ (merge.lower < Merged.used => ~(Remaining > 0))
  BY DEF MergeRest, Merging
<1>2. PICK n \in Name, items \in SortedBatch, k \in Nat, lower \in Nat :
        merge = [name |-> n, items |-> items, next |-> k, lower |-> lower]
  BY <1>1, MergeParts
<1>3. /\ merge.name = n /\ merge.items = items /\ merge.next = k
      /\ merge.lower = lower
  BY <1>2
<1>4. /\ Len(items) \in Nat /\ k \in 1..Len(items) + 1
      /\ Remaining \in Nat /\ Remaining = Len(items) - k + 1
  BY <1>1, <1>3, MergeParts
<1>5. PICK size \in 0..MaxCapacity, used \in 0..UsedBound :
        \E slots \in [0..size - 1 -> Cell] :
          /\ arrays[n] = [size |-> size, used |-> used, slots |-> slots]
          /\ ~damaged => used <= size /\ Rising(slots, used)
  BY ArrayParts
<1>6. PICK slots \in [0..size - 1 -> Cell] :
        /\ arrays[n] = [size |-> size, used |-> used, slots |-> slots]
        /\ ~damaged => used <= size /\ Rising(slots, used)
  BY <1>5
<1>7. Merged.size = size /\ Merged.used = used /\ Merged.slots = slots
  BY <1>3, <1>6 DEF Merged
<1>8. PICK r \in Nat : r = Remaining
  BY <1>4
<1>9. /\ used + r <= size /\ size \in Nat /\ used \in Nat
      /\ used + r \in 0..UsedBound
      /\ r > 0 => lower = used /\ IsLowerBound(slots, 0, used, items[k], used)
  <2>1. /\ used + r <= size
        /\ r > 0 => IsLowerBound(slots, 0, used, items[k], lower)
    BY <1>1, <1>3, <1>7, <1>8 DEF IInv, MergeFits
  <2>2. r > 0 => lower = used
    BY <1>1, <1>3, <1>7, <1>8, <2>1 DEF IsLowerBound
  <2>. QED  BY <2>1, <2>2
<1>10. PICK run : run = SubSeq(items, k, k + r - 1)
  OBVIOUS
<1>11. k + r - 1 = Len(items)
  BY <1>4, <1>8
<1>12. /\ run \in Seq(Item) /\ r = Len(run)
       /\ \A i \in 1..r : run[i] = items[k + i - 1] /\ run[i] \in Int
       /\ \A i, j \in 1..r : i <= j => run[i] <= run[j]
  <2>1. /\ items \in SortedBatch /\ k \in 1..Len(items) + 1 /\ r \in Nat
        /\ k + r - 1 <= Len(items)
    BY <1>4, <1>11
  <2>2. RisingRun(run, items, k, r)
    BY <1>10, <2>1, RunOf
  <2>. QED  BY <2>2 DEF RisingRun
<1>13. PICK c : c = CopyTo(slots, used, run)
  OBVIOUS
<1>14. /\ merge' = NoMerge
       /\ Update("SET_RNG", n, items,
                 [size |-> size, used |-> used + r, slots |-> c])
  BY <1>3, <1>7, <1>10, <1>11, <1>12, <1>13 DEF MergeRest, Holding
<1>15. c \in [0..size - 1 -> Cell] /\ Inserted(c, slots, used, used, run, r)
  BY <1>9, <1>12, <1>13, RunAppended
<1>16. ASSUME ~damaged PROVE Rising(c, used + r)
  <2>1. Rising(slots, used)
    BY <1>6, <1>16
  <2>2. ASSUME NEW i \in 0..used - 1, NEW j \in 1..r PROVE slots[i] <= run[j]
    <3>1. slots[i] < items[k]
      BY <1>9 DEF IsLowerBound
    <3>2. 1 \in 1..r /\ k + 1 - 1 = k /\ run[1] = items[k] /\ run[1] <= run[j]
      BY <1>4, <1>12
    <3>3. slots[i] \in Int
      <4>1. i \in 0..size - 1
        BY <1>9
      <4>2. slots[i] \in Cell
        BY <4>1
      <4>. QED  BY <4>2, CellsAreIntegers
    <3>4. run[1] \in Int /\ run[j] \in Int
      BY <1>12, <3>2
    <3>. QED  BY <3>1, <3>2, <3>3, <3>4
  <2>3. \A i \in used..used - 1 : \A j \in 1..r : run[j] <= slots[i]
    BY <1>9
  <2>4. used \in Nat /\ used \in 0..used
    BY <1>9
  <2>. QED  BY <1>12, <1>15, <2>1, <2>2, <2>3, <2>4, RunKeepsOrder
<1>17. PICK a \in Array : /\ a = [size |-> size, used |-> used + r, slots |-> c]
                          /\ ~damaged => InOrder(a)
  BY <1>9, <1>15, <1>16, ArrayReady
<1>. QED  BY <1>14, <1>17, UpdateStep

-----------------------------------------------------------------------------
(* The theorems.                                                           *)

\* The commands sorted and unsorted arrays share.
LEMMA CommandStep ==
  ASSUME IInv, merge = NoMerge, UNCHANGED merge, Command
  PROVE  IInv'
<1>1. NoArray \in Array /\ InOrder(NoArray)
  BY NewArrayInOrder DEF NoArray
<1>2. CASE DeleteAll
  BY <1>1, <1>2 DEF IInv, TypeOK, HeldInOrder, MergeFits, MergeRuns, DeleteAll
<1>3. ASSUME NEW n \in Name, NEW len \in Lengths[n], Create(n, len)
      PROVE  IInv'
  <2>1. CASE Refuse("CREATE", n, "Duplicate") \/ Refuse("CREATE", n, "Bounds")
    BY <2>1, QuietStep DEF Refuse
  <2>2. CASE /\ len \in 1..MaxCapacity
             /\ Update("CREATE", n, <<len>>, NewArray(len))
    <3>1. NewArray(len) \in Array /\ InOrder(NewArray(len))
      BY <2>2, NewArrayInOrder
    <3>. QED  BY <2>2, <3>1, UpdateStep
  <2>. QED  BY <1>3, <2>1, <2>2 DEF Create
<1>4. ASSUME NEW n \in Name, Delete(n) PROVE IInv'
  BY <1>1, <1>4, UpdateStep DEF Delete
<1>5. ASSUME NEW n \in Name, NEW pos \in Positions[n], Get(n, pos) PROVE IInv'
  BY <1>5, QuietStep DEF Get, NotExist, Refuse, Show
<1>6. ASSUME NEW n \in Name, NEW start \in Positions[n],
             NEW stop \in Positions[n] \cup {NoStop}, GetRange(n, start, stop)
      PROVE  IInv'
  BY <1>6, QuietStep DEF GetRange, NotExist, Refuse, Show
<1>7. ASSUME NEW n \in Name, NEW start \in Positions[n],
             NEW stop \in Positions[n] \cup {NoStop}, Clear(n, start, stop)
      PROVE  IInv'
  <2>1. start \in Nat /\ stop \in Nat \cup {NoStop}
    BY <1>7, PositionsAssumption
  <2>. QED  BY <1>7, <2>1, ClearStep
<1>. QED  BY <1>2, <1>3, <1>4, <1>5, <1>6, <1>7 DEF Command

\* Every step keeps the invariant.
LEMMA NextInv == IInv /\ [Next]_vars => IInv'
<1>. SUFFICES ASSUME IInv, [Next]_vars PROVE IInv'
  OBVIOUS
<1>1. CASE MergeRun
  BY <1>1, MergeRunStep
<1>2. CASE MergeRest
  BY <1>2, MergeRestStep
<1>11. CASE MergeOverread
  BY <1>11, DieStep DEF MergeOverread
<1>3. CASE merge = NoMerge /\ UNCHANGED merge /\ Start
  BY <1>3 DEF Start, IInv, TypeOK, HeldInOrder, MergeFits, MergeRuns
<1>4. CASE merge = NoMerge /\ UNCHANGED merge /\ Command
  BY <1>4, CommandStep
<1>5. ASSUME merge = NoMerge, UNCHANGED merge, NEW n \in Name, NEW x \in Item,
             Set(n, x)
      PROVE  IInv'
  BY <1>5, SetStep
<1>6. ASSUME merge = NoMerge, UNCHANGED merge, NEW n \in Name,
             NEW k \in Positions[n], Min(n, k) \/ Max(n, k)
      PROVE  IInv'
  <2>1. UNCHANGED <<process, arrays, damaged>>
    BY <1>6 DEF Min, Max, Extremes, NotExist, Refuse, Show
  <2>. QED  BY <1>6, <2>1, QuietStep
<1>7. ASSUME merge = NoMerge, UNCHANGED merge, NEW n \in Name, NEW m \in Name,
             Intersect(n, m)
      PROVE  IInv'
  <2>1. UNCHANGED <<process, arrays, damaged>>
    BY <1>7 DEF Intersect, Refuse, Show
  <2>. QED  BY <1>7, <2>1, QuietStep
<1>8. ASSUME merge = NoMerge, NEW n \in Name, UNCHANGED merge,
             NEW sent \in Sent, NotExist("SET_RNG", n) \/ Unconverted(n, sent)
      PROVE  IInv'
  BY <1>8, QuietStep DEF NotExist, Unconverted, Refuse
<1>9. ASSUME merge = NoMerge, NEW n \in Name, NEW sent \in Sent, SetRange(n, sent)
      PROVE  IInv'
  BY <1>8, <1>9, SortsAreBatches, BeginMergeStep DEF SetRange
<1>10. CASE UNCHANGED vars
  BY <1>10, QuietStep DEF vars
<1>. QED
  BY <1>1, <1>2, <1>3, <1>4, <1>5, <1>6, <1>7, <1>8, <1>9, <1>10, <1>11
     DEF Next

LEMMA Invariance == Spec => []IInv
  BY InitInv, NextInv, PTL DEF Spec

\* The variables keep their types: arrays never have more slots than the
\* configuration allows, and the loop of a SET_RNG points into its items.
THEOREM TypeCorrect == Spec => []TypeOK
<1>1. IInv => TypeOK
  BY DEF IInv
<1>. QED  BY <1>1, Invariance, PTL

\* Every array is in ascending order after every command and between any two
\* turns of the loop of a SET_RNG, as long as no CLEAR left the storage of a
\* vector (Array::set, Array::setRange, Array::clear).
THEOREM AlwaysInOrder == Spec => []HeldInOrder
<1>1. IInv => HeldInOrder
  BY DEF IInv
<1>. QED  BY <1>1, Invariance, PTL

\* The loop of a SET_RNG never runs out of slots, and its lower bound is the
\* place of the next item (Array::setRange).
THEOREM MergeHasRoom == Spec => []MergeFits
<1>1. IInv => MergeFits
  BY DEF IInv
<1>. QED  BY <1>1, Invariance, PTL

-----------------------------------------------------------------------------
(* What is answered.                                                       *)

\* While the loop runs, nothing has been answered yet.
NoAnswerYet == merge # NoMerge => rsp = NoRsp

LEMMA Typed == IInv => ArraysTyped
  BY DEF IInv, TypeOK, ArraysTyped

\* The first k of an ascending sequence are its lowest.
LEMMA FirstAreLowest ==
  ASSUME NEW used \in Nat, NEW k \in 0..used, NEW held \in [1..used -> Int],
         \A i, j \in 1..used : i <= j => held[i] <= held[j],
         NEW items, items \in [1..k -> Int], \A i \in 1..k : items[i] = held[i]
  PROVE  MinIsLowest(items, held)
<1>1. SUFFICES ASSUME NEW x \in Cell
               PROVE  /\ Count(items, x) <= Count(held, x)
                      /\ Count(items, x) < Count(held, x) =>
                           \A i \in DOMAIN items : items[i] <= x
  BY DEF MinIsLowest
<1>. DEFINE I == {i \in 1..k : items[i] = x}
            H == {i \in 1..used : held[i] = x}
<1>2. Count(items, x) = Cardinality(I) /\ Count(held, x) = Cardinality(H)
  BY DEF Count
<1>3. IsFiniteSet(H)
  <2>1. IsFiniteSet(1..used)
    BY FS_Interval
  <2>2. H \subseteq 1..used
    OBVIOUS
  <2>. QED  BY <2>1, <2>2, FS_Subset
<1>4. I \subseteq H
  OBVIOUS
<1>5. /\ IsFiniteSet(I) /\ Cardinality(I) <= Cardinality(H)
      /\ Cardinality(I) = Cardinality(H) => I = H
  BY <1>3, <1>4, FS_Subset
<1>6. Cardinality(I) \in Nat /\ Cardinality(H) \in Nat
  BY <1>3, <1>5, FS_CardinalityType
<1>7. ASSUME Cardinality(I) < Cardinality(H), NEW i \in 1..k
      PROVE  items[i] <= x
  <2>1. I # H
    <3>. SUFFICES ASSUME I = H PROVE FALSE
      OBVIOUS
    <3>1. Cardinality(I) = Cardinality(H)
      BY Zenon
    <3>. QED  BY ONLY <1>6, <1>7, <3>1
  <2>2. PICK j \in H : j \notin I
    BY <1>4, <2>1
  <2>3. j \in 1..used /\ held[j] = x /\ ~(j \in 1..k)
    BY <2>2
  <2>4. i \in 1..used /\ i <= j
    BY <1>7, <2>3
  <2>5. held[i] <= held[j]
    BY <2>3, <2>4
  <2>. QED  BY <1>7, <2>3, <2>5
<1>. QED  BY <1>2, <1>5, <1>7

\* The last k of an ascending sequence, the last of them first, are its highest.
LEMMA LastAreHighest ==
  ASSUME NEW used \in Nat, NEW k \in 0..used, NEW held \in Seq(Cell), Len(held) = used,
         \A i, j \in 1..used : i <= j => held[i] <= held[j],
         NEW items, items \in [1..k -> Cell],
         \A i \in 1..k : items[i] = held[used + 1 - i]
  PROVE  MaxIsHighest(items, held)
<1>1. SUFFICES ASSUME NEW i \in 1..k, NEW j \in 1..used - i
               PROVE  items[i] = held[used + 1 - i] /\ held[j] <= items[i]
  BY DEF MaxIsHighest
<1>2. j \in 1..used /\ used + 1 - i \in 1..used /\ j <= used + 1 - i
  OBVIOUS
<1>3. held[j] <= held[used + 1 - i]
  BY <1>2
<1>. QED  BY <1>3

\* What is held of an array in order is ascending.
LEMMA HeldAscends ==
  ASSUME NEW size \in Nat, NEW used \in Nat, NEW slots \in [0..size - 1 -> Cell],
         NEW a, a = [size |-> size, used |-> used, slots |-> slots],
         used <= size, Rising(slots, used)
  PROVE  /\ Held(a) \in Seq(Cell) /\ Len(Held(a)) = used
         /\ \A i \in 1..used : Held(a)[i] = slots[i - 1]
         /\ \A i, j \in 1..used : i <= j => Held(a)[i] <= Held(a)[j]
<1>1. /\ Held(a) \in Seq(Cell) /\ Len(Held(a)) = used
      /\ \A i \in 1..used : Held(a)[i] = slots[i - 1]
  BY HeldOf
<1>2. \A i \in 1..used : i - 1 \in 0..used - 1
  OBVIOUS
<1>3. ASSUME NEW i \in 1..used, NEW j \in 1..used, i <= j
      PROVE  slots[i - 1] <= slots[j - 1]
  <2>1. i - 1 \in 0..used - 1 /\ j - 1 \in 0..used - 1 /\ i - 1 <= j - 1
    BY <1>3
  <2>. QED  BY <2>1 DEF Rising
<1>. QED  BY <1>1, <1>3

\* MIN reads the first items, and MAX the last slots.
LEMMA ExtremesRead ==
  ASSUME IInv, ~damaged, NEW n \in Name, NEW k \in Nat, NEW items
  PROVE  LET a == arrays[n]
         IN  /\ items \in Reads(a, 0, Least(k, a.used)) => MinIsLowest(items, Held(a))
             /\ /\ items \in [1..Least(k, a.used) -> Cell]
                /\ \A i \in DOMAIN items : i <= a.size => items[i] = a.slots[a.size - i]
                /\ a.used = a.size
                => MaxIsHighest(items, Held(a))
<1>1. PICK size \in 0..MaxCapacity, used \in 0..UsedBound :
        \E slots \in [0..size - 1 -> Cell] :
          /\ arrays[n] = [size |-> size, used |-> used, slots |-> slots]
          /\ ~damaged => used <= size /\ Rising(slots, used)
  BY ArrayParts
<1>2. PICK slots \in [0..size - 1 -> Cell] :
        /\ arrays[n] = [size |-> size, used |-> used, slots |-> slots]
        /\ used <= size /\ Rising(slots, used)
  BY <1>1
<1>3. PICK a : a = arrays[n]
  OBVIOUS
<1>4. PICK h : h = Held(a)
  OBVIOUS
<1>5. /\ h \in Seq(Cell) /\ Len(h) = used
      /\ \A i \in 1..used : h[i] = slots[i - 1]
      /\ \A i, j \in 1..used : i <= j => h[i] <= h[j]
  <2>1. /\ size \in Nat /\ used \in Nat /\ slots \in [0..size - 1 -> Cell]
        /\ a = [size |-> size, used |-> used, slots |-> slots]
        /\ used <= size /\ Rising(slots, used)
    BY <1>2, <1>3
  <2>2. /\ Held(a) \in Seq(Cell) /\ Len(Held(a)) = used
        /\ \A i \in 1..used : Held(a)[i] = slots[i - 1]
        /\ \A i, j \in 1..used : i <= j => Held(a)[i] <= Held(a)[j]
    BY ONLY <2>1, HeldAscends
  <2>. QED  BY <1>4, <2>2
<1>6. PICK m \in 0..used : m = Least(k, used)
  BY DEF Least
<1>7. a.size = size /\ a.used = used /\ a.slots = slots
  BY <1>2, <1>3
<1>8. used \in Nat /\ h \in [1..used -> Int]
  <2>1. h \in [1..used -> Cell]
    BY <1>5, LenProperties
  <2>2. h \in [1..used -> Int]
    BY ONLY <2>1, CellsAreIntegers
  <2>. QED  BY <2>2
<1>9. ASSUME items \in Reads(a, 0, m) PROVE MinIsLowest(items, h)
  <2>1. items \in [1..m -> Cell] /\ \A i \in 1..m : 0 + i - 1 < size => items[i] = slots[0 + i - 1]
    BY <1>7, <1>9 DEF Reads
  <2>2. items \in [1..m -> Int]
    BY <2>1, CellsAreIntegers
  <2>3. ASSUME NEW i \in 1..m PROVE items[i] = h[i]
    <3>1. i \in 1..used /\ 0 + i - 1 < size /\ 0 + i - 1 = i - 1
      BY <1>2
    <3>. QED  BY <1>5, <2>1, <3>1
  <2>. QED  BY <1>5, <1>8, <2>2, <2>3, FirstAreLowest
<1>10. ASSUME items \in [1..m -> Cell],
              \A i \in DOMAIN items : i <= size => items[i] = slots[size - i],
              used = size
       PROVE  MaxIsHighest(items, h)
  <2>1. ASSUME NEW i \in 1..m PROVE items[i] = h[used + 1 - i]
    <3>1. used + 1 - i \in 1..used /\ used + 1 - i - 1 = size - i /\ i <= size
      BY <1>10
    <3>2. h[used + 1 - i] = slots[used + 1 - i - 1]
      BY <1>5, <3>1
    <3>3. items[i] = slots[size - i]
      BY <1>10, <3>1
    <3>. QED  BY <3>1, <3>2, <3>3
  <2>. QED  BY <1>5, <1>8, <1>10, <2>1, LastAreHighest
<1>. QED  BY <1>3, <1>4, <1>6, <1>7, <1>9, <1>10

LEMMA MinAnswers ==
  ASSUME IInv, NEW n \in Name, NEW k \in Nat, Min(n, k)
  PROVE  ExtremesAreRight'
<1>. SUFFICES ASSUME rsp'.st = "Ok", ~damaged'
              PROVE  /\ rsp'.cmd = "MIN"
                     /\ MinIsLowest(rsp'.items, Held(arrays'[rsp'.name]))
  BY DEF ExtremesAreRight
<1>1. ~NotExist("MIN", n) /\ ~Refuse("MIN", n, "Bounds")
  BY DEF NotExist, Refuse, Reply
<1>2. PICK items \in Reads(arrays[n], 0, Least(k, arrays[n].used)) :
        Show("MIN", n, <<k>>, items)
  BY <1>1 DEF Min, Extremes
<1>3. /\ rsp'.cmd = "MIN" /\ rsp'.name = n /\ rsp'.items = items
      /\ arrays' = arrays /\ damaged' = damaged
  BY <1>2 DEF Show, Reply
<1>4. ~damaged
  BY <1>3, Zenon
<1>5. MinIsLowest(items, Held(arrays[n]))
  BY <1>2, <1>4, ExtremesRead
<1>. QED  BY <1>3, <1>5

LEMMA MaxAnswers ==
  ASSUME IInv, NEW n \in Name, NEW k \in Nat, Max(n, k)
  PROVE  ExtremesAreRight'
<1>. SUFFICES ASSUME rsp'.st = "Ok", ~damaged'
              PROVE  /\ rsp'.cmd = "MAX"
                     /\ arrays'[rsp'.name].used = arrays'[rsp'.name].size =>
                          MaxIsHighest(rsp'.items, Held(arrays'[rsp'.name]))
  BY DEF ExtremesAreRight
<1>1. ~NotExist("MAX", n) /\ ~Refuse("MAX", n, "Bounds")
  BY DEF NotExist, Refuse, Reply
<1>2. PICK items \in [1..Least(k, arrays[n].used) -> Cell] :
        /\ \A i \in DOMAIN items :
             i <= arrays[n].size => items[i] = arrays[n].slots[arrays[n].size - i]
        /\ Show("MAX", n, <<k>>, items)
  BY <1>1 DEF Max, Extremes
<1>3. /\ rsp'.cmd = "MAX" /\ rsp'.name = n /\ rsp'.items = items
      /\ arrays' = arrays /\ damaged' = damaged
  BY <1>2 DEF Show, Reply
<1>4. ~damaged
  BY <1>3, Zenon
<1>5. arrays[n].used = arrays[n].size => MaxIsHighest(items, Held(arrays[n]))
  BY <1>2, <1>4, ExtremesRead
<1>. QED  BY <1>3, <1>5

\* No command but MIN and MAX is answered under their names, and no command but
\* CLEAR under its name.
LEMMA OtherAnswers ==
  /\ \A n, x : Set(n, x) => rsp'.cmd = "SET"
  /\ \A n, m : Intersect(n, m) => rsp'.cmd = "INTERSECT"
  /\ \A n, sent : SetRange(n, sent) => rsp'.cmd \in {"SET_RNG", "none"}
  /\ \A n, k : Min(n, k) => rsp'.cmd = "MIN"
  /\ \A n, k : Max(n, k) => rsp'.cmd = "MAX"
  /\ MergeRest \/ MergeOverread => rsp'.cmd = "SET_RNG"
  /\ Start => rsp'.cmd = "none"
  /\ Command => rsp'.cmd \in {"CREATE", "DELETE", "DELETE_ALL", "GET", "GET_RNG", "ERR", "CLEAR"}
<1>1. \A n, x : Set(n, x) => rsp'.cmd = "SET"
  BY NamedInAnswer DEF Set
<1>2. \A n, m : Intersect(n, m) => rsp'.cmd = "INTERSECT"
  BY NamedInAnswer DEF Intersect
<1>3. \A n, items : BeginMerge(n, items) => rsp'.cmd \in {"SET_RNG", "none"}
  BY NamedInAnswer DEF BeginMerge, NoRsp
<1>4. \A n, sent : SetRange(n, sent) => rsp'.cmd \in {"SET_RNG", "none"}
  BY <1>3, NamedInAnswer DEF SetRange, Unconverted
<1>5. \A n, k : (Min(n, k) => rsp'.cmd = "MIN") /\ (Max(n, k) => rsp'.cmd = "MAX")
  BY NamedInAnswer DEF Min, Max, Extremes
<1>6. MergeRest \/ MergeOverread => rsp'.cmd = "SET_RNG"
  BY NamedInAnswer DEF MergeRest, MergeOverread
<1>7. Start => rsp'.cmd = "none"
  BY DEF Start, NoRsp
<1>8. Command => rsp'.cmd \in {"CREATE", "DELETE", "DELETE_ALL", "GET", "GET_RNG", "ERR", "CLEAR"}
  <2>1. DeleteAll => rsp'.cmd = "DELETE_ALL"
    BY DEF DeleteAll, Reply
  <2>2. \A n, len : Create(n, len) => rsp'.cmd = "CREATE"
    BY NamedInAnswer DEF Create
  <2>3. \A n : Delete(n) => rsp'.cmd = "DELETE"
    BY NamedInAnswer DEF Delete
  <2>4. \A n, pos : Get(n, pos) => rsp'.cmd = "GET"
    BY NamedInAnswer DEF Get
  <2>5. \A n, start, stop : GetRange(n, start, stop) => rsp'.cmd \in {"GET_RNG", "ERR"}
    BY NamedInAnswer DEF GetRange
  <2>6. \A n, start, stop : Clear(n, start, stop) => rsp'.cmd = "CLEAR"
    BY NamedInAnswer DEF Clear, ClearArray
  <2>. QED  BY <2>1, <2>2, <2>3, <2>4, <2>5, <2>6 DEF Command
<1>. QED  BY <1>1, <1>2, <1>4, <1>5, <1>6, <1>7, <1>8

LEMMA NoAnswerYetStep ==
  ASSUME NoAnswerYet, [Next]_vars
  PROVE  NoAnswerYet'
<1>1. CASE MergeRun
  <2>1. merge # NoMerge /\ UNCHANGED rsp
    BY <1>1 DEF MergeRun, Merging
  <2>. QED  BY <2>1 DEF NoAnswerYet
<1>2. CASE MergeRest \/ MergeOverread
  BY <1>2 DEF MergeRest, MergeOverread, NoAnswerYet
<1>3. CASE merge = NoMerge /\ UNCHANGED merge
  BY <1>3 DEF NoAnswerYet
<1>4. ASSUME NEW n \in Name, NEW items, BeginMerge(n, items), merge = NoMerge
      PROVE  NoAnswerYet'
  BY <1>4 DEF BeginMerge, NoAnswerYet
<1>5. ASSUME NEW n \in Name, NEW sent, SetRange(n, sent), merge = NoMerge
      PROVE  NoAnswerYet'
  BY <1>4, <1>5 DEF SetRange, NoAnswerYet
<1>6. CASE UNCHANGED vars
  BY <1>6 DEF vars, NoAnswerYet
<1>. QED  BY <1>1, <1>2, <1>3, <1>4, <1>5, <1>6 DEF Next

LEMMA ExtremesStep ==
  ASSUME IInv, NoAnswerYet, ExtremesAreRight, [Next]_vars
  PROVE  ExtremesAreRight'
<1>1. rsp'.cmd \notin {"MIN", "MAX"} => ExtremesAreRight'
  BY DEF ExtremesAreRight
<1>2. CASE UNCHANGED vars
  BY <1>2 DEF vars, ExtremesAreRight
<1>3. CASE MergeRun
  <2>1. rsp' = NoRsp
    BY <1>3 DEF MergeRun, Merging, NoAnswerYet
  <2>. QED  BY <1>1, <2>1 DEF NoRsp
<1>4. ASSUME NEW n \in Name, NEW k \in Positions[n], Min(n, k) \/ Max(n, k)
      PROVE  ExtremesAreRight'
  BY <1>4, PositionsAssumption, MinAnswers, MaxAnswers
<1>. QED  BY <1>1, <1>2, <1>3, <1>4, OtherAnswers DEF Next

LEMMA AnswersInvariance == Spec => [](NoAnswerYet /\ ExtremesAreRight)
<1>1. Init => NoAnswerYet /\ ExtremesAreRight
  BY DEF Init, ArrInit, NoAnswerYet, ExtremesAreRight, NoRsp
<1>2. IInv /\ NoAnswerYet /\ ExtremesAreRight /\ [Next]_vars =>
        (NoAnswerYet /\ ExtremesAreRight)'
  BY NoAnswerYetStep, ExtremesStep
<1>. QED  BY <1>1, <1>2, Invariance, PTL DEF Spec

\* MIN answers the lowest items of an array, and MAX the highest of a full one.
THEOREM ExtremesRight == Spec => []ExtremesAreRight
  BY AnswersInvariance, PTL

\* No command that is refused has stored or counted anything (ArrExecutor); the
\* turns of the loop of a SET_RNG are not refused commands, for nothing is
\* answered before it ends.
THEOREM RefusedKeeps == Spec => RefusedChangesNothing
<1>1. ASSUME NoAnswerYet, Next, process' = "running", rsp'.st \notin {"Ok", "none"}
      PROVE  arrays' = arrays
  <2>1. Start => arrays' = arrays
    BY DEF Start
  <2>2. Command => arrays' = arrays
    BY <1>1, RefusedCommand
  <2>3. ~MergeRun
    BY <1>1 DEF MergeRun, Merging, NoAnswerYet, NoRsp
  <2>4. ~MergeRest /\ ~MergeOverread
    BY <1>1, Ends DEF MergeRest, MergeOverread
  <2>5. \A n, x : Set(n, x) => arrays' = arrays
    BY <1>1, Ends DEF Set
  <2>6. \A n, k : Min(n, k) \/ Max(n, k) => arrays' = arrays
    BY Ends DEF Min, Max, Extremes
  <2>7. \A n, m : Intersect(n, m) => arrays' = arrays
    BY Ends DEF Intersect
  <2>8. \A n, items : BeginMerge(n, items) => arrays' = arrays
    BY <1>1, Ends DEF BeginMerge, NoRsp
  <2>9. \A n, sent : SetRange(n, sent) => arrays' = arrays
    BY <2>8, Ends DEF SetRange, Unconverted
  <2>. QED  BY <1>1, <2>1, <2>2, <2>3, <2>4, <2>5, <2>6, <2>7, <2>9 DEF Next
<1>2. NoAnswerYet /\ [Next]_vars =>
        [process' = "running" /\ rsp'.st \notin {"Ok", "none"} => arrays' = arrays]_arrVars
  BY <1>1 DEF vars, arrVars
<1>. QED  BY <1>2, AnswersInvariance, PTL DEF Spec, RefusedChangesNothing

\* A CLEAR takes out the items of its range and keeps the others in their order
\* (Array::clear).
THEOREM ClearTakes == Spec => ClearKeepsTheRest
<1>1. ASSUME IInv, NoAnswerYet, Next, NEW n \in Name
      PROVE  ClearKeeps(n)
  <2>. SUFFICES ASSUME rsp'.cmd = "CLEAR" PROVE ClearKeeps(n)
    BY DEF ClearKeeps
  <2>1. ~MergeRun
    BY <1>1 DEF MergeRun, Merging, NoAnswerYet, NoRsp
  <2>2. Command
    BY <1>1, <2>1, OtherAnswers DEF Next
  <2>. QED  BY <1>1, <2>2, Typed, CommandClears
<1>2. IInv /\ NoAnswerYet /\ [Next]_vars => [\A n \in Name : ClearKeeps(n)]_arrVars
  BY <1>1 DEF vars, arrVars
<1>3. [\A n \in Name : ClearKeeps(n)]_arrVars =>
      [\A n \in Name :
         LET a == arrays[n]
             start == rsp'.args[1]
             end == Least(a.used, StopOf(a, rsp'.args[2]))
         IN  rsp'.cmd = "CLEAR" /\ rsp'.name = n /\ rsp'.st = "Ok" /\ ~damaged'
             /\ a.used <= a.size =>
               Held(arrays'[n]) =
                 SubSeq(Held(a), 1, start) \o SubSeq(Held(a), end + 1, a.used)]_arrVars
  BY DEF ClearKeeps
<1>. QED
  BY <1>2, <1>3, Invariance, AnswersInvariance, PTL DEF Spec, ClearKeepsTheRest

-----------------------------------------------------------------------------
(* Insertions keep the items.                                              *)

\* Where x is in h from a to b.
Spots(h, a, b, x) == {i \in a..b : h[i] = x}

LEMMA SpotsFinite ==
  ASSUME NEW h, NEW a \in Int, NEW b \in Int, NEW x
  PROVE  IsFiniteSet(Spots(h, a, b, x)) /\ Cardinality(Spots(h, a, b, x)) \in Nat
<1>1. IsFiniteSet(a..b)
  BY FS_Interval
<1>2. Spots(h, a, b, x) \in SUBSET (a..b)
  BY DEF Spots
<1>3. IsFiniteSet(Spots(h, a, b, x))
  BY <1>1, <1>2, FS_Subset
<1>. QED  BY <1>3, FS_CardinalityType

\* What is moved by d stays as often as it was.
LEMMA SpotsMoved ==
  ASSUME NEW h, NEW s, NEW a \in Int, NEW b \in Int, NEW d \in Int, NEW x,
         NEW c, NEW e, c = a + d, e = b + d,
         \A i \in a..b : s[i + d] = h[i]
  PROVE  Cardinality(Spots(s, c, e, x)) = Cardinality(Spots(h, a, b, x))
<1>. DEFINE S == Spots(h, a, b, x)
            T == Spots(s, c, e, x)
            f == [i \in S |-> i + d]
<1>1. f \in [S -> T]
  BY DEF Spots
<1>2. \A i, j \in S : f[i] = f[j] => i = j
  BY DEF Spots
<1>3. ASSUME NEW t \in T PROVE \E i \in S : f[i] = t
  <2>1. PICK i \in Int : i = t - d
    BY DEF Spots
  <2>2. i \in a..b /\ i + d = t
    BY <1>3, <2>1 DEF Spots
  <2>3. i \in S
    BY <2>2 DEF Spots
  <2>. QED  BY <2>2, <2>3
<1>4. f \in Bijection(S, T)
  <2>. HIDE DEF f, S, T
  <2>. QED  BY <1>1, <1>2, <1>3 DEF Bijection, Injection, Surjection, IsInjective
<1>5. ExistsBijection(S, T)
  BY <1>4 DEF ExistsBijection
<1>6. IsFiniteSet(S)
  BY SpotsFinite
<1>. QED  BY <1>5, <1>6, FS_Bijection

LEMMA SpotsSplit ==
  ASSUME NEW h, NEW a \in Int, NEW b \in Int, NEW c \in Int, NEW x, a <= b + 1, b <= c
  PROVE  Cardinality(Spots(h, a, c, x)) =
           Cardinality(Spots(h, a, b, x)) + Cardinality(Spots(h, b + 1, c, x))
<1>. DEFINE S == Spots(h, a, b, x)
            T == Spots(h, b + 1, c, x)
<1>1. IsFiniteSet(S) /\ IsFiniteSet(T) /\ Cardinality(S) \in Nat /\ Cardinality(T) \in Nat
  BY SpotsFinite
<1>2. S \cap T = {} /\ S \cup T = Spots(h, a, c, x)
  BY DEF Spots
<1>3. Cardinality(S \cap T) = 0
  BY <1>2, FS_EmptySet
<1>4. Cardinality(S \cup T) = Cardinality(S) + Cardinality(T) - Cardinality(S \cap T)
  BY <1>1, FS_Union
<1>5. PICK i, j, k : i = Cardinality(S) /\ j = Cardinality(T) /\ k = Cardinality(S \cap T)
  OBVIOUS
<1>6. Cardinality(S \cup T) = i + j
  BY <1>1, <1>3, <1>4, <1>5
<1>. QED  BY <1>2, <1>5, <1>6

\* In s, the run of r items stands behind the first p of the m items of h.
Widened(s, h, m, run, r, p) ==
  /\ m \in Nat /\ r \in Nat /\ p \in 0..m
  /\ DOMAIN h = 1..m /\ DOMAIN run = 1..r /\ DOMAIN s = 1..m + r
  /\ \A i \in 1..p : s[i] = h[i]
  /\ \A i \in 1..r : s[i + p] = run[i]
  /\ \A i \in p + 1..m : s[i + r] = h[i]

\* It holds the items of both.
LEMMA CountWidened ==
  ASSUME NEW s, NEW h, NEW m, NEW run, NEW r, NEW p, NEW x, Widened(s, h, m, run, r, p)
  PROVE  /\ Count(s, x) = Count(h, x) + Count(run, x)
         /\ Count(h, x) \in Nat /\ Count(run, x) \in Nat
<1>1. /\ m \in Nat /\ r \in Nat /\ p \in 0..m
      /\ DOMAIN h = 1..m /\ DOMAIN run = 1..r /\ DOMAIN s = 1..m + r
      /\ \A i \in 1..p : s[i] = h[i]
      /\ \A i \in 1..r : s[i + p] = run[i]
      /\ \A i \in p + 1..m : s[i + r] = h[i]
  BY DEF Widened
<1>2. /\ Count(s, x) = Cardinality(Spots(s, 1, m + r, x))
      /\ Count(h, x) = Cardinality(Spots(h, 1, m, x))
      /\ Count(run, x) = Cardinality(Spots(run, 1, r, x))
  BY <1>1 DEF Count, Spots
<1>3. PICK A, B, C : /\ A = Cardinality(Spots(h, 1, p, x)) /\ A \in Nat
                     /\ B = Cardinality(Spots(run, 1, r, x)) /\ B \in Nat
                     /\ C = Cardinality(Spots(h, p + 1, m, x)) /\ C \in Nat
  <2>1. 1 \in Int /\ p \in Int /\ r \in Int /\ p + 1 \in Int /\ m \in Int
    BY <1>1
  <2>. QED  BY <2>1, SpotsFinite
<1>4. Cardinality(Spots(h, 1, m, x)) = A + C
  <2>1. 1 \in Int /\ p \in Int /\ m \in Int /\ 1 <= p + 1 /\ p <= m
    BY <1>1
  <2>. QED  BY <1>3, <2>1, SpotsSplit
<1>5. Cardinality(Spots(s, 1, p, x)) = A
  <2>1. \A i \in 1..p : s[i + 0] = h[i]
    BY <1>1
  <2>2. 1 \in Int /\ p \in Int /\ 0 \in Int /\ 1 = 1 + 0 /\ p = p + 0
    BY <1>1
  <2>3. Cardinality(Spots(s, 1, p, x)) = Cardinality(Spots(h, 1, p, x))
    BY ONLY <2>1, <2>2, SpotsMoved
  <2>. QED  BY <1>3, <2>3
<1>6. Cardinality(Spots(s, p + 1, p + r, x)) = B
  <2>1. \A i \in 1..r : s[i + p] = run[i]
    BY <1>1
  <2>2. PICK b, c, e : b = 1 /\ c = p + 1 /\ e = p + r
    OBVIOUS
  <2>3. b \in Int /\ r \in Int /\ p \in Int /\ c = b + p /\ e = r + p
    BY <1>1, <2>2
  <2>4. \A i \in b..r : s[i + p] = run[i]
    BY <2>1, <2>2
  <2>5. Cardinality(Spots(s, c, e, x)) = Cardinality(Spots(run, b, r, x))
    BY ONLY <2>3, <2>4, SpotsMoved
  <2>. QED  BY <1>3, <2>2, <2>5
<1>7. Cardinality(Spots(s, p + r + 1, m + r, x)) = C
  <2>1. \A i \in p + 1..m : s[i + r] = h[i]
    BY <1>1
  <2>2. PICK b, c, e : b = p + 1 /\ c = p + r + 1 /\ e = m + r
    OBVIOUS
  <2>3. b \in Int /\ m \in Int /\ r \in Int /\ c = b + r /\ e = m + r
    BY <1>1, <2>2
  <2>4. \A i \in b..m : s[i + r] = h[i]
    BY <2>1, <2>2
  <2>5. Cardinality(Spots(s, c, e, x)) = Cardinality(Spots(h, b, m, x))
    BY ONLY <2>3, <2>4, SpotsMoved
  <2>. QED  BY <1>3, <2>2, <2>5
<1>8. Cardinality(Spots(s, p + 1, m + r, x)) = B + C
  <2>1. /\ p + 1 \in Int /\ p + r \in Int /\ m + r \in Int
        /\ p + 1 <= p + r + 1 /\ p + r <= m + r
    BY <1>1
  <2>2. Cardinality(Spots(s, p + 1, m + r, x)) =
          Cardinality(Spots(s, p + 1, p + r, x)) + Cardinality(Spots(s, p + r + 1, m + r, x))
    BY <2>1, SpotsSplit
  <2>. QED  BY <1>6, <1>7, <2>2
<1>9. Cardinality(Spots(s, 1, m + r, x)) = A + (B + C)
  <2>1. 1 \in Int /\ p \in Int /\ m + r \in Int /\ 1 <= p + 1 /\ p <= m + r
    BY <1>1
  <2>2. Cardinality(Spots(s, 1, m + r, x)) =
          Cardinality(Spots(s, 1, p, x)) + Cardinality(Spots(s, p + 1, m + r, x))
    BY <2>1, SpotsSplit
  <2>. QED  BY <1>5, <1>8, <2>2
<1>10. A + (B + C) = A + C + B /\ A + C \in Nat
  BY <1>3
<1>. QED  BY <1>2, <1>3, <1>4, <1>9, <1>10

\* What is held of an array is counted.
LEMMA HeldCounted ==
  ASSUME NEW a \in Array, NEW x
  PROVE  Count(Held(a), x) \in Nat
<1>1. PICK m \in Nat : m = Least(a.used, a.size)
  BY ArrayFields DEF Least
<1>2. DOMAIN Held(a) = 1..m
  BY <1>1 DEF Held
<1>3. 1 \in Int /\ m \in Int
  OBVIOUS
<1>4. Cardinality(Spots(Held(a), 1, m, x)) \in Nat
  BY ONLY <1>3, SpotsFinite
<1>. QED  BY <1>2, <1>4 DEF Count, Spots

\* A run inserted in the slots is inserted in what is held.
LEMMA HeldWidened ==
  ASSUME NEW size \in Nat, NEW used \in Nat, NEW lower \in 0..used, NEW r \in Nat,
         NEW slots \in [0..size - 1 -> Cell], NEW s \in [0..size - 1 -> Cell],
         NEW run \in Seq(Item), r = Len(run), used + r <= size,
         Inserted(s, slots, used, lower, run, r),
         NEW a, a = [size |-> size, used |-> used, slots |-> slots],
         NEW b, b = [size |-> size, used |-> used + r, slots |-> s]
  PROVE  Widened(Held(b), Held(a), used, run, r, lower)
<1>1. Held(a) = [i \in 1..used |-> slots[i - 1]]
  BY DEF Held, Least
<1>2. Held(b) = [i \in 1..used + r |-> s[i - 1]]
  BY DEF Held, Least
<1>3. DOMAIN run = 1..r
  BY LenProperties
<1>4. ASSUME NEW i \in 1..lower PROVE Held(b)[i] = Held(a)[i]
  <2>1. i \in 1..used /\ i \in 1..used + r /\ i - 1 \in 0..lower - 1
    OBVIOUS
  <2>2. s[i - 1] = slots[i - 1]
    BY <2>1 DEF Inserted
  <2>. QED  BY <1>1, <1>2, <2>1, <2>2
<1>5. ASSUME NEW i \in 1..r PROVE Held(b)[i + lower] = run[i]
  <2>1. PICK j : j = i + lower - 1
    OBVIOUS
  <2>2. i + lower \in 1..used + r /\ j \in lower..lower + r - 1 /\ j - lower + 1 = i
    BY <2>1
  <2>3. s[j] = run[i]
    BY <2>2 DEF Inserted
  <2>. QED  BY <1>2, <2>1, <2>2, <2>3
<1>6. ASSUME NEW i \in lower + 1..used PROVE Held(b)[i + r] = Held(a)[i]
  <2>1. PICK j : j = i + r - 1
    OBVIOUS
  <2>2. /\ i + r \in 1..used + r /\ j \in lower + r..used + r - 1 /\ j - r = i - 1
        /\ i \in 1..used
    BY <2>1
  <2>3. s[j] = slots[i - 1]
    BY <2>2 DEF Inserted
  <2>. QED  BY <1>1, <1>2, <2>1, <2>2, <2>3
<1>. QED  BY <1>1, <1>2, <1>3, <1>4, <1>5, <1>6 DEF Widened

\* The items from k on are a run and those behind it.
LEMMA RestWidened ==
  ASSUME NEW items \in Seq(Item), NEW k \in 1..Len(items) + 1, NEW r \in Nat,
         k + r - 1 <= Len(items),
         NEW run \in Seq(Item), r = Len(run), \A i \in 1..r : run[i] = items[k + i - 1],
         NEW m \in Nat, m = Len(items) - (k + r) + 1
  PROVE  Widened(SubSeq(items, k, Len(items)), SubSeq(items, k + r, Len(items)),
                 m, run, r, 0)
<1>1. Len(items) \in Nat /\ k \in Nat
  BY LenProperties
<1>2. SubSeq(items, k, Len(items)) = [i \in 1..m + r |-> items[k + i - 1]]
  BY <1>1
<1>3. SubSeq(items, k + r, Len(items)) = [i \in 1..m |-> items[k + r + i - 1]]
  BY <1>1
<1>4. DOMAIN run = 1..r
  BY LenProperties
<1>5. PICK s, h : s = SubSeq(items, k, Len(items)) /\ h = SubSeq(items, k + r, Len(items))
  OBVIOUS
<1>6. DOMAIN s = 1..m + r /\ DOMAIN h = 1..m
  BY <1>2, <1>3, <1>5
<1>7. \A i \in 1..r : s[i + 0] = run[i]
  BY <1>1, <1>2, <1>5
<1>8. \A i \in 0 + 1..m : s[i + r] = h[i]
  BY <1>1, <1>2, <1>3, <1>5
<1>9. m \in Nat /\ r \in Nat /\ 0 \in 0..m /\ \A i \in 1..0 : s[i] = h[i]
  OBVIOUS
<1>10. Widened(s, h, m, run, r, 0)
  BY ONLY <1>4, <1>6, <1>7, <1>8, <1>9, Zenon DEF Widened
<1>. QED  BY <1>5, <1>10

-----------------------------------------------------------------------------

\* What InsertKeepsItems says of a step.
ItemsKept(n, x) ==
  ~damaged' /\ process' = "running" /\ rsp'.cmd \notin Resizing =>
    Owned(n, x)' = Owned(n, x)
      + IF rsp'.cmd = "SET" /\ rsp'.name = n /\ rsp'.st = "Ok"
        THEN Count(rsp'.args, x)
        ELSE IF merge = NoMerge /\ merge'.name = n
        THEN Count(merge'.items, x) ELSE 0

\* What an array holds and is going to hold is counted.
LEMMA OwnedCounted ==
  ASSUME IInv, NEW n \in Name, NEW x
  PROVE  /\ Owned(n, x) \in Nat
         /\ merge = NoMerge => Owned(n, x) = Count(Held(arrays[n]), x)
         /\ merge = NoMerge => merge.name # n
<1>1. Count(Held(arrays[n]), x) \in Nat
  BY HeldCounted DEF IInv, TypeOK
<1>2. merge = NoMerge => merge.name # n
  BY DEF NoMerge
<1>3. ASSUME merge # NoMerge
      PROVE  Count(SubSeq(merge.items, merge.next, Len(merge.items)), x) \in Nat
  <2>1. PICK m \in Nat : m = Len(merge.items) - merge.next + 1
    BY <1>3, MergeParts
  <2>2. Len(merge.items) \in Nat /\ merge.next \in Nat
    BY <1>3, MergeParts
  <2>3. DOMAIN SubSeq(merge.items, merge.next, Len(merge.items)) = 1..m
    BY <2>1, <2>2
  <2>4. 1 \in Int /\ m \in Int
    BY <2>1
  <2>5. Cardinality(Spots(SubSeq(merge.items, merge.next, Len(merge.items)), 1, m, x)) \in Nat
    BY ONLY <2>4, SpotsFinite
  <2>. QED  BY <2>3, <2>5 DEF Count, Spots
<1>. QED  BY <1>1, <1>2, <1>3 DEF Owned

\* A command that only answers.
LEMMA QuietKeeps ==
  ASSUME IInv, UNCHANGED <<arrays, merge>>, rsp'.cmd # "SET" \/ rsp'.st # "Ok",
         NEW n \in Name, NEW x
  PROVE  ItemsKept(n, x)
<1>1. Owned(n, x)' = Owned(n, x)
  BY DEF Owned, Held, Least, Count
<1>2. Owned(n, x) \in Nat /\ ~(merge = NoMerge /\ merge'.name = n)
  BY OwnedCounted
<1>. QED  BY <1>1, <1>2 DEF ItemsKept

\* SET adds its item to its array.
LEMMA SetKeeps ==
  ASSUME IInv, merge = NoMerge, UNCHANGED merge, NEW m \in Name, NEW y \in Item,
         Set(m, y), NEW n \in Name, NEW x
  PROVE  ItemsKept(n, x)
<1>1. CASE NotExist("SET", m) \/ Refuse("SET", m, "Bounds")
  <2>1. UNCHANGED <<arrays, merge>> /\ rsp'.st # "Ok"
    BY <1>1 DEF NotExist, Refuse, Reply
  <2>. QED  BY <2>1, QuietKeeps
<1>2. CASE ~(NotExist("SET", m) \/ Refuse("SET", m, "Bounds"))
  <2>1. PICK size \in 0..MaxCapacity, used \in 0..UsedBound :
          \E slots \in [0..size - 1 -> Cell] :
            /\ arrays[m] = [size |-> size, used |-> used, slots |-> slots]
            /\ ~damaged => used <= size /\ Rising(slots, used)
    BY ArrayParts
  <2>2. PICK slots \in [0..size - 1 -> Cell] :
          arrays[m] = [size |-> size, used |-> used, slots |-> slots]
    BY <2>1
  <2>3. arrays[m].size = size /\ arrays[m].used = used /\ arrays[m].slots = slots
    BY <2>2
  <2>4. PICK p \in 0..used :
          Update("SET", m, <<y>>,
            [size |-> size, used |-> used + 1,
             slots |-> Rotate([slots EXCEPT ![used] = y], p, used, used + 1)])
    BY <1>2, <2>3 DEF Set, Holding
  <2>5. used < size
    BY <1>2, <2>3 DEF Set, isFull
  <2>6. PICK run \in Seq(Item) : run = <<y>> /\ Len(run) = 1 /\ run[1] = y
    <3>1. <<y>> \in Seq(Item) /\ Len(<<y>>) = 1 /\ <<y>>[1] = y
      OBVIOUS
    <3>. QED  BY <3>1
  <2>7. [slots EXCEPT ![used] = y] = CopyTo(slots, used, run)
    <3>1. CopyTo(slots, used, run) =
            [i \in 0..size - 1 |-> IF used <= i /\ i < used + 1
                                   THEN run[i - used + 1] ELSE slots[i]]
      BY <2>6 DEF CopyTo
    <3>2. \A i \in 0..size - 1 :
            used <= i /\ i < used + 1 => i = used /\ run[i - used + 1] = y
      BY <2>6
    <3>3. \A i \in 0..size - 1 :
            (IF used <= i /\ i < used + 1 THEN run[i - used + 1] ELSE slots[i])
              = IF i = used THEN y ELSE slots[i]
      BY <3>2
    <3>. QED  BY <3>1, <3>3
  <2>8. PICK s, r : s = Rotate(CopyTo(slots, used, run), p, used, used + r) /\ r = 1
    OBVIOUS
  <2>9. /\ size \in Nat /\ used \in Nat /\ p \in 0..used
        /\ slots \in [0..size - 1 -> Cell] /\ run \in Seq(Item)
        /\ r \in Nat /\ r = Len(run) /\ used + r <= size
    BY <2>5, <2>6, <2>8
  <2>10. s \in [0..size - 1 -> Cell] /\ Inserted(s, slots, used, p, run, r)
    BY ONLY <2>8, <2>9, RunInserted
  <2>11. PICK a, b : /\ a = arrays[m] /\ b = [size |-> size, used |-> used + r, slots |-> s]
                     /\ arrays' = [arrays EXCEPT ![m] = b]
    BY <2>4, <2>7, <2>8 DEF Update
  <2>12. a = [size |-> size, used |-> used, slots |-> slots]
    BY <2>2, <2>11
  <2>13. Widened(Held(b), Held(a), used, run, r, p)
    BY ONLY <2>9, <2>10, <2>11, <2>12, HeldWidened
  <2>14. Count(Held(b), x) = Count(Held(a), x) + Count(run, x)
    BY <2>13, CountWidened
  <2>15. /\ rsp'.cmd = "SET" /\ rsp'.name = m /\ rsp'.st = "Ok" /\ rsp'.args = run
         /\ merge'.name # n
    BY <2>4, <2>6, OwnedCounted DEF Update, Reply
  <2>16. Owned(n, x)' = Count(Held(arrays'[n]), x) + 0
    BY <2>15 DEF Owned, Held, Least, Count
  <2>17. arrays'[m] = b /\ \A o \in Name \ {m} : arrays'[o] = arrays[o]
    BY <2>11 DEF IInv, TypeOK
  <2>18. /\ Owned(n, x) = Count(Held(arrays[n]), x) /\ Owned(n, x) \in Nat
         /\ Count(run, x) \in Nat
    BY <2>13, OwnedCounted, CountWidened
  <2>19. CASE n = m
    <3>1. Owned(n, x)' = Owned(n, x) + Count(run, x)
      BY <2>11, <2>14, <2>16, <2>17, <2>18, <2>19
    <3>. QED  BY <2>15, <2>19, <3>1 DEF ItemsKept
  <2>20. CASE n # m
    <3>1. Owned(n, x)' = Owned(n, x) + 0
      BY <2>16, <2>17, <2>18, <2>20
    <3>. QED  BY <2>15, <2>20, <3>1 DEF ItemsKept
  <2>. QED  BY <2>19, <2>20
<1>. QED  BY <1>1, <1>2

\* A SET_RNG that is accepted is going to add its items to its array.
LEMMA BeginMergeKeeps ==
  ASSUME IInv, merge = NoMerge, NEW m \in Name, NEW items \in SortedBatch,
         BeginMerge(m, items), NEW n \in Name, NEW x
  PROVE  ItemsKept(n, x)
<1>1. CASE Refuse("SET_RNG", m, "Bounds") /\ UNCHANGED merge
  <2>1. UNCHANGED <<arrays, merge>> /\ rsp'.st # "Ok"
    BY <1>1 DEF Refuse, Reply
  <2>. QED  BY <2>1, QuietKeeps
<1>2. CASE Die("SET_RNG", m, items)
  BY <1>2 DEF Die, ItemsKept
<1>3. CASE /\ rsp' = NoRsp /\ UNCHANGED arrays
           /\ \E p \in 0..arrays[m].used :
                merge' = [name |-> m, items |-> items, next |-> 1, lower |-> p]
  <2>1. merge'.name = m /\ merge'.items = items /\ merge'.next = 1
    BY <1>3
  <2>2. items \in Seq(Item) /\ Len(items) \in Nat
    BY BatchIsSeq DEF SortedBatch
  <2>3. SubSeq(items, 1, Len(items)) = items
    BY <2>2
  <2>4. Owned(n, x)' = Count(Held(arrays[n]), x) + IF m = n THEN Count(items, x) ELSE 0
    BY <1>3, <2>1, <2>3 DEF Owned, Held, Least, Count
  <2>5. Owned(n, x) = Count(Held(arrays[n]), x)
    BY OwnedCounted
  <2>6. rsp'.cmd # "SET"
    BY <1>3 DEF NoRsp
  <2>. QED  BY <2>1, <2>4, <2>5, <2>6 DEF ItemsKept
<1>. QED  BY <1>1, <1>2, <1>3 DEF BeginMerge

\* A turn of the loop moves its run from the items left to the array.
LEMMA MergeRunKeeps ==
  ASSUME IInv, NoAnswerYet, MergeRun, NEW n \in Name, NEW x
  PROVE  ItemsKept(n, x)
<1>1. merge # NoMerge /\ Remaining > 0
  BY DEF MergeRun, Merging
<1>2. PICK m \in Name, items \in SortedBatch, k \in Nat, lower \in Nat :
        merge = [name |-> m, items |-> items, next |-> k, lower |-> lower]
  BY <1>1, MergeParts
<1>3. merge.name = m /\ merge.items = items /\ merge.next = k /\ merge.lower = lower
  BY <1>2
<1>4. /\ Len(items) \in Nat /\ k \in 1..Len(items) + 1
      /\ Remaining \in Nat /\ Remaining = Len(items) - k + 1
  BY <1>1, <1>3, MergeParts
<1>5. PICK size \in 0..MaxCapacity, used \in 0..UsedBound :
        \E slots \in [0..size - 1 -> Cell] :
          /\ arrays[m] = [size |-> size, used |-> used, slots |-> slots]
          /\ ~damaged => used <= size /\ Rising(slots, used)
  BY ArrayParts
<1>6. PICK slots \in [0..size - 1 -> Cell] :
        arrays[m] = [size |-> size, used |-> used, slots |-> slots]
  BY <1>5
<1>7. Merged.size = size /\ Merged.used = used /\ Merged.slots = slots
  BY <1>3, <1>6 DEF Merged
<1>8. lower < used /\ used + Remaining <= size
  BY <1>1, <1>3, <1>7 DEF MergeRun, Merging, IInv, MergeFits
<1>9. PICK r \in 0..Remaining :
        LET run == SubSeq(items, k, k + r - 1)
            s == Rotate(CopyTo(slots, used, run), lower, used, used + r)
        IN  /\ arrays' = [arrays EXCEPT ![m] =
                            [size |-> size, used |-> used + r, slots |-> s]]
            /\ \E p \in lower + r..used + r :
                 merge' = [name |-> m, items |-> items, next |-> k + r, lower |-> p]
  BY <1>3, <1>7 DEF MergeRun, Holding
<1>10. PICK run, s : /\ run = SubSeq(items, k, k + r - 1)
                     /\ s = Rotate(CopyTo(slots, used, run), lower, used, used + r)
  OBVIOUS
<1>11. /\ arrays' = [arrays EXCEPT ![m] = [size |-> size, used |-> used + r, slots |-> s]]
       /\ merge'.name = m /\ merge'.items = items /\ merge'.next = k + r
  BY <1>9, <1>10
<1>12. /\ items \in SortedBatch /\ k \in 1..Len(items) + 1 /\ r \in Nat
       /\ k + r - 1 <= Len(items)
  BY <1>4, <1>9
<1>13. /\ run \in Seq(Item) /\ r = Len(run)
       /\ \A i \in 1..r : run[i] = items[k + i - 1]
  <2>1. RisingRun(run, items, k, r)
    BY <1>10, <1>12, RunOf
  <2>. QED  BY <2>1 DEF RisingRun
<1>14. /\ size \in Nat /\ used \in Nat /\ lower \in 0..used /\ used + r <= size
       /\ slots \in [0..size - 1 -> Cell]
  BY <1>2, <1>4, <1>8, <1>9
<1>15. s \in [0..size - 1 -> Cell] /\ Inserted(s, slots, used, lower, run, r)
  BY ONLY <1>10, <1>12, <1>13, <1>14, RunInserted
<1>16. PICK a, b : /\ a = [size |-> size, used |-> used, slots |-> slots]
                   /\ b = [size |-> size, used |-> used + r, slots |-> s]
  OBVIOUS
<1>17. Widened(Held(b), Held(a), used, run, r, lower)
  BY ONLY <1>12, <1>13, <1>14, <1>15, <1>16, HeldWidened
<1>18. PICK rest, after : /\ rest = SubSeq(items, k, Len(items))
                          /\ after = SubSeq(items, k + r, Len(items))
  OBVIOUS
<1>19. PICK l : l = Len(items) - (k + r) + 1 /\ l \in Nat
  <2>1. Len(items) - (k + r) + 1 \in Nat
    BY ONLY <1>4, <1>12
  <2>. QED  BY <2>1
<1>20. Widened(rest, after, l, run, r, 0)
  <2>1. items \in Seq(Item)
    BY BatchIsSeq DEF SortedBatch
  <2>2. Widened(SubSeq(items, k, Len(items)), SubSeq(items, k + r, Len(items)),
                l, run, r, 0)
    BY ONLY <1>12, <1>13, <1>19, <2>1, RestWidened
  <2>. QED  BY <1>18, <2>2
<1>21. /\ Count(Held(b), x) = Count(Held(a), x) + Count(run, x)
       /\ Count(Held(a), x) \in Nat /\ Count(run, x) \in Nat
  BY <1>17, CountWidened
<1>22. Count(rest, x) = Count(after, x) + Count(run, x) /\ Count(after, x) \in Nat
  BY <1>20, CountWidened
<1>23. arrays'[m] = b /\ arrays[m] = a /\ \A o \in Name \ {m} : arrays'[o] = arrays[o]
  BY <1>6, <1>11, <1>16 DEF IInv, TypeOK
<1>24. Owned(n, x) = Count(Held(arrays[n]), x) + IF m = n THEN Count(rest, x) ELSE 0
  BY <1>3, <1>18 DEF Owned
<1>25. Owned(n, x)' = Count(Held(arrays'[n]), x) + IF m = n THEN Count(after, x) ELSE 0
  BY <1>11, <1>18 DEF Owned, Held, Least, Count
<1>26. Owned(n, x)' = Owned(n, x)
  <2>1. CASE m = n
    BY <1>21, <1>22, <1>23, <1>24, <1>25, <2>1
  <2>2. CASE m # n
    BY <1>23, <1>24, <1>25, <2>2
  <2>. QED  BY <2>1, <2>2
<1>27. rsp'.cmd # "SET" /\ Owned(n, x) \in Nat
  BY <1>1, OwnedCounted DEF MergeRun, NoAnswerYet, NoRsp
<1>. QED  BY <1>1, <1>26, <1>27 DEF ItemsKept

\* The end of a SET_RNG moves the items that are left to the array.
LEMMA MergeRestKeeps ==
  ASSUME IInv, MergeRest, NEW n \in Name, NEW x
  PROVE  ItemsKept(n, x)
<1>1. merge # NoMerge
  BY DEF MergeRest
<1>2. PICK m \in Name, items \in SortedBatch, k \in Nat, lower \in Nat :
        merge = [name |-> m, items |-> items, next |-> k, lower |-> lower]
  BY <1>1, MergeParts
<1>3. merge.name = m /\ merge.items = items /\ merge.next = k /\ merge.lower = lower
  BY <1>2
<1>4. /\ Len(items) \in Nat /\ k \in 1..Len(items) + 1
      /\ Remaining \in Nat /\ Remaining = Len(items) - k + 1
  BY <1>1, <1>3, MergeParts
<1>5. PICK size \in 0..MaxCapacity, used \in 0..UsedBound :
        \E slots \in [0..size - 1 -> Cell] :
          /\ arrays[m] = [size |-> size, used |-> used, slots |-> slots]
          /\ ~damaged => used <= size /\ Rising(slots, used)
  BY ArrayParts
<1>6. PICK slots \in [0..size - 1 -> Cell] :
        arrays[m] = [size |-> size, used |-> used, slots |-> slots]
  BY <1>5
<1>7. Merged.size = size /\ Merged.used = used /\ Merged.slots = slots
  BY <1>3, <1>6 DEF Merged
<1>8. used + Remaining <= size
  BY <1>1, <1>7 DEF IInv, MergeFits
<1>9. PICK r, run : r = Remaining /\ run = SubSeq(items, k, Len(items))
  OBVIOUS
<1>10. /\ items \in SortedBatch /\ k \in 1..Len(items) + 1 /\ r \in Nat
       /\ k + r - 1 = Len(items) /\ k + r - 1 <= Len(items)
  BY <1>4, <1>9
<1>11. run \in Seq(Item) /\ r = Len(run)
  <2>1. run = SubSeq(items, k, k + r - 1)
    BY <1>9, <1>10
  <2>2. RisingRun(run, items, k, r)
    BY <1>10, <2>1, RunOf
  <2>. QED  BY <2>2 DEF RisingRun
<1>12. PICK c : c = CopyTo(slots, used, run)
  OBVIOUS
<1>13. PICK a, b : /\ a = [size |-> size, used |-> used, slots |-> slots]
                   /\ b = [size |-> size, used |-> used + r, slots |-> c]
  OBVIOUS
<1>14. merge' = NoMerge /\ Update("SET_RNG", m, items, b)
  BY <1>3, <1>7, <1>9, <1>11, <1>12, <1>13 DEF MergeRest, Holding
<1>15. /\ size \in Nat /\ used \in Nat /\ used \in 0..used /\ used + r <= size
       /\ slots \in [0..size - 1 -> Cell]
  BY <1>8, <1>9
<1>16. c \in [0..size - 1 -> Cell] /\ Inserted(c, slots, used, used, run, r)
  BY ONLY <1>10, <1>11, <1>12, <1>15, RunAppended
<1>17. Widened(Held(b), Held(a), used, run, r, used)
  BY ONLY <1>10, <1>11, <1>13, <1>15, <1>16, HeldWidened
<1>18. /\ Count(Held(b), x) = Count(Held(a), x) + Count(run, x)
       /\ Count(Held(a), x) \in Nat /\ Count(run, x) \in Nat
  BY <1>17, CountWidened
<1>19. arrays'[m] = b /\ arrays[m] = a /\ \A o \in Name \ {m} : arrays'[o] = arrays[o]
  BY <1>6, <1>13, <1>14 DEF Update, IInv, TypeOK
<1>20. Owned(n, x) = Count(Held(arrays[n]), x) + IF m = n THEN Count(run, x) ELSE 0
  BY <1>3, <1>9 DEF Owned
<1>21. merge'.name # n
  BY <1>14 DEF NoMerge
<1>22. Owned(n, x)' = Count(Held(arrays'[n]), x) + 0
  BY <1>21 DEF Owned, Held, Least, Count
<1>23. Count(Held(arrays[n]), x) \in Nat
  BY HeldCounted DEF IInv, TypeOK
<1>24. Owned(n, x)' = Owned(n, x)
  <2>1. CASE m = n
    BY <1>18, <1>19, <1>20, <1>22, <2>1
  <2>2. CASE m # n
    BY <1>19, <1>20, <1>22, <1>23, <2>2
  <2>. QED  BY <2>1, <2>2
<1>25. rsp'.cmd # "SET" /\ Owned(n, x) \in Nat
  BY <1>14, OwnedCounted DEF Update, Reply
<1>. QED  BY <1>1, <1>24, <1>25 DEF ItemsKept

\* No step makes items or loses one.
LEMMA StepKeeps ==
  ASSUME IInv, NoAnswerYet, Next, NEW n \in Name, NEW x
  PROVE  ItemsKept(n, x)
<1>1. CASE MergeRun
  BY <1>1, MergeRunKeeps
<1>2. CASE MergeOverread
  BY <1>2 DEF MergeOverread, Die, ItemsKept
<1>3. CASE MergeRest
  BY <1>3, MergeRestKeeps
<1>4. CASE merge = NoMerge /\ UNCHANGED merge /\ Start
  <2>1. UNCHANGED arrays /\ rsp'.cmd # "SET"
    BY <1>4 DEF Start, NoRsp
  <2>. QED  BY <1>4, <2>1, QuietKeeps
<1>5. CASE merge = NoMerge /\ UNCHANGED merge /\ Command
  <2>1. SUFFICES ASSUME rsp'.cmd \notin Resizing PROVE ItemsKept(n, x)
    BY DEF ItemsKept
  <2>2. ~DeleteAll
    BY <2>1 DEF DeleteAll, Reply, Resizing
  <2>3. \A m, len : ~Create(m, len)
    BY <2>1, NamedInAnswer DEF Create, Resizing
  <2>4. \A m : ~Delete(m)
    BY <2>1, NamedInAnswer DEF Delete, Resizing
  <2>5. \A m, start, stop : ~Clear(m, start, stop)
    BY <2>1, NamedInAnswer DEF Clear, ClearArray, Resizing
  <2>6. \A m, pos : Get(m, pos) => UNCHANGED arrays
    BY Ends DEF Get
  <2>7. \A m, start, stop : GetRange(m, start, stop) => UNCHANGED arrays
    BY Ends DEF GetRange
  <2>8. UNCHANGED arrays
    BY <1>5, <2>2, <2>3, <2>4, <2>5, <2>6, <2>7 DEF Command
  <2>9. rsp'.cmd # "SET"
    BY <1>5, OtherAnswers
  <2>. QED  BY <1>5, <2>8, <2>9, QuietKeeps
<1>6. ASSUME merge = NoMerge, UNCHANGED merge, NEW m \in Name, NEW y \in Item, Set(m, y)
      PROVE  ItemsKept(n, x)
  BY <1>6, SetKeeps
<1>7. ASSUME merge = NoMerge, UNCHANGED merge, NEW m \in Name, NEW k,
             Min(m, k) \/ Max(m, k)
      PROVE  ItemsKept(n, x)
  <2>1. UNCHANGED arrays /\ rsp'.cmd # "SET"
    BY <1>7, Ends, OtherAnswers DEF Min, Max, Extremes
  <2>. QED  BY <1>7, <2>1, QuietKeeps
<1>8. ASSUME merge = NoMerge, UNCHANGED merge, NEW m, NEW o, Intersect(m, o)
      PROVE  ItemsKept(n, x)
  <2>1. UNCHANGED arrays
    BY <1>8, Ends DEF Intersect
  <2>2. rsp'.cmd # "SET"
    BY <1>8, OtherAnswers
  <2>. QED  BY <1>8, <2>1, <2>2, QuietKeeps
<1>9. ASSUME merge = NoMerge, UNCHANGED merge, NEW m \in Name, NEW sent,
             NotExist("SET_RNG", m) \/ Unconverted(m, sent)
      PROVE  ItemsKept(n, x)
  <2>1. UNCHANGED <<arrays, merge>> /\ rsp'.cmd = "SET_RNG"
    BY <1>9, Ends, NamedInAnswer DEF Unconverted
  <2>. QED  BY <2>1, QuietKeeps
<1>10. ASSUME merge = NoMerge, NEW m \in Name, NEW sent \in Sent, SetRange(m, sent)
       PROVE  ItemsKept(n, x)
  BY <1>9, <1>10, SortsAreBatches, BeginMergeKeeps DEF SetRange
<1>. QED  BY <1>1, <1>2, <1>3, <1>4, <1>5, <1>6, <1>7, <1>8, <1>9, <1>10 DEF Next

\* No item is lost, doubled or invented by Array::set and Array::setRange, for
\* any items, capacity and order of commands: what an array holds and what the
\* loop of a SET_RNG has yet to store only grows by what a request brings.
THEOREM InsertsKeep == Spec => InsertKeepsItems
<1>1. IInv /\ NoAnswerYet /\ [Next]_vars =>
        [\A n \in Name, x \in Cell : ItemsKept(n, x)]_vars
  BY StepKeeps
<1>2. [\A n \in Name, x \in Cell : ItemsKept(n, x)]_vars =>
      [~damaged' /\ process' = "running" /\ rsp'.cmd \notin Resizing =>
         \A n \in Name, x \in Cell :
           Owned(n, x)' = Owned(n, x)
             + IF rsp'.cmd = "SET" /\ rsp'.name = n /\ rsp'.st = "Ok"
               THEN Count(rsp'.args, x)
               ELSE IF merge = NoMerge /\ merge'.name = n
               THEN Count(merge'.items, x) ELSE 0]_vars
  BY DEF ItemsKept
<1>. QED
  BY <1>1, <1>2, Invariance, AnswersInvariance, PTL DEF Spec, InsertKeepsItems

-----------------------------------------------------------------------------
(* INTERSECT answers what both arrays hold.                                *)

\* Induction on the natural numbers, stated for a set.
LEMMA NatSetInduction ==
  ASSUME NEW S, 0 \in S, \A k \in Nat : k \in S => k + 1 \in S
  PROVE  Nat \subseteq S
<1>. DEFINE T == Nat \ S
<1>. SUFFICES ASSUME T # {} PROVE FALSE
  OBVIOUS
<1>1. PICK R : R = OpToRel(<, Nat)
  OBVIOUS
<1>2. \A x, y \in Nat : x < y => <<x, y>> \in R
  BY <1>1, Zenon DEF OpToRel
<1>3. IsWellFoundedOn(R, Nat)
  BY <1>1, NatLessThanWellFounded, Zenon
<1>4. PICK x \in T : \A y \in T : <<y, x>> \notin R
  <2>1. T \subseteq Nat
    OBVIOUS
  <2>. QED  BY <1>3, <2>1, WFMin
<1>5. x # 0 /\ x - 1 \in Nat /\ x - 1 < x
  OBVIOUS
<1>6. x - 1 \in T
  BY <1>5
<1>. QED  BY <1>2, <1>4, <1>5, <1>6

\* One turn of the walk, with what the walk w finds from the next positions on.
Turn(s, t, w, i, j) ==
  IF i > Len(s) \/ j > Len(t) THEN <<>>
  ELSE IF s[i] < t[j] THEN w[<<i + 1, j>>]
  ELSE IF t[j] < s[i] THEN w[<<i, j + 1>>]
  ELSE <<s[i]>> \o w[<<i + 1, j + 1>>]

\* The pairs of positions the walk may come to.
Pairs(s, t) == (1..Len(s) + 1) \X (1..Len(t) + 1)

\* The walk w is right on the last k diagonals of the pairs.
WalkEnds(s, t, w, k) ==
  \A i \in 1..Len(s) + 1, j \in 1..Len(t) + 1 :
    i + j + k >= Len(s) + Len(t) + 2 => w[<<i, j>>] = Turn(s, t, w, i, j)

LEMMA PairOf ==
  ASSUME NEW s, NEW t, NEW i \in 1..Len(s) + 1, NEW j \in 1..Len(t) + 1
  PROVE  <<i, j>> \in Pairs(s, t) /\ <<i, j>>[1] = i /\ <<i, j>>[2] = j
  BY DEF Pairs

\* The walks v and w agree behind a pair.
AgreeBehind(s, t, v, w, i, j) ==
  \A a \in 1..Len(s) + 1, b \in 1..Len(t) + 1 :
    a + b > i + j => v[<<a, b>>] = w[<<a, b>>]

\* A turn looks at the pairs behind its own only.
LEMMA TurnLooksBehind ==
  ASSUME NEW s \in Seq(Int), NEW t \in Seq(Int), NEW v, NEW w,
         NEW i \in 1..Len(s) + 1, NEW j \in 1..Len(t) + 1,
         AgreeBehind(s, t, v, w, i, j)
  PROVE  Turn(s, t, v, i, j) = Turn(s, t, w, i, j)
<1>1. CASE i > Len(s) \/ j > Len(t)
  BY <1>1 DEF Turn
<1>2. CASE ~(i > Len(s) \/ j > Len(t))
  <2>1. /\ i + 1 \in 1..Len(s) + 1 /\ j + 1 \in 1..Len(t) + 1
        /\ i + 1 + j > i + j /\ i + (j + 1) > i + j /\ i + 1 + (j + 1) > i + j
    BY <1>2
  <2>2. /\ v[<<i + 1, j>>] = w[<<i + 1, j>>]
        /\ v[<<i, j + 1>>] = w[<<i, j + 1>>]
        /\ v[<<i + 1, j + 1>>] = w[<<i + 1, j + 1>>]
    BY <2>1 DEF AgreeBehind
  <2>. QED  BY <2>2, Zenon DEF Turn
<1>. QED  BY <1>1, <1>2

\* There is a walk for every two sequences.
LEMMA WalkExists ==
  ASSUME NEW s \in Seq(Int), NEW t \in Seq(Int), NEW k \in Nat
  PROVE  \E w : WalkEnds(s, t, w, k)
<1>. DEFINE S == {d \in Nat : \E w : WalkEnds(s, t, w, d)}
<1>1. 0 \in S
  <2>1. PICK w : w = [at \in Pairs(s, t) |-> <<>>]
    OBVIOUS
  <2>2. ASSUME NEW i \in 1..Len(s) + 1, NEW j \in 1..Len(t) + 1,
               i + j + 0 >= Len(s) + Len(t) + 2
        PROVE  w[<<i, j>>] = Turn(s, t, w, i, j)
    <3>1. i > Len(s)
      BY <2>2
    <3>. QED  BY <2>1, <3>1, PairOf DEF Turn
  <2>. QED  BY <2>2 DEF WalkEnds
<1>2. ASSUME NEW d \in Nat, d \in S PROVE d + 1 \in S
  <2>1. PICK w : WalkEnds(s, t, w, d)
    BY <1>2
  <2>2. PICK v : v = [at \in Pairs(s, t) |-> Turn(s, t, w, at[1], at[2])]
    OBVIOUS
  <2>3. \A i \in 1..Len(s) + 1, j \in 1..Len(t) + 1 :
          v[<<i, j>>] = Turn(s, t, w, i, j)
    BY <2>2, PairOf
  <2>4. ASSUME NEW i \in 1..Len(s) + 1, NEW j \in 1..Len(t) + 1,
               i + j + (d + 1) >= Len(s) + Len(t) + 2
        PROVE  v[<<i, j>>] = Turn(s, t, v, i, j)
    <3>1. ASSUME NEW a \in 1..Len(s) + 1, NEW b \in 1..Len(t) + 1, a + b > i + j
          PROVE  v[<<a, b>>] = w[<<a, b>>]
      <4>1. a + b + d >= Len(s) + Len(t) + 2
        BY <2>4, <3>1
      <4>2. w[<<a, b>>] = Turn(s, t, w, a, b)
        BY <2>1, <4>1, Zenon DEF WalkEnds
      <4>. QED  BY <2>3, <4>2, Zenon
    <3>2. AgreeBehind(s, t, v, w, i, j)
      BY <3>1 DEF AgreeBehind
    <3>3. Turn(s, t, v, i, j) = Turn(s, t, w, i, j)
      BY <3>2, TurnLooksBehind
    <3>. QED  BY <2>3, <3>3
  <2>5. WalkEnds(s, t, v, d + 1)
    BY <2>4 DEF WalkEnds
  <2>. QED  BY <2>5
<1>. HIDE DEF S
<1>3. Nat \subseteq S
  BY <1>1, <1>2, NatSetInduction
<1>4. k \in S
  BY <1>3
<1>. QED  BY <1>4 DEF S

\* CommonItems is what a walk finds that takes its turns from the first pair on.
LEMMA CommonWalked ==
  ASSUME NEW s \in Seq(Int), NEW t \in Seq(Int)
  PROVE  \E w : /\ CommonItems(s, t) = w[<<1, 1>>]
                /\ \A i \in 1..Len(s) + 1, j \in 1..Len(t) + 1 :
                     w[<<i, j>>] = Turn(s, t, w, i, j)
<1>1. PICK w : \A i \in 1..Len(s) + 1, j \in 1..Len(t) + 1 :
                 w[<<i, j>>] = Turn(s, t, w, i, j)
  <2>1. Len(s) + Len(t) \in Nat
    OBVIOUS
  <2>2. PICK w : WalkEnds(s, t, w, Len(s) + Len(t))
    BY <2>1, WalkExists
  <2>3. \A i \in 1..Len(s) + 1, j \in 1..Len(t) + 1 :
          i + j + (Len(s) + Len(t)) >= Len(s) + Len(t) + 2
    OBVIOUS
  <2>. QED  BY <2>2, <2>3, Zenon DEF WalkEnds
<1>2. PICK v : v = [at \in Pairs(s, t) |-> Turn(s, t, w, at[1], at[2])]
  OBVIOUS
<1>3. \A i \in 1..Len(s) + 1, j \in 1..Len(t) + 1 : v[<<i, j>>] = w[<<i, j>>]
  BY <1>1, <1>2, PairOf
<1>4. ASSUME NEW at \in Pairs(s, t)
      PROVE  Turn(s, t, v, at[1], at[2]) = Turn(s, t, w, at[1], at[2])
  <2>1. at[1] \in 1..Len(s) + 1 /\ at[2] \in 1..Len(t) + 1
    BY DEF Pairs
  <2>2. PICK i \in 1..Len(s) + 1, j \in 1..Len(t) + 1 : i = at[1] /\ j = at[2]
    BY <2>1
  <2>3. AgreeBehind(s, t, v, w, i, j)
    BY <1>3 DEF AgreeBehind
  <2>4. Turn(s, t, v, i, j) = Turn(s, t, w, i, j)
    BY <2>3, TurnLooksBehind
  <2>. QED  BY <2>2, <2>4
<1>5. v = [at \in Pairs(s, t) |-> Turn(s, t, v, at[1], at[2])]
  BY <1>2, <1>4, Zenon
<1>6. PICK u : /\ u = [at \in Pairs(s, t) |-> Turn(s, t, u, at[1], at[2])]
               /\ CommonItems(s, t) = u[<<1, 1>>]
  BY <1>5, Zenon DEF CommonItems, Turn, Pairs
<1>7. ASSUME NEW i \in 1..Len(s) + 1, NEW j \in 1..Len(t) + 1
      PROVE  u[<<i, j>>] = Turn(s, t, u, i, j)
  BY <1>6, PairOf
<1>. QED  BY <1>6, <1>7

\* How often x is in s from position i on.
From(s, i, x) == Cardinality(Spots(s, i, Len(s), x))

\* Whether x is the item e counts.
One(e, x) == IF e = x THEN 1 ELSE 0

LEMMA FromEnd ==
  ASSUME NEW s \in Seq(Int), NEW i \in Nat, i > Len(s), NEW x
  PROVE  From(s, i, x) = 0
<1>1. Spots(s, i, Len(s), x) = {}
  BY DEF Spots
<1>. QED  BY <1>1, FS_EmptySet DEF From

LEMMA FromNext ==
  ASSUME NEW s \in Seq(Int), NEW i \in 1..Len(s), NEW x
  PROVE  /\ From(s, i, x) = One(s[i], x) + From(s, i + 1, x)
         /\ From(s, i, x) \in Nat /\ From(s, i + 1, x) \in Nat
<1>1. PICK m \in Nat : m = Len(s) /\ i <= m
  OBVIOUS
<1>2. i \in Int /\ m \in Int /\ i + 1 \in Int /\ i <= i + 1 /\ i <= m
  BY <1>1
<1>3. Cardinality(Spots(s, i, m, x)) =
        Cardinality(Spots(s, i, i, x)) + Cardinality(Spots(s, i + 1, m, x))
  BY ONLY <1>2, SpotsSplit
<1>4. Cardinality(Spots(s, i, i, x)) = One(s[i], x)
  <2>1. CASE s[i] = x
    <3>1. Spots(s, i, i, x) = {i}
      BY <1>2, <2>1 DEF Spots
    <3>. QED  BY <2>1, <3>1, FS_Singleton DEF One
  <2>2. CASE s[i] # x
    <3>1. Spots(s, i, i, x) = {}
      BY <1>2, <2>2 DEF Spots
    <3>. QED  BY <2>2, <3>1, FS_EmptySet DEF One
  <2>. QED  BY <2>1, <2>2
<1>5. /\ Cardinality(Spots(s, i, m, x)) \in Nat
      /\ Cardinality(Spots(s, i + 1, m, x)) \in Nat
  BY ONLY <1>2, SpotsFinite
<1>. QED  BY <1>1, <1>3, <1>4, <1>5 DEF From

\* What is below an item is not behind it either.
LEMMA FromBelow ==
  ASSUME NEW s \in Seq(Int), Ascending(s), NEW i \in 1..Len(s), NEW x \in Int, x < s[i]
  PROVE  From(s, i, x) = 0
<1>1. ASSUME NEW q \in i..Len(s) PROVE s[q] # x
  <2>1. q \in 1..Len(s) /\ i <= q
    OBVIOUS
  <2>2. s[i] <= s[q] /\ s[q] \in Int /\ s[i] \in Int
    BY <2>1 DEF Ascending
  <2>. QED  BY <2>2
<1>2. Spots(s, i, Len(s), x) = {}
  BY <1>1 DEF Spots
<1>. QED  BY <1>2, FS_EmptySet DEF From

LEMMA FromIsNat ==
  ASSUME NEW s \in Seq(Int), NEW i \in Nat, NEW x
  PROVE  From(s, i, x) \in Nat
<1>1. PICK m : m = Len(s)
  OBVIOUS
<1>2. i \in Int /\ m \in Int
  BY <1>1
<1>3. Cardinality(Spots(s, i, m, x)) \in Nat
  BY ONLY <1>2, SpotsFinite
<1>. QED  BY <1>1, <1>3 DEF From

\* An item put before others is counted with them.
LEMMA CountFirst ==
  ASSUME NEW u \in Seq(Int), NEW e \in Int, NEW x
  PROVE  /\ Count(<<e>> \o u, x) = One(e, x) + Count(u, x)
         /\ Count(u, x) \in Nat
<1>1. PICK m \in Nat : m = Len(u)
  OBVIOUS
<1>2. PICK run : run = <<e>>
  OBVIOUS
<1>3. PICK v : v = run \o u
  OBVIOUS
<1>4. Widened(v, u, m, run, 1, 0)
  <2>1. DOMAIN u = 1..m /\ DOMAIN run = 1..1 /\ DOMAIN v = 1..m + 1
    BY <1>1, <1>2, <1>3
  <2>2. \A i \in 1..1 : v[i + 0] = run[i]
    BY <1>2, <1>3
  <2>3. \A i \in 0 + 1..m : v[i + 1] = u[i]
    BY <1>1, <1>2, <1>3
  <2>4. \A i \in 1..0 : v[i] = u[i]
    OBVIOUS
  <2>. QED  BY <2>1, <2>2, <2>3, <2>4 DEF Widened
<1>5. Count(v, x) = Count(u, x) + Count(run, x) /\ Count(u, x) \in Nat
  BY ONLY <1>4, CountWidened
<1>6. Count(run, x) = One(e, x)
  <2>1. CASE e = x
    <3>1. {i \in DOMAIN run : run[i] = x} = {1}
      BY <1>2, <2>1
    <3>. QED  BY <2>1, <3>1, FS_Singleton DEF Count, One
  <2>2. CASE e # x
    <3>1. {i \in DOMAIN run : run[i] = x} = {}
      BY <1>2, <2>2
    <3>. QED  BY <2>2, <3>1, FS_EmptySet DEF Count, One
  <2>. QED  BY <2>1, <2>2
<1>7. One(e, x) \in Nat
  BY DEF One
<1>. QED  BY <1>2, <1>3, <1>5, <1>6, <1>7

\* What a walk is to find from a pair of positions on: in ascending order and not
\* below the items there, each item as often as the sequence with fewer has it.
Shared(u, s, t, i, j) ==
  /\ u \in Seq(Int) /\ Ascending(u)
  /\ \A q \in 1..Len(u) :
       /\ i <= Len(s) /\ j <= Len(t)
       /\ s[i] <= u[q] /\ t[j] <= u[q]
  /\ \A x \in Int : Count(u, x) = Least(From(s, i, x), From(t, j, x))

LEMMA SharedAtEnd ==
  ASSUME NEW s \in Seq(Int), NEW t \in Seq(Int), NEW i \in 1..Len(s) + 1,
         NEW j \in 1..Len(t) + 1, i > Len(s) \/ j > Len(t)
  PROVE  Shared(<<>>, s, t, i, j)
<1>1. \A x : Count(<<>>, x) = 0
  BY FS_EmptySet DEF Count
<1>2. ASSUME NEW x \in Int PROVE Least(From(s, i, x), From(t, j, x)) = 0
  <2>1. From(s, i, x) \in Nat /\ From(t, j, x) \in Nat
    BY FromIsNat
  <2>2. From(s, i, x) = 0 \/ From(t, j, x) = 0
    BY FromEnd
  <2>. QED  BY <2>1, <2>2 DEF Least
<1>3. <<>> \in Seq(Int) /\ Len(<<>>) = 0 /\ Ascending(<<>>)
  BY DEF Ascending
<1>. QED  BY <1>1, <1>2, <1>3 DEF Shared

\* The lower item of s is left out: t does not have it any more.
LEMMA SharedBehindFirst ==
  ASSUME NEW s \in Seq(Int), NEW t \in Seq(Int), Ascending(s), Ascending(t),
         NEW i \in 1..Len(s), NEW j \in 1..Len(t), s[i] < t[j],
         NEW u, Shared(u, s, t, i + 1, j)
  PROVE  Shared(u, s, t, i, j)
<1>1. ASSUME NEW q \in 1..Len(u)
      PROVE  i <= Len(s) /\ j <= Len(t) /\ s[i] <= u[q] /\ t[j] <= u[q]
  <2>1. t[j] <= u[q] /\ u \in Seq(Int)
    BY DEF Shared
  <2>2. u[q] \in Int /\ t[j] \in Int /\ s[i] \in Int
    BY <2>1
  <2>3. PICK x \in Int, y \in Int, z \in Int :
          x = s[i] /\ y = t[j] /\ z = u[q] /\ x < y /\ y <= z
    BY <2>1, <2>2
  <2>4. x <= z
    BY ONLY <2>3, x \in Int, y \in Int, z \in Int
  <2>5. i <= Len(s) /\ j <= Len(t)
    OBVIOUS
  <2>. QED  BY <2>1, <2>3, <2>4, <2>5
<1>2. ASSUME NEW x \in Int
      PROVE  Count(u, x) = Least(From(s, i, x), From(t, j, x))
  <2>1. /\ From(s, i, x) = One(s[i], x) + From(s, i + 1, x)
        /\ From(s, i, x) \in Nat /\ From(s, i + 1, x) \in Nat /\ From(t, j, x) \in Nat
    BY FromNext, FromIsNat
  <2>2. Count(u, x) = Least(From(s, i + 1, x), From(t, j, x))
    BY DEF Shared
  <2>3. CASE s[i] = x
    <3>1. From(t, j, x) = 0
      BY <2>3, FromBelow
    <3>. QED  BY <2>1, <2>2, <3>1 DEF Least
  <2>4. CASE s[i] # x
    <3>1. From(s, i, x) = From(s, i + 1, x)
      BY <2>1, <2>4 DEF One
    <3>. QED  BY <2>2, <3>1
  <2>. QED  BY <2>3, <2>4
<1>. QED  BY <1>1, <1>2 DEF Shared

\* So is the lower item of t: the sequences may change places.
LEMMA SharedTurned ==
  ASSUME NEW s \in Seq(Int), NEW t \in Seq(Int), NEW i \in Nat, NEW j \in Nat,
         NEW u, Shared(u, s, t, i, j)
  PROVE  Shared(u, t, s, j, i)
<1>1. ASSUME NEW x \in Int
      PROVE  Count(u, x) = Least(From(t, j, x), From(s, i, x))
  <2>1. From(s, i, x) \in Nat /\ From(t, j, x) \in Nat
    BY FromIsNat
  <2>2. Count(u, x) = Least(From(s, i, x), From(t, j, x))
    BY DEF Shared
  <2>. QED  BY <2>1, <2>2 DEF Least
<1>. QED  BY <1>1 DEF Shared

\* An item of both is kept.
LEMMA SharedFirst ==
  ASSUME NEW s \in Seq(Int), NEW t \in Seq(Int), Ascending(s), Ascending(t),
         NEW i \in 1..Len(s), NEW j \in 1..Len(t), s[i] = t[j],
         NEW u, Shared(u, s, t, i + 1, j + 1)
  PROVE  Shared(<<s[i]>> \o u, s, t, i, j)
<1>1. PICK e \in Int : e = s[i] /\ e = t[j]
  OBVIOUS
<1>2. PICK v : v = <<e>> \o u
  OBVIOUS
<1>3. u \in Seq(Int) /\ Ascending(u)
  BY DEF Shared
<1>4. /\ v \in Seq(Int) /\ Len(v) = Len(u) + 1 /\ v[1] = e
      /\ \A q \in 2..Len(v) : v[q] = u[q - 1] /\ q - 1 \in 1..Len(u)
  BY <1>2, <1>3
<1>5. ASSUME NEW q \in 1..Len(u) PROVE e <= u[q]
  <2>1. i + 1 <= Len(s) /\ s[i + 1] <= u[q]
    BY DEF Shared
  <2>2. PICK k \in 1..Len(s) : k = i + 1 /\ i <= k
    <3>1. i \in Nat /\ i + 1 \in 1..Len(s)
      BY <2>1
    <3>. QED  BY <3>1
  <2>3. s[k] \in Int /\ u[q] \in Int
    <3>1. u \in Seq(Int) /\ q \in 1..Len(u)
      BY <1>3
    <3>2. u[q] \in Int
      BY ONLY <3>1
    <3>3. s[k] \in Int
      BY ONLY s \in Seq(Int), k \in 1..Len(s)
    <3>. QED  BY <3>2, <3>3
  <2>4. s[i] <= s[k]
    BY <2>2 DEF Ascending
  <2>5. PICK y \in Int, z \in Int : y = s[k] /\ z = u[q] /\ e <= y /\ y <= z
    BY <1>1, <2>1, <2>2, <2>3, <2>4
  <2>6. e <= z
    BY ONLY <2>5, e \in Int, y \in Int, z \in Int
  <2>. QED  BY <2>5, <2>6
<1>6. ASSUME NEW q \in 1..Len(v) PROVE e <= v[q]
  <2>1. CASE q = 1
    BY <1>1, <1>4, <2>1
  <2>2. CASE q # 1
    <3>1. q \in 2..Len(v)
      BY <2>2
    <3>. QED  BY <1>4, <1>5, <3>1
  <2>. QED  BY <2>1, <2>2
<1>7. ASSUME NEW p \in 1..Len(v), NEW q \in 1..Len(v), p <= q PROVE v[p] <= v[q]
  <2>1. CASE p = 1
    BY <1>4, <1>6, <2>1
  <2>2. CASE p # 1
    <3>1. p \in 2..Len(v) /\ q \in 2..Len(v) /\ p - 1 <= q - 1
      BY <1>4, <1>7, <2>2
    <3>2. u[p - 1] <= u[q - 1]
      BY <1>3, <1>4, <3>1 DEF Ascending
    <3>. QED  BY <1>4, <3>1, <3>2
  <2>. QED  BY <2>1, <2>2
<1>8. ASSUME NEW x \in Int
      PROVE  Count(v, x) = Least(From(s, i, x), From(t, j, x))
  <2>1. /\ From(s, i, x) = One(e, x) + From(s, i + 1, x)
        /\ From(t, j, x) = One(e, x) + From(t, j + 1, x)
        /\ From(s, i + 1, x) \in Nat /\ From(t, j + 1, x) \in Nat
    BY <1>1, FromNext
  <2>2. Count(v, x) = One(e, x) + Count(u, x)
    BY <1>2, <1>3, CountFirst
  <2>3. Count(u, x) = Least(From(s, i + 1, x), From(t, j + 1, x))
    BY DEF Shared
  <2>4. One(e, x) \in Nat
    BY DEF One
  <2>5. PICK b \in Nat, c \in Nat, d \in Nat :
          b = One(e, x) /\ c = From(s, i + 1, x) /\ d = From(t, j + 1, x)
    BY <2>1, <2>4
  <2>6. Least(b + c, b + d) = b + Least(c, d)
    BY ONLY b \in Nat, c \in Nat, d \in Nat DEF Least
  <2>. QED  BY ONLY <2>1, <2>2, <2>3, <2>5, <2>6
<1>9. Ascending(v)
  BY <1>7 DEF Ascending
<1>10. \A q \in 1..Len(v) : i <= Len(s) /\ j <= Len(t) /\ s[i] <= v[q] /\ t[j] <= v[q]
  BY <1>1, <1>6
<1>11. Shared(v, s, t, i, j)
  BY <1>4, <1>8, <1>9, <1>10 DEF Shared
<1>. QED  BY <1>1, <1>2, <1>11

\* A turn finds what it is to find if the walk does behind its pair.
LEMMA TurnShares ==
  ASSUME NEW s \in Seq(Int), NEW t \in Seq(Int), Ascending(s), Ascending(t), NEW w,
         NEW i \in 1..Len(s) + 1, NEW j \in 1..Len(t) + 1,
         \A a \in 1..Len(s) + 1, b \in 1..Len(t) + 1 :
           a + b > i + j => Shared(w[<<a, b>>], s, t, a, b)
  PROVE  Shared(Turn(s, t, w, i, j), s, t, i, j)
<1>1. CASE i > Len(s) \/ j > Len(t)
  <2>1. Turn(s, t, w, i, j) = <<>>
    BY <1>1, Zenon DEF Turn
  <2>. QED  BY <1>1, <2>1, SharedAtEnd
<1>2. CASE ~(i > Len(s) \/ j > Len(t))
  <2>0. i \in 1..Len(s) /\ j \in 1..Len(t)
    BY <1>2
  <2>1. /\ i \in 1..Len(s) /\ j \in 1..Len(t) /\ s[i] \in Int /\ t[j] \in Int
        /\ i + 1 \in 1..Len(s) + 1 /\ j + 1 \in 1..Len(t) + 1
        /\ i + 1 + j > i + j /\ i + (j + 1) > i + j /\ i + 1 + (j + 1) > i + j
    <3>1. s[i] \in Int /\ t[j] \in Int
      BY <2>0
    <3>2. PICK m \in Nat, l \in Nat : m = Len(s) /\ l = Len(t)
      OBVIOUS
    <3>3. i \in 1..m /\ j \in 1..l
      BY ONLY <2>0, <3>2
    <3>4. /\ i + 1 \in 1..m + 1 /\ j + 1 \in 1..l + 1
          /\ i + 1 + j > i + j /\ i + (j + 1) > i + j /\ i + 1 + (j + 1) > i + j
      BY ONLY <3>3, m \in Nat, l \in Nat
    <3>. QED  BY <2>0, <3>1, <3>2, <3>4
  <2>2. CASE s[i] < t[j]
    <3>1. Turn(s, t, w, i, j) = w[<<i + 1, j>>]
      BY <1>2, <2>2, Zenon DEF Turn
    <3>2. Shared(w[<<i + 1, j>>], s, t, i + 1, j)
      BY <2>1
    <3>. QED  BY <2>1, <2>2, <3>1, <3>2, SharedBehindFirst
  <2>3. CASE t[j] < s[i]
    <3>1. ~(s[i] < t[j])
      BY <2>1, <2>3
    <3>2. Turn(s, t, w, i, j) = w[<<i, j + 1>>]
      BY <1>2, <2>3, <3>1, Zenon DEF Turn
    <3>3. PICK u : u = w[<<i, j + 1>>]
      OBVIOUS
    <3>4. Shared(u, s, t, i, j + 1)
      BY <2>1, <3>3
    <3>5. i \in Nat /\ j \in Nat /\ j + 1 \in Nat
      BY <2>1
    <3>6. Shared(u, t, s, j + 1, i)
      BY <3>4, <3>5, SharedTurned
    <3>7. Shared(u, t, s, j, i)
      BY <2>1, <2>3, <3>6, SharedBehindFirst
    <3>8. Shared(u, s, t, i, j)
      BY <3>5, <3>7, SharedTurned
    <3>. QED  BY <3>2, <3>3, <3>8
  <2>4. CASE s[i] = t[j]
    <3>1. ~(s[i] < t[j]) /\ ~(t[j] < s[i])
      BY <2>1, <2>4
    <3>2. Turn(s, t, w, i, j) = <<s[i]>> \o w[<<i + 1, j + 1>>]
      BY <1>2, <3>1, Zenon DEF Turn
    <3>3. PICK u : u = w[<<i + 1, j + 1>>]
      OBVIOUS
    <3>4. Shared(u, s, t, i + 1, j + 1)
      BY <2>1, <3>3
    <3>5. Shared(<<s[i]>> \o u, s, t, i, j)
      BY <2>1, <2>4, <3>4, SharedFirst
    <3>. QED  BY <3>2, <3>3, <3>5
  <2>5. s[i] < t[j] \/ t[j] < s[i] \/ s[i] = t[j]
    <3>1. PICK x \in Int, y \in Int : x = s[i] /\ y = t[j]
      BY <2>1
    <3>2. x < y \/ y < x \/ x = y
      OBVIOUS
    <3>. QED  BY <3>1, <3>2, Zenon
  <2>. QED  BY <2>2, <2>3, <2>4, <2>5
<1>. QED  BY <1>1, <1>2

\* std::set_intersection keeps what two ascending sequences have in common.
LEMMA CommonShared ==
  ASSUME NEW s \in Seq(Int), NEW t \in Seq(Int), Ascending(s), Ascending(t)
  PROVE  Shared(CommonItems(s, t), s, t, 1, 1)
<1>1. PICK w : /\ CommonItems(s, t) = w[<<1, 1>>]
               /\ \A i \in 1..Len(s) + 1, j \in 1..Len(t) + 1 :
                    w[<<i, j>>] = Turn(s, t, w, i, j)
  BY CommonWalked
<1>. DEFINE S == {d \in Nat : \A i \in 1..Len(s) + 1, j \in 1..Len(t) + 1 :
                    i + j + d >= Len(s) + Len(t) + 2 =>
                      Shared(w[<<i, j>>], s, t, i, j)}
<1>2. 0 \in S
  <2>1. ASSUME NEW i \in 1..Len(s) + 1, NEW j \in 1..Len(t) + 1,
               i + j + 0 >= Len(s) + Len(t) + 2
        PROVE  Shared(w[<<i, j>>], s, t, i, j)
    <3>1. i > Len(s)
      BY <2>1
    <3>2. w[<<i, j>>] = <<>>
      BY <1>1, <3>1 DEF Turn
    <3>. QED  BY <3>1, <3>2, SharedAtEnd
  <2>. QED  BY <2>1
<1>3. ASSUME NEW d \in Nat, d \in S PROVE d + 1 \in S
  <2>1. ASSUME NEW i \in 1..Len(s) + 1, NEW j \in 1..Len(t) + 1,
               i + j + (d + 1) >= Len(s) + Len(t) + 2
        PROVE  Shared(w[<<i, j>>], s, t, i, j)
    <3>1. ASSUME NEW a \in 1..Len(s) + 1, NEW b \in 1..Len(t) + 1, a + b > i + j
          PROVE  Shared(w[<<a, b>>], s, t, a, b)
      <4>1. a + b + d >= Len(s) + Len(t) + 2
        BY <2>1, <3>1
      <4>. QED  BY <1>3, <4>1
    <3>2. Shared(Turn(s, t, w, i, j), s, t, i, j)
      BY <3>1, TurnShares
    <3>. QED  BY <1>1, <3>2
  <2>. QED  BY <2>1
<1>. HIDE DEF S
<1>4. Nat \subseteq S
  BY <1>2, <1>3, NatSetInduction
<1>5. PICK d \in Nat : d = Len(s) + Len(t)
  OBVIOUS
<1>6. /\ 1 \in 1..Len(s) + 1 /\ 1 \in 1..Len(t) + 1
      /\ 1 + 1 + d >= Len(s) + Len(t) + 2
  BY <1>5
<1>7. d \in S
  BY <1>4
<1>8. Shared(w[<<1, 1>>], s, t, 1, 1)
  BY <1>6, <1>7, Zenon DEF S
<1>. QED  BY <1>1, <1>8

\* What is held of an array that no CLEAR has damaged is in ascending order.
LEMMA HeldIsOrdered ==
  ASSUME IInv, ~damaged, NEW n \in Name
  PROVE  Held(arrays[n]) \in Seq(Int) /\ Ascending(Held(arrays[n]))
<1>1. PICK size \in 0..MaxCapacity, used \in 0..UsedBound :
        \E slots \in [0..size - 1 -> Cell] :
          /\ arrays[n] = [size |-> size, used |-> used, slots |-> slots]
          /\ ~damaged => used <= size /\ Rising(slots, used)
  BY ArrayParts
<1>2. PICK slots \in [0..size - 1 -> Cell] :
        /\ arrays[n] = [size |-> size, used |-> used, slots |-> slots]
        /\ used <= size /\ Rising(slots, used)
  BY <1>1
<1>3. PICK a : a = arrays[n]
  OBVIOUS
<1>4. /\ size \in Nat /\ used \in Nat /\ slots \in [0..size - 1 -> Cell]
      /\ a = [size |-> size, used |-> used, slots |-> slots]
      /\ used <= size /\ Rising(slots, used)
  BY <1>2, <1>3
<1>5. /\ Held(a) \in Seq(Cell) /\ Len(Held(a)) = used
      /\ \A i, j \in 1..used : i <= j => Held(a)[i] <= Held(a)[j]
  BY ONLY <1>4, HeldAscends
<1>6. Held(a) \in Seq(Int)
  <2>1. PICK h : h = Held(a)
    OBVIOUS
  <2>2. h \in Seq(Cell) /\ h \in [1..Len(h) -> Cell] /\ Len(h) \in Nat
    BY <1>5, <2>1, LenProperties
  <2>3. h \in [1..Len(h) -> Int]
    BY ONLY <2>2, CellsAreIntegers
  <2>4. h \in Seq(Int)
    BY ONLY <2>2, <2>3
  <2>. QED  BY <2>1, <2>4
<1>. QED  BY <1>3, <1>5, <1>6 DEF Ascending

\* Of a whole sequence, From and Count are the same.
LEMMA FromFirst ==
  ASSUME NEW s \in Seq(Int), NEW x
  PROVE  From(s, 1, x) = Count(s, x)
<1>1. DOMAIN s = 1..Len(s)
  OBVIOUS
<1>. QED  BY <1>1 DEF From, Count, Spots

LEMMA IntersectAnswers ==
  ASSUME IInv, NEW n \in Name, NEW m \in Name, Intersect(n, m)
  PROVE  IntersectIsCommon'
<1>. SUFFICES ASSUME rsp'.st = "Ok", ~damaged'
              PROVE  /\ Ascending(rsp'.items)
                     /\ \A x \in Cell :
                          Count(rsp'.items, x) =
                            Least(Count(Held(arrays'[rsp'.name]), x),
                                  Count(Held(arrays'[rsp'.args[1]]), x))
  BY DEF IntersectIsCommon
<1>1. /\ ~Refuse("INTERSECT", n, "Duplicate")
      /\ ~Refuse("INTERSECT", n, "NotExist")
  BY DEF Refuse, Reply
<1>2. Show("INTERSECT", n, <<m>>, CommonItems(Held(arrays[n]), Held(arrays[m])))
  BY <1>1 DEF Intersect
<1>3. /\ rsp'.name = n /\ rsp'.args = <<m>>
      /\ rsp'.items = CommonItems(Held(arrays[n]), Held(arrays[m]))
      /\ arrays' = arrays /\ damaged' = damaged
  BY <1>2 DEF Show, Reply
<1>4. ~damaged
  BY <1>3, Zenon
<1>5. PICK s, t : s = Held(arrays[n]) /\ t = Held(arrays[m])
  OBVIOUS
<1>6. /\ s \in Seq(Int) /\ Ascending(s)
      /\ t \in Seq(Int) /\ Ascending(t)
  BY <1>4, <1>5, HeldIsOrdered
<1>7. PICK u : u = CommonItems(s, t)
  OBVIOUS
<1>8. Shared(u, s, t, 1, 1)
  BY <1>6, <1>7, CommonShared
<1>9. ASSUME NEW x \in Cell
      PROVE  Count(u, x) = Least(Count(s, x), Count(t, x))
  <2>1. x \in Int
    BY CellsAreIntegers
  <2>2. Count(u, x) = Least(From(s, 1, x), From(t, 1, x))
    BY <1>8, <2>1, Zenon DEF Shared
  <2>. QED  BY <1>6, <2>2, FromFirst
<1>10. Ascending(u)
  BY <1>8 DEF Shared
<1>11. /\ rsp'.items = u /\ rsp'.args[1] = m
       /\ arrays'[rsp'.name] = arrays[n] /\ arrays'[m] = arrays[m]
  BY <1>3, <1>5, <1>7
<1>. QED  BY <1>5, <1>9, <1>10, <1>11, Zenon

LEMMA IntersectStep ==
  ASSUME IInv, NoAnswerYet, IntersectIsCommon, [Next]_vars
  PROVE  IntersectIsCommon'
<1>1. rsp'.cmd # "INTERSECT" => IntersectIsCommon'
  BY DEF IntersectIsCommon
<1>2. CASE UNCHANGED vars
  BY <1>2 DEF vars, IntersectIsCommon
<1>3. CASE MergeRun
  <2>1. rsp' = NoRsp
    BY <1>3 DEF MergeRun, Merging, NoAnswerYet
  <2>. QED  BY <1>1, <2>1 DEF NoRsp
<1>4. ASSUME NEW n \in Name, NEW m \in Name, Intersect(n, m)
      PROVE  IntersectIsCommon'
  BY <1>4, IntersectAnswers
<1>. QED  BY <1>1, <1>2, <1>3, <1>4, OtherAnswers DEF Next

\* INTERSECT answers what both arrays hold, each item as often as the array with
\* fewer of it holds it, in ascending order.
THEOREM IntersectsCommon == Spec => []IntersectIsCommon
<1>1. Init => IntersectIsCommon
  BY DEF Init, ArrInit, IntersectIsCommon, NoRsp
<1>2. IInv /\ NoAnswerYet /\ IntersectIsCommon /\ [Next]_vars => IntersectIsCommon'
  BY IntersectStep
<1>3. Spec => []NoAnswerYet
  BY AnswersInvariance, PTL
<1>. QED  BY <1>1, <1>2, <1>3, Invariance, PTL DEF Spec

-----------------------------------------------------------------------------
(* What reaches outside the storage of an array.                           *)

\* A process that runs and has written nothing outside a storage ends, or does.
Reaching == process = "running" /\ ~damaged /\ (process' = "down" \/ damaged')

\* What OnlyKnownDamage says of such a step.
KnownReach ==
  LET a == arrays[rsp'.name]
      args == rsp'.args
  IN  \/ /\ rsp'.cmd = "CLEAR"
         /\ args[1] > a.used \/ (args[2] # NoStop /\ args[1] > args[2])
      \/ /\ rsp'.cmd = "SET_RNG" /\ ~damaged' /\ a.used > 0
         /\ args = <<>> \/ args[Len(args)] <= a.slots[a.used - 1]

LEMMA ReachingEnds ==
  ASSUME Reaching
  PROVE  /\ ~UNCHANGED <<process, damaged>>
         /\ \A cmd, n, args, a : ~Update(cmd, n, args, a)
         /\ \A cmd, n, args, items : ~Show(cmd, n, args, items)
         /\ \A cmd, n, st : ~Refuse(cmd, n, st)
         /\ \A cmd, n : ~NotExist(cmd, n)
<1>1. ~UNCHANGED <<process, damaged>>
  <2>1. ASSUME process' = process, damaged' = damaged PROVE FALSE
    <3>1. process' # "down"
      BY <2>1 DEF Reaching
    <3>2. damaged' /\ ~damaged
      BY <3>1, Zenon DEF Reaching
    <3>. QED  BY <2>1, <3>2, Zenon
  <2>. QED  BY <2>1, Zenon
<1>. QED  BY <1>1 DEF Update, Show, Refuse, NotExist

LEMMA ClearReaches ==
  ASSUME IInv, Reaching, NEW n \in Name, NEW start \in Nat,
         NEW stop \in Nat \cup {NoStop}, Clear(n, start, stop)
  PROVE  KnownReach
<1>0. PICK size \in 0..MaxCapacity, used \in 0..UsedBound :
        \E slots \in [0..size - 1 -> Cell] :
          /\ arrays[n] = [size |-> size, used |-> used, slots |-> slots]
          /\ ~damaged => used <= size /\ Rising(slots, used)
  BY ArrayParts
<1>1. PICK slots \in [0..size - 1 -> Cell] :
        /\ arrays[n] = [size |-> size, used |-> used, slots |-> slots]
        /\ used <= size
  BY <1>0 DEF Reaching
<1>2. ~NotExist("CLEAR", n) /\ ~Refuse("CLEAR", n, "Bounds")
  BY ReachingEnds
<1>3. PICK pivot \in Nat, left \in Nat :
        /\ pivot = Least(used, StopOf(arrays[n], stop))
        /\ pivot <= used /\ start < size
        /\ ClearEnds(n, start, stop, size, used, slots, pivot, left)
  <2>1. size \in Nat /\ used \in Nat
    OBVIOUS
  <2>. QED  BY <1>1, <1>2, <2>1, ClearShape
<1>4. /\ start > pivot \/ pivot > size
      /\ Overrun("CLEAR", n, <<start, stop>>, left, [0..size - 1 -> Junk])
  BY <1>3, ReachingEnds DEF ClearEnds
<1>5. rsp'.cmd = "CLEAR" /\ rsp'.name = n /\ rsp'.args = <<start, stop>>
  BY <1>4 DEF Overrun, Die, Reply
<1>6. start > used \/ (stop # NoStop /\ start > stop)
  <2>1. arrays[n].size = size
    BY <1>1
  <2>. QED  BY <1>1, <1>3, <1>4, <2>1 DEF Least, StopOf, NoStop
<1>7. rsp'.args[1] = start /\ rsp'.args[2] = stop /\ arrays[rsp'.name].used = used
  BY <1>1, <1>5
<1>. QED  BY <1>5, <1>6, <1>7 DEF KnownReach

\* The loop of a SET_RNG runs over the end of its items when no item is left and
\* the array still has one that is not below the last.
LEMMA OverreadReaches ==
  ASSUME IInv, Reaching, MergeOverread
  PROVE  KnownReach
<1>1. /\ merge # NoMerge /\ merge.lower < Merged.used /\ Remaining > 0
      /\ IsRun(Remaining) /\ Die("SET_RNG", merge.name, merge.items)
  BY DEF MergeOverread, Merging
<1>2. PICK n \in Name, items \in SortedBatch, k \in Nat, lower \in Nat :
        merge = [name |-> n, items |-> items, next |-> k, lower |-> lower]
  BY <1>1, MergeParts
<1>3. /\ merge.name = n /\ merge.items = items /\ merge.next = k
      /\ merge.lower = lower
  BY <1>2
<1>4. /\ Len(items) \in Nat /\ k \in 1..Len(items) + 1
      /\ Remaining \in Nat /\ Remaining = Len(items) - k + 1
  BY <1>1, <1>3, MergeParts
<1>5. PICK size \in 0..MaxCapacity, used \in 0..UsedBound :
        \E slots \in [0..size - 1 -> Cell] :
          /\ arrays[n] = [size |-> size, used |-> used, slots |-> slots]
          /\ ~damaged => used <= size /\ Rising(slots, used)
  BY ArrayParts
<1>6. PICK slots \in [0..size - 1 -> Cell] :
        /\ arrays[n] = [size |-> size, used |-> used, slots |-> slots]
        /\ used <= size /\ Rising(slots, used)
  BY <1>5 DEF Reaching
<1>7. /\ arrays[n].used = used /\ arrays[n].slots = slots
      /\ Merged.used = used /\ Merged.slots = slots
  BY <1>3, <1>6 DEF Merged
<1>8. items[Len(items)] <= slots[lower]
  <2>1. PICK r \in Nat : r = Remaining /\ r > 0 /\ k + (r - 1) = Len(items)
    BY <1>1, <1>4
  <2>2. \A i \in 0..r - 1 : items[k + i] <= slots[lower]
    BY <1>1, <1>3, <1>7, <2>1 DEF IsRun
  <2>3. r - 1 \in 0..r - 1
    BY <2>1
  <2>4. items[k + (r - 1)] <= slots[lower]
    BY <2>2, <2>3
  <2>. QED  BY <2>1, <2>4
<1>9. /\ used > 0
      /\ slots[lower] <= slots[used - 1]
  <2>1. lower \in 0..used - 1 /\ used - 1 \in 0..used - 1 /\ lower <= used - 1
    BY <1>1, <1>3, <1>7
  <2>. QED  BY <1>6, <2>1 DEF Rising
<1>10. items[Len(items)] \in Int /\ slots[lower] \in Int /\ slots[used - 1] \in Int
  <2>1. items \in Seq(Item) /\ Len(items) \in 1..Len(items)
    BY <1>1, <1>4, BatchIsSeq DEF SortedBatch
  <2>2. items[Len(items)] \in Item
    BY <2>1
  <2>3. lower \in 0..size - 1 /\ used - 1 \in 0..size - 1
    BY <1>1, <1>3, <1>6, <1>7, <1>9
  <2>4. slots[lower] \in Cell /\ slots[used - 1] \in Cell
    BY <2>3
  <2>. QED  BY <2>2, <2>4, CellsAreIntegers DEF Cell
<1>11. items[Len(items)] <= slots[used - 1]
  BY <1>8, <1>9, <1>10
<1>12. /\ rsp'.cmd = "SET_RNG" /\ rsp'.name = n /\ rsp'.args = items
       /\ damaged' = FALSE
  BY <1>1, <1>3 DEF Die, Reply
<1>. QED  BY <1>7, <1>9, <1>11, <1>12 DEF KnownReach

LEMMA BeginMergeReaches ==
  ASSUME Reaching, NEW n \in Name, NEW items, BeginMerge(n, items)
  PROVE  KnownReach
<1>1. /\ Die("SET_RNG", n, items)
      /\ items = <<>> /\ arrays[n].used > 0
  BY ReachingEnds DEF BeginMerge
<1>2. /\ rsp'.cmd = "SET_RNG" /\ rsp'.name = n /\ rsp'.args = <<>>
      /\ damaged' = FALSE
  BY <1>1 DEF Die, Reply
<1>. QED  BY <1>1, <1>2 DEF KnownReach

\* Only two commands reach outside the storage of an array that is in order:
\* CLEAR, and SET_RNG without an item above the highest one held (Array::clear,
\* Array::setRange).
THEOREM DamageIsKnown == Spec => OnlyKnownDamage
<1>1. ASSUME IInv, Next, Reaching PROVE KnownReach
  <2>1. ~Start /\ ~MergeRun
    BY <1>1, ReachingEnds DEF Start, MergeRun, Reaching
  <2>2. ~MergeRest
    BY <1>1, ReachingEnds DEF MergeRest
  <2>3. \A n, x : ~Set(n, x)
    BY <1>1, ReachingEnds DEF Set
  <2>4. \A n, k : ~Min(n, k) /\ ~Max(n, k)
    BY <1>1, ReachingEnds DEF Min, Max, Extremes
  <2>5. \A n, m : ~Intersect(n, m)
    BY <1>1, ReachingEnds DEF Intersect
  <2>6. ASSUME Command PROVE KnownReach
    <3>1. ~DeleteAll
      BY <1>1, ReachingEnds DEF DeleteAll
    <3>2. \A n, len, pos : ~Create(n, len) /\ ~Delete(n) /\ ~Get(n, pos)
      BY <1>1, ReachingEnds DEF Create, Delete, Get
    <3>3. \A n, start, stop : ~GetRange(n, start, stop)
      BY <1>1, ReachingEnds DEF GetRange
    <3>4. PICK n \in Name :
            \E start \in Positions[n], stop \in Positions[n] \cup {NoStop} :
              Clear(n, start, stop)
      BY <2>6, <3>1, <3>2, <3>3 DEF Command
    <3>5. PICK start \in Positions[n], stop \in Positions[n] \cup {NoStop} :
            Clear(n, start, stop)
      BY <3>4
    <3>6. start \in Nat /\ stop \in Nat \cup {NoStop}
      BY <3>5, PositionsAssumption
    <3>. QED  BY <1>1, <3>5, <3>6, ClearReaches
  <2>7. CASE MergeOverread
    BY <1>1, <2>7, OverreadReaches
  <2>8. ASSUME NEW n \in Name, NEW sent, SetRange(n, sent) PROVE KnownReach
    <3>1. \A items : BeginMerge(n, items) => KnownReach
      BY <1>1, BeginMergeReaches
    <3>. QED  BY <1>1, <2>8, <3>1, ReachingEnds DEF SetRange, Unconverted
  <2>. QED  BY <1>1, <2>1, <2>2, <2>3, <2>4, <2>5, <2>6, <2>7, <2>8, Zenon DEF Next
<1>2. IInv /\ [Next]_vars => [Reaching => KnownReach]_vars
  BY <1>1
<1>3. [Reaching => KnownReach]_vars =>
      [process = "running" /\ ~damaged /\ (process' = "down" \/ damaged') =>
         LET a == arrays[rsp'.name]
             args == rsp'.args
         IN  \/ /\ rsp'.cmd = "CLEAR"
                /\ args[1] > a.used \/ (args[2] # NoStop /\ args[1] > args[2])
             \/ /\ rsp'.cmd = "SET_RNG" /\ ~damaged' /\ a.used > 0
                /\ args = <<>> \/ args[Len(args)] <= a.slots[a.used - 1]]_vars
  BY DEF Reaching, KnownReach
<1>. QED  BY <1>2, <1>3, Invariance, PTL DEF Spec, OnlyKnownDamage

-----------------------------------------------------------------------------
(* How the loop of SET_RNG comes to its end: what MergeEnds rests on.      *)

LEMMA LeastOf ==
  ASSUME NEW S \in SUBSET Nat, S # {}
  PROVE  \E x \in S : \A y \in S : x <= y
<1>1. PICK R : R = OpToRel(<, Nat)
  OBVIOUS
<1>2. \A x, y \in Nat : x < y => <<x, y>> \in R
  BY <1>1, Zenon DEF OpToRel
<1>3. IsWellFoundedOn(R, Nat)
  BY <1>1, NatLessThanWellFounded, Zenon
<1>4. PICK x \in S : \A y \in S : <<y, x>> \notin R
  BY <1>3, WFMin
<1>5. \A y \in S : x <= y
  <2>1. x \in Nat
    OBVIOUS
  <2>2. ASSUME NEW y \in S, ~(x <= y) PROVE FALSE
    <3>1. y \in Nat /\ y < x
      BY <2>1, <2>2
    <3>. QED  BY <1>2, <1>4, <2>1, <3>1
  <2>. QED  BY <2>2
<1>. QED  BY <1>5

\* A lower bound exists in whatever order the slots are.
LEMMA LowerBoundExists ==
  ASSUME NEW slots, NEW first \in Nat, NEW last \in Nat, first <= last,
         NEW x \in Int, \A i \in first..last - 1 : slots[i] \in Int
  PROVE  \E p \in first..last : IsLowerBound(slots, first, last, x, p)
<1>. DEFINE S == {p \in first..last : p < last => slots[p] >= x}
<1>1. S \in SUBSET Nat /\ last \in S
  OBVIOUS
<1>2. PICK p \in S : \A q \in S : p <= q
  BY <1>1, LeastOf
<1>3. \A i \in first..p - 1 : slots[i] < x
  <2>1. SUFFICES ASSUME NEW i \in first..p - 1, ~(slots[i] < x) PROVE FALSE
    OBVIOUS
  <2>2. i \in first..last - 1 /\ slots[i] \in Int
    BY <1>2
  <2>3. i \in S
    BY <2>1, <2>2
  <2>. QED  BY <1>2, <2>3
<1>. QED  BY <1>2, <1>3 DEF IsLowerBound

\* The items the next turn stores: those up to the first that is above the slot.
LEMMA RunExists ==
  ASSUME NEW x \in Int, Remaining \in Nat,
         \A i \in 0..Remaining - 1 : merge.items[merge.next + i] \in Int,
         Merged.slots[merge.lower] = x
  PROVE  \E r \in 0..Remaining : IsRun(r)
<1>. DEFINE S == {r \in 0..Remaining :
                    r < Remaining => merge.items[merge.next + r] > x}
<1>1. S \in SUBSET Nat /\ Remaining \in S
  OBVIOUS
<1>2. PICK r \in S : \A q \in S : r <= q
  BY <1>1, LeastOf
<1>3. \A i \in 0..r - 1 : merge.items[merge.next + i] <= x
  <2>1. SUFFICES ASSUME NEW i \in 0..r - 1, ~(merge.items[merge.next + i] <= x)
                 PROVE  FALSE
    OBVIOUS
  <2>2. i \in 0..Remaining - 1 /\ merge.items[merge.next + i] \in Int
    BY <1>2
  <2>3. i \in S
    BY <2>1, <2>2
  <2>. QED  BY <1>2, <2>3
<1>. QED  BY <1>2, <1>3 DEF IsRun

\* What is known of a loop that is to take a turn.
LEMMA MergingParts ==
  ASSUME IInv, Merging
  PROVE  /\ merge # NoMerge /\ merge.lower \in Nat
         /\ Remaining \in Nat \ {0}
         /\ merge.next \in Nat /\ Remaining = Len(merge.items) - merge.next + 1
         /\ \A i \in 0..Remaining - 1 : merge.items[merge.next + i] \in Item
         /\ Merged.slots[merge.lower] \in Int
         /\ merge.items[merge.next] <= Merged.slots[merge.lower]
         /\ \E size \in Nat, used \in Nat :
              /\ Merged.size = size /\ Merged.used = used
              /\ merge.lower < used /\ used + Remaining <= size
              /\ Merged.slots \in [0..size - 1 -> Cell]
<1>1. merge # NoMerge /\ merge.lower < Merged.used /\ Remaining > 0
  BY DEF Merging
<1>2. /\ merge.name \in Name /\ merge.items \in SortedBatch
      /\ Len(merge.items) \in Nat /\ merge.next \in 1..Len(merge.items) + 1
      /\ merge.lower \in Nat
      /\ Remaining \in Nat /\ Remaining = Len(merge.items) - merge.next + 1
  BY <1>1, MergeParts
<1>3. PICK n \in Name : n = merge.name
  BY <1>2
<1>4. PICK size \in 0..MaxCapacity, used \in 0..UsedBound :
        \E slots \in [0..size - 1 -> Cell] :
          /\ arrays[n] = [size |-> size, used |-> used, slots |-> slots]
          /\ ~damaged => used <= size /\ Rising(slots, used)
  BY ArrayParts
<1>5. /\ Merged.size = size /\ Merged.used = used
      /\ Merged.slots \in [0..size - 1 -> Cell]
  BY <1>3, <1>4 DEF Merged
<1>6. /\ used + Remaining <= size
      /\ IsLowerBound(Merged.slots, 0, used, merge.items[merge.next], merge.lower)
  BY <1>1, <1>5 DEF IInv, MergeFits
<1>7. size \in Nat /\ used \in Nat /\ merge.lower \in 0..size - 1
  BY <1>1, <1>2, <1>5, <1>6, MaxCapacityAssumption, UsedBoundAssumption
<1>8. \A i \in 0..Remaining - 1 : merge.items[merge.next + i] \in Item
  <2>1. merge.items \in Seq(Item)
    BY <1>2, BatchIsSeq DEF SortedBatch
  <2>2. \A i \in 1..Len(merge.items) : merge.items[i] \in Item
    BY <2>1
  <2>3. \A i \in 0..Remaining - 1 : merge.next + i \in 1..Len(merge.items)
    BY <1>2
  <2>. QED  BY <2>2, <2>3
<1>9. Merged.slots[merge.lower] \in Int
  BY <1>5, <1>7, CellsAreIntegers
<1>10. merge.items[merge.next] <= Merged.slots[merge.lower]
  <2>1. merge.items[merge.next + 0] \in Item /\ merge.next + 0 = merge.next
    BY <1>1, <1>2, <1>8
  <2>2. merge.items[merge.next] \in Int
    BY <2>1, ItemAssumption
  <2>3. Merged.slots[merge.lower] >= merge.items[merge.next]
    BY <1>1, <1>5, <1>6 DEF IsLowerBound
  <2>. QED  BY <1>9, <2>2, <2>3
<1>11. \E z \in Nat, u \in Nat :
         /\ Merged.size = z /\ Merged.used = u
         /\ merge.lower < u /\ u + Remaining <= z
         /\ Merged.slots \in [0..z - 1 -> Cell]
  BY ONLY <1>1, <1>5, <1>6, <1>7
<1>12. Remaining \in Nat \ {0} /\ merge.next \in Nat
  BY ONLY <1>1, <1>2
<1>. QED  BY ONLY <1>1, <1>2, <1>8, <1>9, <1>10, <1>11, <1>12

\* A turn stores an item at least: the next item is not above the slot it belongs at.
LEMMA RunIsNotEmpty ==
  ASSUME IInv, Merging, NEW r, IsRun(r)
  PROVE  r \in 1..Remaining
<1>1. /\ Remaining \in Nat \ {0}
      /\ \A i \in 0..Remaining - 1 : merge.items[merge.next + i] \in Item
      /\ Merged.slots[merge.lower] \in Int
      /\ merge.items[merge.next] <= Merged.slots[merge.lower]
  BY MergingParts
<1>2. PICK k \in Nat : k = merge.next
  BY MergingParts
<1>3. merge.items[k] \in Int
  <2>1. merge.items[k + 0] \in Item /\ k + 0 = k
    BY <1>1, <1>2
  <2>. QED  BY <2>1, ItemAssumption
<1>4. r # 0
  <2>1. SUFFICES ASSUME r = 0 PROVE FALSE
    OBVIOUS
  <2>2. merge.items[k + 0] > Merged.slots[merge.lower]
    BY <1>1, <1>2, <2>1 DEF IsRun
  <2>3. k + 0 = k
    OBVIOUS
  <2>. QED  BY <1>1, <1>2, <1>3, <2>2, <2>3
<1>. QED  BY <1>1, <1>4 DEF IsRun

\* Each turn of the loop of a SET_RNG leaves fewer items to store, so that it has
\* no more turns than items (Array::setRange).
THEOREM TurnsAdvance == Spec => [][MergeRun => Remaining' < Remaining]_vars
<1>1. ASSUME IInv, MergeRun PROVE Remaining' < Remaining
  <2>1. Merging
    BY <1>1 DEF MergeRun
  <2>2. PICK r \in 0..Remaining :
          IsRun(r) /\ merge'.items = merge.items /\ merge'.next = merge.next + r
    BY <1>1 DEF MergeRun
  <2>3. r \in 1..Remaining
    BY <1>1, <2>1, <2>2, RunIsNotEmpty
  <2>4. Remaining' = Len(merge.items) - (merge.next + r) + 1
    BY <2>2 DEF Remaining
  <2>5. /\ merge.next \in Nat /\ Remaining \in Nat
        /\ Remaining = Len(merge.items) - merge.next + 1
    BY <1>1, <2>1, MergingParts
  <2>6. Len(merge.items) \in Nat
    BY <1>1, <2>1, MergingParts, MergeParts
  <2>. QED  BY <2>3, <2>4, <2>5, <2>6
<1>2. IInv /\ [Next]_vars => [MergeRun => Remaining' < Remaining]_vars
  BY <1>1
<1>. QED  BY <1>2, Invariance, PTL DEF Spec

\* The loop has a run to store, and finds the place of the item after it.
TurnPossible ==
  \E r \in 1..Remaining :
    /\ IsRun(r)
    /\ r < Remaining =>
         LET run == SubSeq(merge.items, merge.next, merge.next + r - 1)
             used == Merged.used + r
             s == Rotate(CopyTo(Merged.slots, Merged.used, run), merge.lower,
                         Merged.used, used)
         IN  \E p \in merge.lower + r..used :
               IsLowerBound(s, merge.lower + r, used, merge.items[merge.next + r], p)

\* As long as the loop's condition holds there is a turn to take, also in an array
\* whose order a CLEAR has damaged: the loop does not get stuck.
THEOREM TurnsGoOn == Spec => [](Merging => TurnPossible)
<1>1. ASSUME IInv, Merging PROVE TurnPossible
  <2>1. PICK size \in Nat, used \in Nat :
          /\ Merged.size = size /\ Merged.used = used
          /\ merge.lower < used /\ used + Remaining <= size
          /\ Merged.slots \in [0..size - 1 -> Cell]
    BY <1>1, MergingParts
  <2>2. PICK items \in SortedBatch, k \in Nat, lower \in Nat, slots \in [0..size - 1 -> Cell] :
          /\ items = merge.items /\ k = merge.next /\ lower = merge.lower
          /\ slots = Merged.slots
    BY <1>1, <2>1, MergeParts, MergingParts
  <2>3. PICK n \in Nat : n = Remaining /\ n > 0 /\ n = Len(items) - k + 1
    BY <1>1, <2>2, MergingParts
  <2>4. /\ items \in SortedBatch /\ k \in 1..Len(items) + 1 /\ Len(items) \in Nat
    BY <1>1, <2>2, MergeParts, MergingParts
  <2>5. \A i \in 0..n - 1 : items[k + i] \in Int
    BY <1>1, <2>2, <2>3, MergingParts, ItemAssumption
  <2>6. PICK r \in 0..n : IsRun(r)
    <3>1. PICK x \in Int : Merged.slots[merge.lower] = x
      BY <1>1, MergingParts
    <3>2. /\ Remaining \in Nat
          /\ \A i \in 0..Remaining - 1 : merge.items[merge.next + i] \in Int
      BY <2>2, <2>3, <2>5
    <3>. QED  BY <2>3, <3>1, <3>2, RunExists
  <2>7. r \in 1..n
    BY <1>1, <2>3, <2>6, RunIsNotEmpty
  <2>8. PICK run : run = SubSeq(items, k, k + r - 1)
    OBVIOUS
  <2>9. PICK s : s = Rotate(CopyTo(slots, used, run), lower, used, used + r)
    OBVIOUS
  <2>10. ASSUME r < n
         PROVE  \E p \in lower + r..used + r :
                  IsLowerBound(s, lower + r, used + r, items[k + r], p)
    <3>1. run \in Seq(Item) /\ r = Len(run)
      <4>1. k + r - 1 <= Len(items) /\ r \in Nat
        BY <2>3, <2>4, <2>7
      <4>2. RisingRun(run, items, k, r)
        BY <2>4, <2>8, <4>1, RunOf
      <4>. QED  BY <4>2 DEF RisingRun
    <3>2. lower \in 0..used /\ used + r <= size
      <4>1. lower < used /\ used + n <= size /\ r <= n /\ r \in Nat
        BY ONLY <2>1, <2>2, <2>3, <2>7, n \in Nat
      <4>. QED  BY ONLY <4>1, lower \in Nat, used \in Nat, size \in Nat, n \in Nat
    <3>3. s \in [0..size - 1 -> Cell]
      <4>1. /\ size \in Nat /\ used \in Nat /\ lower \in 0..used
            /\ slots \in [0..size - 1 -> Cell] /\ r \in Nat
        BY <2>7, <3>2
      <4>. QED  BY ONLY <2>9, <3>1, <3>2, <4>1, RunInserted
    <3>4. PICK first \in Nat, last \in Nat, x \in Int :
            /\ first = lower + r /\ last = used + r /\ first <= last
            /\ x = items[k + r]
      <4>1. r \in 0..n - 1
        BY <2>7, <2>10
      <4>2. items[k + r] \in Int
        BY <2>5, <4>1
      <4>3. lower + r \in Nat /\ used + r \in Nat /\ lower + r <= used + r
        BY <2>7, <3>2
      <4>. QED  BY <4>2, <4>3
    <3>5. ASSUME NEW i \in first..last - 1 PROVE s[i] \in Int
      <4>1. i \in 0..size - 1
        BY <2>7, <3>2, <3>4
      <4>2. s[i] \in Cell
        BY <3>3, <4>1
      <4>. QED  BY <4>2, CellsAreIntegers
    <3>6. \E p \in first..last : IsLowerBound(s, first, last, x, p)
      BY <3>4, <3>5, LowerBoundExists
    <3>. QED  BY <3>4, <3>6
  <2>. QED  BY <2>1, <2>2, <2>3, <2>6, <2>7, <2>8, <2>9, <2>10 DEF TurnPossible
<1>. QED  BY <1>1, Invariance, PTL
=============================================================================
