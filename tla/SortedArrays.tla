---------------------------- MODULE SortedArrays ----------------------------
(***************************************************************************)
(* Arrays kept in ascending order: the SIARR_ commands (the Sorted         *)
(* branches of core/arr).                                                  *)
(*                                                                         *)
(* SET_RNG merges the sorted items into the array in a loop.  Each turn of *)
(* the loop is a step, so that the invariants say why the loop is right;   *)
(* no other command runs in between.                                       *)
(***************************************************************************)
EXTENDS Arrays, FiniteSets

VARIABLE merge    \* progress of the loop in Array::setRange

vars == <<process, arrays, rsp, damaged, merge>>

\* next: the item itItem points to.  lower: the slot itLowerBound points to.
\* itLast is always `used'.
NoMerge == [name |-> "none", items |-> <<>>, next |-> 1, lower |-> 0]

Ascending(s) == \A i, j \in 1..Len(s) : i <= j => s[i] <= s[j]

SortedBatch == {items \in Batch : Ascending(items)}

Count(s, x) == Cardinality({i \in DOMAIN s : s[i] = x})

\* What std::sort makes of the items of a request.
SortsOf == [sent \in {s \in Sent : Converts(s)} |->
              {items \in SortedBatch :
                 \A x \in Item : Count(items, x) = Count(Converted(sent), x)}]

\* (Plausible bug: the item stays behind the others.)
SetAppends(n, x) ==
  \/ NotExist("SET", n)
  \/ Exists(n) /\ isFull(arrays[n]) /\ Refuse("SET", n, "Bounds")
  \/ /\ Exists(n) /\ ~isFull(arrays[n])
     /\ LET a == arrays[n]
        IN  Update("SET", n, <<x>>,
                   Holding(a, a.used + 1, [a.slots EXCEPT ![a.used] = x]))

\* The item is written behind the others and rotated to its lower bound.
Set(n, x) ==
  \/ NotExist("SET", n)
  \/ Exists(n) /\ isFull(arrays[n]) /\ Refuse("SET", n, "Bounds")
  \/ /\ Exists(n) /\ ~isFull(arrays[n])
     /\ LET a == arrays[n]
            s == [a.slots EXCEPT ![a.used] = x]
        IN  \E p \in 0..a.used :
              /\ IsLowerBound(a.slots, 0, a.used, x, p)
              /\ Update("SET", n, <<x>>,
                        Holding(a, a.used + 1, Rotate(s, p, a.used, a.used + 1)))

\* Array::setRange up to the loop, behind the test of the capacity.  Given no
\* items, the array's lower bound of *items.begin() is looked for in an empty
\* vector: a null pointer is read.
BeginMerge(n, items) ==
  \/ /\ ~hasCapacity(arrays[n], Len(items))
     /\ Refuse("SET_RNG", n, "Bounds") /\ UNCHANGED merge
  \/ /\ hasCapacity(arrays[n], Len(items))
     /\ items = <<>> /\ arrays[n].used > 0
     /\ Die("SET_RNG", n, items) /\ UNCHANGED merge
  \/ /\ process = "running"
     /\ hasCapacity(arrays[n], Len(items))
     /\ items # <<>> \/ arrays[n].used = 0
     /\ \E p \in 0..arrays[n].used :
          /\ items # <<>> =>
               IsLowerBound(arrays[n].slots, 0, arrays[n].used, items[1], p)
          /\ merge' = [name |-> n, items |-> items, next |-> 1, lower |-> p]
     /\ rsp' = NoRsp
     /\ UNCHANGED <<process, arrays, damaged>>

\* SET_RNG: what the items became is sorted and merged.
SetRange(n, sent) ==
  \/ NotExist("SET_RNG", n) /\ UNCHANGED merge
  \/ Unconverted(n, sent) /\ UNCHANGED merge
  \/ /\ Exists(n) /\ Converts(sent)
     /\ \E items \in SortsOf[sent] : BeginMerge(n, items)

\* The array, the items and the positions of the loop under way.
Merged == arrays[merge.name]

Remaining == Len(merge.items) - merge.next + 1

\* The loop's condition: itLowerBound != itLast && itItem != itItemsEnd.
Merging ==
  merge # NoMerge /\ merge.lower < Merged.used /\ Remaining > 0

\* (Plausible bug: items equal to the slot are not appended.)
IsRunStrict(r) ==
  /\ r \in 0..Remaining
  /\ \A i \in 0..r - 1 : merge.items[merge.next + i] < Merged.slots[merge.lower]
  /\ r < Remaining => merge.items[merge.next + r] >= Merged.slots[merge.lower]

\* The inner loop: as many items as are not above the slot at itLowerBound.
IsRun(r) ==
  /\ r \in 0..Remaining
  /\ \A i \in 0..r - 1 : merge.items[merge.next + i] <= Merged.slots[merge.lower]
  /\ r < Remaining => merge.items[merge.next + r] > Merged.slots[merge.lower]

\* A turn of the loop: the run is written behind the items and rotated to
\* itLowerBound; then the lower bound of the next item is looked for.
MergeRun ==
  /\ Merging
  /\ \E r \in 0..Remaining :
       /\ IsRun(r)
       /\ LET a == Merged
              run == SubSeq(merge.items, merge.next, merge.next + r - 1)
              used == a.used + r
              s == Rotate(CopyTo(a.slots, a.used, run), merge.lower, a.used, used)
          IN  /\ arrays' = [arrays EXCEPT ![merge.name] = Holding(a, used, s)]
              /\ \E p \in merge.lower + r..used :
                   /\ IF r < Remaining
                      THEN IsLowerBound(s, merge.lower + r, used,
                                        merge.items[merge.next + r], p)
                      ELSE p = merge.lower + r
                   /\ merge' = [name |-> merge.name, items |-> merge.items,
                                next |-> merge.next + r, lower |-> p]
  /\ UNCHANGED <<process, rsp, damaged>>

\* (Plausible bug: the item behind the run is read after the loop, whichever run.)
MergeOverreadAnyRun ==
  /\ Merging
  /\ \E r \in 0..Remaining : IsRun(r)
  /\ Die("SET_RNG", merge.name, merge.items)
  /\ merge' = NoMerge

\* The inner loop reads *itItem before it tests that there is one: when the run
\* takes the last item, the memory behind the items is compared too.  As an
\* integer it is without effect; as a string it may end the process.
MergeOverread ==
  /\ Merging
  /\ IsRun(Remaining)
  /\ Die("SET_RNG", merge.name, merge.items)
  /\ merge' = NoMerge

\* (Plausible bug: only what the loop stored is counted.)
MergeRestUncounted ==
  /\ merge # NoMerge /\ ~Merging
  /\ LET a == Merged
         rest == SubSeq(merge.items, merge.next, Len(merge.items))
     IN  Update("SET_RNG", merge.name, merge.items,
                Holding(a, a.used, CopyTo(a.slots, a.used, rest)))
  /\ merge' = NoMerge

\* After the loop, and for an empty array instead of it: the items that are
\* left are above all others and are copied behind them.
MergeRest ==
  /\ merge # NoMerge /\ ~Merging
  /\ LET a == Merged
         rest == SubSeq(merge.items, merge.next, Len(merge.items))
     IN  Update("SET_RNG", merge.name, merge.items,
                Holding(a, a.used + Len(rest), CopyTo(a.slots, a.used, rest)))
  /\ merge' = NoMerge

-----------------------------------------------------------------------------
(* The commands that read.                                                 *)

\* MIN reads from the first slot on, MAX from the last slot of the vector
\* backwards, whether or not it is used.
Extremes(cmd, n, k, Items) ==
  \/ NotExist(cmd, n)
  \/ Exists(n) /\ arrays[n].used = 0 /\ Refuse(cmd, n, "Bounds")
  \/ /\ Exists(n) /\ arrays[n].used > 0
     /\ \E items \in Items : Show(cmd, n, <<k>>, items)

Min(n, k) ==
  Extremes("MIN", n, k, Reads(arrays[n], 0, Least(k, arrays[n].used)))

\* (Plausible bug: the walk starts one slot too low.)
MaxBelowTheLast(n, k) ==
  LET a == arrays[n]
  IN  Extremes("MAX", n, k,
               {s \in [1..Least(k, a.used) -> Cell] :
                  \A i \in DOMAIN s : i < a.size => s[i] = a.slots[a.size - i - 1]})

\* Behind the first slot there is memory of something else.
Max(n, k) ==
  LET a == arrays[n]
  IN  Extremes("MAX", n, k,
               {s \in [1..Least(k, a.used) -> Cell] :
                  \A i \in DOMAIN s : i <= a.size => s[i] = a.slots[a.size - i]})

\* std::set_intersection: walk both, and keep what both have.
CommonItems(s, t) ==
  LET walk[at \in (1..Len(s) + 1) \X (1..Len(t) + 1)] ==
        LET i == at[1]
            j == at[2]
        IN  IF i > Len(s) \/ j > Len(t) THEN <<>>
            ELSE IF s[i] < t[j] THEN walk[<<i + 1, j>>]
            ELSE IF t[j] < s[i] THEN walk[<<i, j + 1>>]
            ELSE <<s[i]>> \o walk[<<i + 1, j + 1>>]
  IN  walk[<<1, 1>>]

\* (Plausible bug: the whole vectors are intersected, as max reads them.)
IntersectSlots(n, m) ==
  LET Whole(a) == Held(Holding(a, a.size, a.slots))
  IN  \/ n = m /\ Refuse("INTERSECT", n, "Duplicate")
      \/ /\ n # m /\ ~(Exists(n) /\ Exists(m))
         /\ Refuse("INTERSECT", n, "NotExist")
      \/ /\ n # m /\ Exists(n) /\ Exists(m)
         /\ Show("INTERSECT", n, <<m>>,
                 CommonItems(Whole(arrays[n]), Whole(arrays[m])))

Intersect(n, m) ==
  \/ n = m /\ Refuse("INTERSECT", n, "Duplicate")
  \/ n # m /\ ~(Exists(n) /\ Exists(m)) /\ Refuse("INTERSECT", n, "NotExist")
  \/ /\ n # m /\ Exists(n) /\ Exists(m)
     /\ Show("INTERSECT", n, <<m>>, CommonItems(Held(arrays[n]), Held(arrays[m])))

Init == ArrInit /\ merge = NoMerge

\* While the loop runs, the thread does nothing else.
Next ==
  \/ MergeRun
  \/ MergeOverread
  \/ MergeRest
  \/ /\ merge = NoMerge
     /\ UNCHANGED merge
     /\ \/ Start
        \/ Command
        \/ \E n \in Name :
             \/ \E x \in Item : Set(n, x)
             \/ \E k \in Positions[n] : Min(n, k) \/ Max(n, k)
             \/ \E m \in Name : Intersect(n, m)
  \/ /\ merge = NoMerge
     /\ \E n \in Name, sent \in Sent : SetRange(n, sent)

\* The loop is code of one thread: it takes its next turn.
Spec == Init /\ [][Next]_vars /\ WF_vars(MergeRun \/ MergeRest)

-----------------------------------------------------------------------------
(* Properties.                                                             *)

TypeOK ==
  /\ process \in {"running", "down"}
  /\ arrays \in [Name -> Array]
  /\ damaged \in BOOLEAN
  /\ \/ merge = NoMerge
     \/ /\ merge \in [name : Name, items : SortedBatch, next : Nat \ {0},
                      lower : Nat]
        /\ merge.next <= Len(merge.items) + 1

InOrder(a) ==
  /\ a.used <= a.size
  /\ \A i, j \in 0..a.used - 1 : i <= j => a.slots[i] <= a.slots[j]

\* The items of an array fit in it and are in ascending order, between two
\* turns of the loop of a SET_RNG too, until a CLEAR writes outside the
\* storage.
HeldInOrder == ~damaged => \A n \in Name : InOrder(arrays[n])

\* The loop of a SET_RNG has room for every item it has not stored yet, and
\* the next one belongs at itLowerBound.
MergeFits ==
  merge # NoMerge =>
    /\ Merged.used + Remaining <= Merged.size
    /\ Remaining > 0 =>
         IsLowerBound(Merged.slots, 0, Merged.used, merge.items[merge.next],
                      merge.lower)

\* How many x array n holds, those a SET_RNG has yet to store included.
Owned(n, x) ==
  Count(Held(arrays[n]), x)
  + IF merge.name = n
    THEN Count(SubSeq(merge.items, merge.next, Len(merge.items)), x) ELSE 0

\* The commands that may change how many items an array holds without a SET.
Resizing == {"CREATE", "DELETE", "DELETE_ALL", "CLEAR"}

\* No item is lost, doubled or invented when others are inserted: SET adds its
\* item, SET_RNG adds its items once, and no other command but CLEAR and
\* those that create or delete the array changes what it holds.
InsertKeepsItems ==
  [][~damaged' /\ process' = "running" /\ rsp'.cmd \notin Resizing =>
       \A n \in Name, x \in Cell :
         Owned(n, x)' = Owned(n, x)
           + IF rsp'.cmd = "SET" /\ rsp'.name = n /\ rsp'.st = "Ok"
             THEN Count(rsp'.args, x)
             ELSE IF merge = NoMerge /\ merge'.name = n
             THEN Count(merge'.items, x) ELSE 0]_vars

\* INTERSECT answers what both arrays hold, each item as often as the array
\* with fewer of it holds it, in ascending order.
IntersectIsCommon ==
  rsp.cmd = "INTERSECT" /\ rsp.st = "Ok" /\ ~damaged =>
    /\ Ascending(rsp.items)
    /\ \A x \in Cell :
         Count(rsp.items, x) = Least(Count(Held(arrays[rsp.name]), x),
                                     Count(Held(arrays[rsp.args[1]]), x))

\* The items of MIN are held, and none that is left out is lower.
MinIsLowest(items, held) ==
  \A x \in Cell :
    /\ Count(items, x) <= Count(held, x)
    /\ Count(items, x) < Count(held, x) => \A i \in DOMAIN items : items[i] <= x

\* The items of MAX are those at the end, the last of them first.
MaxIsHighest(items, held) ==
  \A i \in DOMAIN items :
    /\ items[i] = held[Len(held) + 1 - i]
    /\ \A j \in 1..Len(held) - i : held[j] <= items[i]

\* Whatever was inserted and cleared before, MIN answers the lowest items of an array
\* and MAX the highest, but MAX only of a full array: of one with room left it answers
\* what the unused slots hold.
ExtremesAreRight ==
  rsp.cmd \in {"MIN", "MAX"} /\ rsp.st = "Ok" /\ ~damaged =>
    LET a == arrays[rsp.name]
    IN  /\ rsp.cmd = "MIN" => MinIsLowest(rsp.items, Held(a))
        /\ rsp.cmd = "MAX" /\ a.used = a.size => MaxIsHighest(rsp.items, Held(a))

\* Only two commands reach outside the storage of an array that is in order: a
\* CLEAR whose range starts behind the last item or behind its own stop, and a
\* SET_RNG into an array with items, given none or given none above the highest
\* one held.  Such a SET_RNG reads what is not its own, but writes nothing there.
OnlyKnownDamage ==
  [][process = "running" /\ ~damaged /\ (process' = "down" \/ damaged') =>
       LET a == arrays[rsp'.name]
           args == rsp'.args
       IN  \/ /\ rsp'.cmd = "CLEAR"
              /\ args[1] > a.used \/ (args[2] # NoStop /\ args[1] > args[2])
           \/ /\ rsp'.cmd = "SET_RNG" /\ ~damaged' /\ a.used > 0
              /\ args = <<>> \/ args[Len(args)] <= a.slots[a.used - 1]]_vars

\* A SET_RNG that is accepted is answered: the loop comes to its end.
MergeEnds == merge # NoMerge ~> merge = NoMerge
=============================================================================
