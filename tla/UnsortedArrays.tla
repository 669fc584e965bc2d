--------------------------- MODULE UnsortedArrays ---------------------------
(***************************************************************************)
(* Arrays whose positions the client chooses: the OARR_, IARR_ and STRARR_  *)
(* commands (the !Sorted branches of core/arr).                            *)
(***************************************************************************)
EXTENDS Arrays

\* SET without a position writes at `used'.
SetNext(n, x) ==
  \/ NotExist("SET", n)
  \/ Exists(n) /\ isFull(arrays[n]) /\ Refuse("SET", n, "Bounds")
  \/ /\ Exists(n) /\ ~isFull(arrays[n])
     /\ LET a == arrays[n]
        IN  Update("SET", n, <<x>>,
                   Holding(a, a.used + 1, [a.slots EXCEPT ![a.used] = x]))

\* SET with a position does not count the item.
SetAt(n, pos, x) ==
  \/ NotExist("SET", n)
  \/ Exists(n) /\ ~isInBounds(arrays[n], pos) /\ Refuse("SET", n, "Bounds")
  \/ /\ Exists(n) /\ isInBounds(arrays[n], pos)
     /\ LET a == arrays[n]
        IN  IF pos < a.size
            THEN Update("SET", n, <<pos, x>>,
                        Holding(a, a.used, [a.slots EXCEPT ![pos] = x]))
            ELSE Overrun("SET", n, <<pos, x>>, a.used, {a.slots})

\* The two setRange: copy what the items became to pos and count them all.
Store(n, pos, sent) ==
  LET a == arrays[n]
      used == a.used + Len(sent)
      slots == CopyTo(a.slots, pos, Converted(sent))
  IN  \/ /\ pos + Len(sent) <= a.size
         /\ used <= UsedBound
         /\ Update("SET_RNG", n, sent, Holding(a, used, slots))
      \/ /\ pos + Len(sent) > a.size
         /\ Overrun("SET_RNG", n, sent, used, {slots})

\* SET_RNG without a position: one free slot is enough to pass the test.
AppendRange(n, sent) ==
  \/ NotExist("SET_RNG", n)
  \/ Unconverted(n, sent)
  \/ /\ Exists(n) /\ Converts(sent) /\ isFull(arrays[n])
     /\ Refuse("SET_RNG", n, "Bounds")
  \/ /\ Exists(n) /\ Converts(sent) /\ ~isFull(arrays[n])
     /\ Store(n, arrays[n].used, sent)

\* (Plausible bug: the items are converted and stored one by one, up to the one
\* that throws.)
SetRangeAtOneByOne(n, pos, sent) ==
  \/ NotExist("SET_RNG", n)
  \/ /\ Exists(n) /\ ~isSetInBounds(arrays[n], pos, Len(sent))
     /\ Refuse("SET_RNG", n, "Bounds")
  \/ /\ Exists(n) /\ isSetInBounds(arrays[n], pos, Len(sent))
     /\ \/ Converts(sent) /\ Store(n, pos, sent)
        \/ \E k \in DOMAIN sent :
             LET before == SubSeq(sent, 1, k - 1)
             IN  /\ Converts(before) /\ ~Converts(<<sent[k]>>)
                 /\ arrays' = [arrays EXCEPT
                                 ![n].slots = CopyTo(@, pos, Converted(before))]
                 /\ Reply("SET_RNG", n, <<>>, "Unknown", <<>>)
                 /\ UNCHANGED <<process, damaged>>

SetRangeAt(n, pos, sent) ==
  \/ NotExist("SET_RNG", n)
  \/ Unconverted(n, sent)
  \/ /\ Exists(n) /\ Converts(sent) /\ ~isSetInBounds(arrays[n], pos, Len(sent))
     /\ Refuse("SET_RNG", n, "Bounds")
  \/ /\ Exists(n) /\ Converts(sent) /\ isSetInBounds(arrays[n], pos, Len(sent))
     /\ Store(n, pos, sent)

Swap(n, posA, posB) ==
  \/ NotExist("SWAP", n)
  \/ /\ Exists(n)
     /\ ~(isInBounds(arrays[n], posA) /\ isInBounds(arrays[n], posB))
     /\ Refuse("SWAP", n, "Bounds")
  \/ /\ Exists(n) /\ isInBounds(arrays[n], posA) /\ isInBounds(arrays[n], posB)
     /\ LET a == arrays[n]
            s == a.slots
        IN  Update("SWAP", n, <<posA, posB>>,
                   Holding(a, a.used, [s EXCEPT ![posA] = s[posB],
                                                ![posB] = s[posA]]))

Init == ArrInit

Next ==
  \/ Start
  \/ Command
  \/ \E n \in Name :
       \/ \E x \in Item :
            SetNext(n, x) \/ \E pos \in Positions[n] : SetAt(n, pos, x)
       \/ \E sent \in Sent :
            AppendRange(n, sent) \/ \E pos \in Positions[n] : SetRangeAt(n, pos, sent)
       \/ \E posA, posB \in Positions[n] : Swap(n, posA, posB)

Spec == Init /\ [][Next]_arrVars

-----------------------------------------------------------------------------
(* Properties.                                                             *)

TypeOK ==
  /\ process \in {"running", "down"}
  /\ arrays \in [Name -> Array]
  /\ damaged \in BOOLEAN

\* The bounds tests keep every write inside the storage, but for two commands:
\* a SET_RNG without a position given more items than there are free slots,
\* and a CLEAR whose range starts behind the last item or behind its own stop.
OnlyKnownDamage ==
  [][damaged' /\ ~damaged =>
       \E n \in Name :
         \/ /\ rsp'.cmd = "SET_RNG" /\ rsp'.name = n
            /\ arrays[n].used < arrays[n].size
            /\ arrays[n].used + Len(rsp'.args) > arrays[n].size
         \/ /\ rsp'.cmd = "CLEAR" /\ rsp'.name = n
            /\ \/ rsp'.args[1] > arrays[n].used
               \/ rsp'.args[2] # NoStop /\ rsp'.args[1] > rsp'.args[2]
               \/ arrays[n].used > arrays[n].size]_arrVars
=============================================================================
