--------------------------- MODULE ObjLists_proofs ---------------------------
(***************************************************************************)
(* Theorems about ObjLists, for every set of names and of items, every     *)
(* limit on a response and every bound on the length of a list.            *)
(***************************************************************************)
EXTENDS ObjLists, SequenceTheorems, FiniteSetTheorems, TLAPS

-----------------------------------------------------------------------------
(* The operators of class List.                                            *)

\* A list is a sequence of items that is not too long.
LEMMA ListType ==
  \A s : s \in List <=> s \in Seq(Item) /\ Len(s) <= MaxLen
<1>1. ASSUME NEW s \in List PROVE s \in Seq(Item) /\ Len(s) <= MaxLen
  <2>1. PICK k \in 0..MaxLen : s \in [1..k -> Item]
    BY DEF List
  <2>2. s \in Seq(Item) /\ k \in Nat
    BY <2>1, SeqDef
  <2>. QED  BY <2>1, <2>2, LenProperties
<1>2. ASSUME NEW s \in Seq(Item), Len(s) <= MaxLen PROVE s \in List
  BY <1>2, LenProperties DEF List
<1>. QED  BY <1>1, <1>2

LEMMA BatchType ==
  \A items \in Batch : items \in Seq(Item)
<1>. SUFFICES ASSUME NEW items \in Batch PROVE items \in Seq(Item)
  OBVIOUS
<1>1. PICK k \in 0..MaxItems : items \in [1..k -> Item]
  BY DEF Batch
<1>. QED  BY <1>1, SeqDef

\* The items of [i, j).
LEMMA PartProperties ==
  ASSUME NEW S, NEW s \in Seq(S), NEW i \in Nat, NEW j \in Nat, j <= Len(s)
  PROVE  /\ Part(s, i, j) \in Seq(S)
         /\ Len(Part(s, i, j)) = IF i <= j THEN j - i ELSE 0
         /\ \A k \in 1..(j - i) : Part(s, i, j)[k] = s[i + k]
<1>1. \A k \in i + 1..j : s[k] \in S
  BY ElementOfSeq, LenProperties
<1>2. i + 1 \in Int /\ j \in Int
  OBVIOUS
<1>3. /\ Part(s, i, j) \in Seq(S)
      /\ Len(Part(s, i, j)) = IF i + 1 <= j THEN j - (i + 1) + 1 ELSE 0
      /\ \A k \in 1..j - (i + 1) + 1 : Part(s, i, j)[k] = s[(i + 1) + k - 1]
  BY <1>1, <1>2, SubSeqProperties DEF Part
<1>4. ASSUME NEW k \in 1..(j - i) PROVE Part(s, i, j)[k] = s[i + k]
  <2>1. k \in 1..j - (i + 1) + 1 /\ (i + 1) + k - 1 = i + k
    OBVIOUS
  <2>. QED  BY <1>3, <2>1
<1>. QED  BY <1>3, <1>4

\* The first p items, and those behind them.
LEMMA HeadPart ==
  ASSUME NEW S, NEW s \in Seq(S), NEW p \in 0..Len(s)
  PROVE  /\ Part(s, 0, p) \in Seq(S) /\ Len(Part(s, 0, p)) = p
         /\ \A k \in 1..p : Part(s, 0, p)[k] = s[k]
<1>1. p \in Nat /\ 0 \in Nat /\ p <= Len(s)
  BY LenProperties
<1>2. /\ Part(s, 0, p) \in Seq(S)
      /\ Len(Part(s, 0, p)) = IF 0 <= p THEN p - 0 ELSE 0
      /\ \A k \in 1..(p - 0) : Part(s, 0, p)[k] = s[0 + k]
  BY <1>1, PartProperties
<1>. QED  BY <1>1, <1>2

LEMMA TailPart ==
  ASSUME NEW S, NEW s \in Seq(S), NEW p \in 0..Len(s)
  PROVE  /\ Part(s, p, Len(s)) \in Seq(S) /\ Len(Part(s, p, Len(s))) = Len(s) - p
         /\ \A k \in 1..Len(s) - p : Part(s, p, Len(s))[k] = s[p + k]
<1>1. p \in Nat /\ Len(s) \in Nat /\ p <= Len(s) /\ Len(s) <= Len(s)
  BY LenProperties
<1>2. /\ Part(s, p, Len(s)) \in Seq(S)
      /\ Len(Part(s, p, Len(s))) = IF p <= Len(s) THEN Len(s) - p ELSE 0
      /\ \A k \in 1..(Len(s) - p) : Part(s, p, Len(s))[k] = s[p + k]
  BY <1>1, PartProperties
<1>. QED  BY <1>1, <1>2

\* Inserting items at p.
LEMMA InsertedProperties ==
  ASSUME NEW S, NEW s \in Seq(S), NEW items \in Seq(S), NEW p \in 0..Len(s)
  PROVE  /\ Inserted(s, p, items) \in Seq(S)
         /\ Len(Inserted(s, p, items)) = Len(s) + Len(items)
         /\ \A k \in 1..Len(s) + Len(items) :
              Inserted(s, p, items)[k] =
                IF k <= p THEN s[k]
                ELSE IF k <= p + Len(items) THEN items[k - p]
                ELSE s[k - Len(items)]
<1>1. /\ Len(s) \in Nat /\ Len(items) \in Nat /\ p \in Nat /\ 0 \in Nat
      /\ p <= Len(s) /\ Len(s) <= Len(s)
  BY LenProperties
<1>. DEFINE head == Part(s, 0, p)
            tail == Part(s, p, Len(s))
<1>2. /\ head \in Seq(S) /\ Len(head) = p
      /\ \A k \in 1..p : head[k] = s[k]
  BY HeadPart
<1>3. /\ tail \in Seq(S) /\ Len(tail) = Len(s) - p
      /\ \A k \in 1..Len(s) - p : tail[k] = s[p + k]
  BY TailPart
<1>. HIDE DEF head, tail
<1>4. /\ head \o items \in Seq(S) /\ Len(head \o items) = p + Len(items)
      /\ \A k \in 1..p + Len(items) :
           (head \o items)[k] = IF k <= p THEN s[k] ELSE items[k - p]
  <2>1. /\ head \o items \in Seq(S) /\ Len(head \o items) = Len(head) + Len(items)
        /\ \A k \in 1..Len(head) + Len(items) :
             (head \o items)[k] = IF k <= Len(head) THEN head[k]
                                  ELSE items[k - Len(head)]
    BY <1>2, ConcatProperties
  <2>. QED  BY <1>1, <1>2, <2>1
<1>. DEFINE front == head \o items
<1>. HIDE DEF front
<1>5. /\ front \o tail \in Seq(S) /\ Len(front \o tail) = Len(s) + Len(items)
      /\ \A k \in 1..Len(s) + Len(items) :
           (front \o tail)[k] = IF k <= p + Len(items) THEN front[k]
                                ELSE tail[k - (p + Len(items))]
  <2>1. /\ front \in Seq(S) /\ Len(front) = p + Len(items)
        /\ Len(front) + Len(tail) = Len(s) + Len(items)
    BY <1>1, <1>3, <1>4 DEF front
  <2>2. /\ front \o tail \in Seq(S) /\ Len(front \o tail) = Len(front) + Len(tail)
        /\ \A k \in 1..Len(front) + Len(tail) :
             (front \o tail)[k] = IF k <= Len(front) THEN front[k]
                                  ELSE tail[k - Len(front)]
    BY <1>3, <2>1, ConcatProperties
  <2>. QED  BY <2>1, <2>2
<1>6. Inserted(s, p, items) = front \o tail
  BY DEF Inserted, head, tail, front
<1>7. ASSUME NEW k \in 1..Len(s) + Len(items), k > p + Len(items)
      PROVE  tail[k - (p + Len(items))] = s[k - Len(items)]
  <2>1. PICK j : j = k - (p + Len(items))
    OBVIOUS
  <2>2. j \in 1..Len(s) - p /\ p + j = k - Len(items)
    BY <1>1, <1>7, <2>1
  <2>. QED  BY <1>3, <2>1, <2>2
<1>8. \A k \in 1..p + Len(items) :
        front[k] = IF k <= p THEN s[k] ELSE items[k - p]
  BY <1>4 DEF front
<1>9. ASSUME NEW k \in 1..Len(s) + Len(items)
      PROVE  Inserted(s, p, items)[k] =
               IF k <= p THEN s[k]
               ELSE IF k <= p + Len(items) THEN items[k - p]
               ELSE s[k - Len(items)]
  <2>1. CASE k <= p + Len(items)
    <3>1. k \in 1..p + Len(items)
      BY <1>1, <1>9, <2>1
    <3>2. (front \o tail)[k] = front[k]
      BY <1>5, <1>9, <2>1
    <3>. QED  BY <1>6, <1>8, <2>1, <3>1, <3>2
  <2>2. CASE k > p + Len(items)
    <3>1. ~(k <= p) /\ ~(k <= p + Len(items))
      BY <1>1, <1>9, <2>2
    <3>2. (front \o tail)[k] = tail[k - (p + Len(items))]
      BY <1>5, <1>9, <3>1
    <3>. QED  BY <1>6, <1>7, <1>9, <2>2, <3>1, <3>2
  <2>3. k <= p + Len(items) \/ k > p + Len(items)
    BY <1>1, <1>9
  <2>. QED  BY <2>1, <2>2, <2>3
<1>. QED  BY <1>5, <1>6, <1>9

\* Erasing [i, j).
LEMMA ErasedProperties ==
  ASSUME NEW S, NEW s \in Seq(S), NEW i \in Nat, NEW j \in Nat,
         i <= j, j <= Len(s)
  PROVE  /\ Erased(s, i, j) \in Seq(S)
         /\ Len(Erased(s, i, j)) = Len(s) - (j - i)
         /\ \A k \in 1..Len(s) - (j - i) :
              Erased(s, i, j)[k] = IF k <= i THEN s[k] ELSE s[k + (j - i)]
<1>1. /\ Len(s) \in Nat /\ 0 \in Nat /\ i <= Len(s) /\ Len(s) <= Len(s)
  BY LenProperties
<1>. DEFINE head == Part(s, 0, i)
            tail == Part(s, j, Len(s))
<1>2. /\ head \in Seq(S) /\ Len(head) = i
      /\ \A k \in 1..i : head[k] = s[k]
  <2>1. i \in 0..Len(s)
    BY <1>1
  <2>. QED  BY <2>1, HeadPart
<1>3. /\ tail \in Seq(S) /\ Len(tail) = Len(s) - j
      /\ \A k \in 1..Len(s) - j : tail[k] = s[j + k]
  <2>1. j \in 0..Len(s)
    BY <1>1
  <2>. QED  BY <2>1, TailPart
<1>. HIDE DEF head, tail
<1>4. /\ head \o tail \in Seq(S) /\ Len(head \o tail) = Len(head) + Len(tail)
      /\ \A k \in 1..Len(head) + Len(tail) :
           (head \o tail)[k] = IF k <= Len(head) THEN head[k] ELSE tail[k - Len(head)]
  BY <1>2, <1>3, ConcatProperties
<1>5. Erased(s, i, j) = head \o tail
  BY DEF Erased, head, tail
<1>6. ASSUME NEW k \in 1..Len(s) - (j - i), ~ k <= i
      PROVE  tail[k - i] = s[k + (j - i)]
  <2>1. PICK q : q = k - i
    OBVIOUS
  <2>2. q \in 1..Len(s) - j /\ j + q = k + (j - i)
    BY <1>1, <1>6, <2>1
  <2>. QED  BY <1>3, <2>1, <2>2
<1>7. Len(head) + Len(tail) = Len(s) - (j - i)
  BY <1>1, <1>2, <1>3
<1>8. ASSUME NEW k \in 1..Len(s) - (j - i)
      PROVE  Erased(s, i, j)[k] = IF k <= i THEN s[k] ELSE s[k + (j - i)]
  BY <1>1, <1>2, <1>4, <1>5, <1>6, <1>7, <1>8
<1>. QED  BY <1>4, <1>5, <1>7, <1>8

-----------------------------------------------------------------------------
(* Types.                                                                  *)

\* What the names are mapped to.
LEMMA ListsType ==
  ASSUME TypeOK
  PROVE  /\ lists \in [DOMAIN lists -> List] /\ DOMAIN lists \in SUBSET Name
         /\ \A n \in DOMAIN lists :
              lists[n] \in Seq(Item) /\ Len(lists[n]) \in Nat /\ Len(lists[n]) <= MaxLen
<1>1. PICK names \in SUBSET Name : lists \in [names -> List]
  BY DEF TypeOK
<1>2. \A n \in DOMAIN lists : lists[n] \in Seq(Item) /\ Len(lists[n]) <= MaxLen
  BY <1>1, ListType
<1>. QED  BY <1>1, <1>2, LenProperties

LEMMA ListsFrom ==
  ASSUME NEW names \in SUBSET Name, lists' \in [names -> List],
         process' \in {"running", "undefined", "down"}
  PROVE  TypeOK'
  BY DEF TypeOK

\* A command that gives one list new contents.
LEMMA UpdateType ==
  ASSUME TypeOK, NEW n, Exists(n), NEW s \in Seq(Item), Len(s) <= MaxLen,
         NEW cmd, NEW args, Update(cmd, n, args, s)
  PROVE  TypeOK'
<1>1. s \in List
  BY ListType
<1>2. lists' \in [DOMAIN lists -> List]
  BY <1>1, ListsType DEF Update, Exists
<1>. QED  BY <1>2, ListsType, ListsFrom DEF Update, TypeOK

\* A command that touches no list.
LEMMA SameType ==
  ASSUME TypeOK, UNCHANGED lists, process' \in {"running", "undefined", "down"}
  PROVE  TypeOK'
  BY DEF TypeOK

LEMMA WithListType ==
  ASSUME TypeOK, NEW n \in Name
  PROVE  /\ WithList(n) \in [DOMAIN lists \cup {n} -> List]
         /\ DOMAIN lists \cup {n} \in SUBSET Name
         /\ DOMAIN WithList(n) = DOMAIN lists \cup {n}
         /\ \A m \in DOMAIN lists \cup {n} :
              /\ WithList(n)[m] \in Seq(Item)
              /\ Len(WithList(n)[m]) \in Nat /\ Len(WithList(n)[m]) <= MaxLen
<1>1. <<>> \in Seq(Item) /\ Len(<<>>) = 0 /\ <<>> \in List
  <2>1. <<>> \in Seq(Item) /\ Len(<<>>) = 0
    BY EmptySeq
  <2>2. Len(<<>>) <= MaxLen
    BY <2>1, ListBoundsAssumption
  <2>. QED  BY <2>1, <2>2, ListType
<1>2. \A m \in DOMAIN lists : lists[m] \in List
  BY ListsType
<1>. QED  BY <1>1, <1>2, ListsType, ListBoundsAssumption DEF WithList, Exists

-----------------------------------------------------------------------------
(* The commands that change lists.                                         *)

\* getIterator and the other choices of a position stay within the list.
LEMMA PositionCut ==
  ASSUME NEW len \in Nat, NEW pos \in Nat
  PROVE  /\ Least(len, pos) \in Nat /\ Least(len, pos) <= len
         /\ Least(len, pos) <= pos
         /\ pos <= len => Least(len, pos) = pos
  BY DEF Least

LEMMA PositionType ==
  Position \subseteq Nat /\ Absent \notin Nat /\ Absent \in Int
  BY ListBoundsAssumption DEF Position, Absent

\* ADD answers where it put its items (ListExecutor::add).
LEMMA AddStep ==
  ASSUME TypeOK, NEW n \in Name, NEW pos \in Position \cup {Absent},
         NEW items \in Batch, Add(n, pos, items)
  PROVE  TypeOK' /\ AddedWhereAnswered'
<1>1. CASE NotExist("ADD", n)
  BY <1>1, SameType DEF NotExist, Refuse, ErrorName, AddedWhereAnswered, TypeOK
<1>2. CASE Exists(n) /\ ~NotExist("ADD", n)
  <2>1. PICK s : s = lists[n]
    OBVIOUS
  <2>2. /\ s \in Seq(Item) /\ Len(s) \in Nat /\ n \in DOMAIN lists
        /\ items \in Seq(Item) /\ Len(items) \in Nat
    BY <1>2, <2>1, ListsType, BatchType, LenProperties DEF Exists
  <2>3. PICK at : at = IF pos = Absent THEN Len(s) ELSE getIterator(s, pos)
    OBVIOUS
  <2>4. at \in 0..Len(s)
    BY <2>2, <2>3, PositionType, PositionCut DEF getIterator
  <2>5. /\ Len(s) + Len(items) <= MaxLen
        /\ Update("ADD", n, <<at, items>>, Inserted(s, at, items))
    BY <1>2, <2>1, <2>3 DEF Add
  <2>6. PICK t : t = Inserted(s, at, items)
    OBVIOUS
  <2>7. /\ t \in Seq(Item) /\ Len(t) = Len(s) + Len(items)
        /\ \A k \in 1..Len(s) + Len(items) :
             t[k] = IF k <= at THEN s[k]
                    ELSE IF k <= at + Len(items) THEN items[k - at]
                    ELSE s[k - Len(items)]
    BY <2>2, <2>4, <2>6, InsertedProperties
  <2>8. TypeOK'
    BY <1>2, <2>5, <2>6, <2>7, UpdateType
  <2>9. Part(t, at, at + Len(items)) = items
    <3>1. /\ at \in Nat /\ at + Len(items) \in Nat /\ at + Len(items) <= Len(t)
          /\ t \in Seq(Item)
      BY <2>2, <2>4, <2>7
    <3>. DEFINE e == at + Len(items)
    <3>2. /\ Part(t, at, e) \in Seq(Item)
          /\ Len(Part(t, at, e)) = IF at <= e THEN e - at ELSE 0
          /\ \A k \in 1..(e - at) : Part(t, at, e)[k] = t[at + k]
      BY ONLY <3>1, PartProperties
    <3>3. ASSUME NEW k \in 1..Len(items) PROVE Part(t, at, e)[k] = items[k]
      <4>1. PICK q : q = at + k
        OBVIOUS
      <4>2. q \in 1..Len(s) + Len(items) /\ ~ q <= at /\ q <= e /\ q - at = k
            /\ k \in 1..(e - at)
        BY <2>2, <2>4, <4>1
      <4>. QED  BY <2>7, <3>2, <4>1, <4>2
    <3>4. Len(Part(t, at, e)) = Len(items)
      BY <2>2, <3>1, <3>2
    <3>. QED  BY <2>2, <3>2, <3>3, <3>4, SeqEqual
  <2>10. /\ rsp'.args = <<at, items>> /\ rsp'.name = n /\ rsp'.size = Len(t)
         /\ lists'[n] = t
    BY <2>2, <2>5, <2>6 DEF Update, Reply
  <2>11. at + Len(items) <= Len(t)
    BY <2>2, <2>4, <2>7
  <2>. QED  BY <2>8, <2>9, <2>10, <2>11 DEF AddedWhereAnswered
<1>. QED  BY <1>1, <1>2 DEF Add

\* Overwriting keeps the length (List::setRange).
LEMMA SetRangeType ==
  ASSUME TypeOK, NEW n \in Name, NEW pos \in Position, NEW items \in Batch,
         SetRange(n, pos, items)
  PROVE  TypeOK'
<1>1. CASE NotExist("SET_RNG", n) \/ Refuse("SET_RNG", "SET_RNG", n, "Bounds")
  BY <1>1, SameType DEF NotExist, Refuse, TypeOK
<1>2. CASE Exists(n) /\ isInbounds(lists[n], pos) /\ Overwrite(n, pos, items)
  <2>1. PICK s : s = lists[n]
    OBVIOUS
  <2>2. /\ s \in Seq(Item) /\ Len(s) \in Nat /\ Len(s) <= MaxLen
        /\ items \in Seq(Item) /\ Len(items) \in Nat /\ pos \in Nat /\ 0 \in Nat
        /\ pos < Len(s)
    BY <1>2, <2>1, ListsType, BatchType, LenProperties, PositionType
       DEF Exists, isInbounds
  <2>3. PICK stop : stop = pos + Least(Len(s), Len(items))
    OBVIOUS
  <2>9. stop \in Nat /\ pos <= stop /\ stop - pos <= Len(items)
    BY <2>2, <2>3 DEF Least
  <2>4. CASE stop > Len(s)
    <3>1. ~(stop <= Len(s))
      BY <2>2, <2>4, <2>9
    <3>2. Overrun("SET_RNG", n, <<pos, items>>)
      BY <1>2, <2>1, <2>3, <3>1 DEF Overwrite
    <3>. QED  BY <3>2, SameType DEF Overrun
  <2>5. CASE stop <= Len(s)
    <3>0. PICK width \in Nat : width = stop - pos
      BY <2>2, <2>9
    <3>. DEFINE head == Part(s, 0, pos)
                mid == Part(items, 0, width)
                tail == Part(s, stop, Len(s))
    <3>1. Update("SET_RNG", n, <<pos, items>>, head \o mid \o tail)
      <4>1. ~(stop > Len(s))
        BY <2>2, <2>5, <2>9
      <4>. QED  BY <1>2, <2>1, <2>3, <3>0, <4>1 DEF Overwrite
    <3>2. width <= Len(items) /\ pos <= Len(s) /\ Len(s) <= Len(s)
      BY <2>2, <2>9, <3>0
    <3>3. /\ head \in Seq(Item)
          /\ Len(head) = pos
      BY <2>2, <3>2, HeadPart
    <3>4. /\ mid \in Seq(Item)
          /\ Len(mid) = width
      BY <2>2, <3>2, HeadPart
    <3>5. /\ tail \in Seq(Item)
          /\ Len(tail) = Len(s) - stop
      <4>1. stop \in 0..Len(s)
        BY <2>2, <2>5, <2>9
      <4>. QED  BY <2>2, <4>1, TailPart
    <3>. HIDE DEF head, mid, tail
    <3>6. head \o mid \in Seq(Item) /\ Len(head \o mid) = Len(head) + Len(mid)
      BY <3>3, <3>4, ConcatProperties
    <3>7. /\ (head \o mid) \o tail \in Seq(Item)
          /\ Len((head \o mid) \o tail) = Len(head \o mid) + Len(tail)
      BY <3>5, <3>6, ConcatProperties
    <3>8. Len(head \o mid \o tail) <= MaxLen
      BY <2>2, <2>5, <2>9, <3>0, <3>3, <3>4, <3>5, <3>6, <3>7
    <3>. QED  BY <1>2, <3>1, <3>7, <3>8, UpdateType
  <2>. QED  BY <2>2, <2>4, <2>5, <2>9
<1>. QED  BY <1>1, <1>2 DEF SetRange

\* What a removal leaves is a part of the list (ListExecutor::remove).
LEMMA RemoveType ==
  ASSUME TypeOK, NEW n \in Name, NEW head \in BOOLEAN, NEW tail \in BOOLEAN,
         NEW start \in Position \cup {Absent}, NEW stop \in Position \cup {Absent},
         Remove(n, head, tail, start, stop)
  PROVE  TypeOK'
<1>1. CASE Invalid("RMV", n, "CommandSyntax") \/ NotExist("RMV", n)
  BY <1>1, SameType DEF NotExist, Invalid, Refuse, TypeOK
<1>2. CASE ~Reversed(start, stop) /\ Exists(n)
           /\ ~Invalid("RMV", n, "CommandSyntax") /\ ~NotExist("RMV", n)
  <2>1. PICK s : s = lists[n]
    OBVIOUS
  <2>2. s \in Seq(Item) /\ Len(s) \in Nat /\ Len(s) <= MaxLen /\ 0 \in Nat
    BY <1>2, <2>1, ListsType DEF Exists
  <2>3. PICK first \in {0, 1}, last \in {Len(s), Len(s) - 1} :
          first = (IF head THEN 1 ELSE 0) /\ last = Len(s) - IF tail THEN 1 ELSE 0
    BY <2>2
  <2>4. PICK left : left = Part(s, first, last)
    OBVIOUS
  <2>5. PICK end :
          end = getIterator(left, IF stop = Absent THEN Len(left) ELSE stop)
    OBVIOUS
  <2>6. \/ Overrun("RMV", n, <<head, tail, start, stop>>)
        \/ /\ first <= last
           /\ Update("RMV", n, <<head, tail, start, stop>>,
                     IF start = Absent THEN left
                     ELSE Erased(left, getIterator(left, start), end))
    BY <1>2, <2>1, <2>3, <2>4, <2>5 DEF Remove
  <2>7. CASE Overrun("RMV", n, <<head, tail, start, stop>>)
    BY <2>7, SameType DEF Overrun
  <2>8. CASE first <= last
    <3>1. first \in Nat /\ last \in Nat /\ last <= Len(s)
      BY <2>2, <2>3, <2>8
    <3>2. left \in Seq(Item) /\ Len(left) = IF first <= last THEN last - first ELSE 0
      <4>1. /\ Part(s, first, last) \in Seq(Item)
            /\ Len(Part(s, first, last)) = IF first <= last THEN last - first ELSE 0
        <5>1. s \in Seq(Item)
          BY <2>2
        <5>. QED  BY ONLY <5>1, <3>1, PartProperties
      <4>. QED  BY ONLY <2>4, <4>1
    <3>3. Len(left) \in Nat /\ Len(left) <= MaxLen
      BY <2>2, <2>8, <3>1, <3>2, ListBoundsAssumption
    <3>4. CASE start = Absent
      BY <1>2, <2>6, <2>7, <3>2, <3>3, <3>4, UpdateType
    <3>5. CASE start # Absent
      <4>1. PICK i : i = getIterator(left, start)
        OBVIOUS
      <4>2. i \in Nat /\ end \in Nat /\ i <= end /\ end <= Len(left)
        BY <1>2, <2>5, <3>3, <3>5, <4>1, PositionType
           DEF getIterator, Reversed, Least
      <4>3. /\ Erased(left, i, end) \in Seq(Item)
            /\ Len(Erased(left, i, end)) = Len(left) - (end - i)
        <5>1. left \in Seq(Item)
          BY <3>2
        <5>. QED  BY <4>2, <5>1, ErasedProperties
      <4>4. Len(Erased(left, i, end)) <= MaxLen
        BY <3>3, <4>2, <4>3, ListBoundsAssumption
      <4>. QED  BY <1>2, <2>6, <2>7, <3>5, <4>1, <4>3, <4>4, UpdateType
    <3>. QED  BY <3>4, <3>5
  <2>. QED  BY <2>6, <2>7, <2>8
<1>. QED  BY <1>1, <1>2 DEF Remove

\* How GET_RNG ends.
LEMMA GetRangeShape ==
  ASSUME NEW n, NEW start, NEW stop, GetRange(n, start, stop)
  PROVE  LET end == Least(getIterator(lists[n],
                                      IF stop = Absent THEN Len(lists[n]) ELSE stop),
                          MaxRspSize)
         IN  \/ Invalid("GET_RNG", n, "CommandSyntax") \/ NotExist("GET_RNG", n)
             \/ /\ Exists(n) /\ ~Reversed(start, stop)
                /\ \E items :
                     /\ Show("GET_RNG", n, <<start, stop>>, items)
                     /\ \/ items = <<>>
                        \/ start <= end /\ items = Part(lists[n], start, end)
             \/ /\ Exists(n) /\ ~Reversed(start, stop) /\ isInbounds(lists[n], start)
                /\ start > end
                /\ \E items : ReadEndNode("GET_RNG", n, <<start, stop>>, items)
  BY DEF GetRange

\* What a command that takes the end node for an item leaves.
LEMMA EndNodeRsp ==
  ASSUME NEW cmd, NEW n, NEW args, NEW items, ReadEndNode(cmd, n, args, items)
  PROVE  /\ rsp'.cmd = cmd /\ rsp'.name = n /\ rsp'.args = args /\ rsp'.outside
         /\ \/ lists' = [m \in {} |-> <<>>] /\ process' = "down"
            \/ UNCHANGED <<process, lists>>
<1>1. PICK r : r = Outside(cmd, n, args)
  OBVIOUS
<1>2. r.cmd = cmd /\ r.name = n /\ r.args = args /\ r.outside
  BY <1>1 DEF Outside, NoRsp
<1>3. PICK q : q = [r EXCEPT !.as = cmd, !.st = "Unknown"]
  OBVIOUS
<1>4. q.cmd = cmd /\ q.name = n /\ q.args = args /\ q.outside
  BY <1>1, <1>3 DEF Outside, NoRsp
<1>5. PICK t : t = [r EXCEPT !.as = cmd, !.st = "Ok", !.items = items,
                             !.size = Len(lists[n])]
  OBVIOUS
<1>6. t.cmd = cmd /\ t.name = n /\ t.args = args /\ t.outside
  BY <1>1, <1>5 DEF Outside, NoRsp
<1>7. rsp' \in {r, q, t}
  BY <1>1, <1>3, <1>5 DEF ReadEndNode
<1>8. \/ lists' = [m \in {} |-> <<>>] /\ process' = "down"
      \/ UNCHANGED <<process, lists>>
  BY DEF ReadEndNode
<1>. QED  BY <1>2, <1>4, <1>6, <1>7, <1>8

\* GET_RNG takes the end node for an item only from a start behind the limit.
LEMMA BehindLimit ==
  ASSUME TypeOK, NEW n \in Name, NEW start \in Position,
         NEW stop \in Position \cup {Absent},
         Exists(n), ~Reversed(start, stop), isInbounds(lists[n], start),
         start > Least(getIterator(lists[n],
                                   IF stop = Absent THEN Len(lists[n]) ELSE stop),
                       MaxRspSize)
  PROVE  MaxRspSize < start /\ start < Len(lists[n])
<1>1. Len(lists[n]) \in Nat /\ MaxRspSize \in Nat /\ start \in Nat
  BY ListsType, ListBoundsAssumption, PositionType DEF Exists
<1>. QED  BY <1>1, PositionType DEF Reversed, isInbounds, getIterator, Least

\* GET_RNG answers a part of the list, or dies, or answers what is no part of
\* it when it starts behind the limit (List::getRange).
LEMMA GetRangeStep ==
  ASSUME TypeOK, NEW n \in Name, NEW start \in Position,
         NEW stop \in Position \cup {Absent}, GetRange(n, start, stop)
  PROVE  TypeOK' /\ RangeIsOfTheList'
<1>1. CASE Invalid("GET_RNG", n, "CommandSyntax") \/ NotExist("GET_RNG", n)
  BY <1>1, SameType
     DEF NotExist, Invalid, Refuse, TypeOK, RangeIsOfTheList, ErrorName
<1>2. ASSUME NEW items, ReadEndNode("GET_RNG", n, <<start, stop>>, items),
             Exists(n), ~Reversed(start, stop), isInbounds(lists[n], start),
             start > Least(getIterator(lists[n],
                                       IF stop = Absent THEN Len(lists[n]) ELSE stop),
                           MaxRspSize)
      PROVE  TypeOK' /\ RangeIsOfTheList'
  <2>1. rsp'.args[1] = start
    BY <1>2, EndNodeRsp
  <2>2. MaxRspSize < start /\ start \in Nat /\ MaxRspSize \in Nat
    BY <1>2, BehindLimit, PositionType, ListBoundsAssumption
  <2>3. RangeIsOfTheList'
    BY <2>1, <2>2 DEF RangeIsOfTheList
  <2>4. CASE lists' = [m \in {} |-> <<>>] /\ process' = "down"
    <3>1. lists' \in [{} -> List]
      BY <2>4
    <3>. QED  BY <2>3, <2>4, <3>1, ListsFrom
  <2>5. CASE UNCHANGED <<process, lists>>
    BY <2>3, <2>5, SameType DEF TypeOK
  <2>. QED  BY <1>2, <2>4, <2>5, EndNodeRsp
<1>3. ASSUME NEW items, Show("GET_RNG", n, <<start, stop>>, items),
             Exists(n), ~Reversed(start, stop),
             LET end == Least(getIterator(lists[n],
                                          IF stop = Absent THEN Len(lists[n]) ELSE stop),
                              MaxRspSize)
             IN  \/ items = <<>>
                 \/ start <= end /\ items = Part(lists[n], start, end)
      PROVE  TypeOK' /\ RangeIsOfTheList'
  <2>1. PICK s : s = lists[n]
    OBVIOUS
  <2>2. /\ s \in Seq(Item) /\ Len(s) \in Nat /\ start \in Nat
        /\ MaxRspSize \in Nat /\ n \in DOMAIN lists
    BY <1>3, <2>1, ListsType, PositionType, ListBoundsAssumption DEF Exists
  <2>3. PICK end :
          end = Least(getIterator(s, IF stop = Absent THEN Len(s) ELSE stop),
                      MaxRspSize)
    OBVIOUS
  <2>4. end \in Nat /\ end <= Len(s) /\ end <= MaxRspSize
    BY <2>2, <2>3, PositionType DEF getIterator, Least
  <2>5. items = <<>> \/ (start <= end /\ items = Part(s, start, end))
    BY <1>3, <2>1, <2>3
  <2>6. /\ rsp'.args[1] = start /\ rsp'.items = items /\ rsp'.name = n
        /\ UNCHANGED <<lists, process>>
    BY <1>3 DEF Show, Reply
  <2>7. TypeOK'
    BY <2>6, SameType DEF TypeOK
  <2>8. /\ Len(items) <= MaxRspSize
        /\ \A i \in 1..Len(items) :
             start + i <= Len(s) /\ items[i] = s[start + i]
    <3>1. CASE items = <<>>
      BY <2>2, <3>1, EmptySeq
    <3>2. CASE items # <<>>
      <4>1. items = Part(s, start, end) /\ start <= end
        BY <2>5, <3>2
      <4>2. /\ Len(items) = IF start <= end THEN end - start ELSE 0
            /\ \A k \in 1..(end - start) : items[k] = s[start + k]
        <5>1. s \in Seq(Item) /\ start \in Nat /\ end \in Nat /\ end <= Len(s)
          BY <2>2, <2>4
        <5>2. /\ Len(Part(s, start, end)) = IF start <= end THEN end - start ELSE 0
              /\ \A k \in 1..(end - start) : Part(s, start, end)[k] = s[start + k]
          BY ONLY <5>1, PartProperties
        <5>. QED  BY <4>1, <5>2
      <4>. QED  BY <2>2, <2>4, <4>1, <4>2
    <3>. QED  BY <3>1, <3>2
  <2>. QED  BY <2>1, <2>6, <2>7, <2>8 DEF RangeIsOfTheList
<1>. QED  BY <1>1, <1>2, <1>3, GetRangeShape

-----------------------------------------------------------------------------
(* SPLICE: where each node was before.                                     *)

\* The place r of list m once the nodes [i, j) of src are taken out, in terms
\* of the places before.
Before(src, i, j, m, r) ==
  <<m, IF m = src /\ r > i THEN r + (j - i) ELSE r>>

\* The place that a node was taken from which is now at place q of list m,
\* after the nodes [i, j) of src were linked at position at of dest.
Origin(dest, src, at, i, j, m, q) ==
  IF m # dest \/ q <= at THEN Before(src, i, j, m, q)
  ELSE IF q <= at + (j - i) THEN <<src, q - at + i>>
  ELSE Before(src, i, j, m, q - (j - i))

\* Two nodes do not come from one place.
LEMMA OriginInjective ==
  ASSUME NEW dest, NEW src, NEW at \in Nat, NEW i \in Nat, NEW j \in Nat, i <= j,
         NEW m, NEW q \in Nat, NEW n, NEW r \in Nat,
         Origin(dest, src, at, i, j, m, q) = Origin(dest, src, at, i, j, n, r)
  PROVE  m = n /\ q = r
<1>. DEFINE w == j - i
            old(k) == IF k > i THEN k + w ELSE k
<1>1. w \in Nat /\ j = i + w
  OBVIOUS
<1>. HIDE DEF w
<1>2. \A k, l \in Int : old(k) = old(l) => k = l
  BY <1>1
<1>3. \A k, l \in Int : l > at /\ l <= at + w => old(k) # l - at + i
  BY <1>1
<1>4. CASE (m # dest \/ q <= at) /\ (n # dest \/ r <= at)
  BY <1>1, <1>2, <1>4 DEF Origin, Before, w
<1>5. CASE (m # dest \/ q <= at) /\ ~(n # dest \/ r <= at)
  BY <1>1, <1>2, <1>3, <1>5 DEF Origin, Before, w
<1>6. CASE ~(m # dest \/ q <= at) /\ (n # dest \/ r <= at)
  BY <1>1, <1>2, <1>3, <1>6 DEF Origin, Before, w
<1>7. CASE ~(m # dest \/ q <= at) /\ ~(n # dest \/ r <= at)
  BY <1>1, <1>2, <1>3, <1>7 DEF Origin, Before, w
<1>. QED  BY <1>4, <1>5, <1>6, <1>7

\* Where the nodes are linked once they are taken out of the list.
LinkedAt(dest, src, p, i, j) == IF dest = src /\ p > i THEN p - (j - i) ELSE p

\* A splice that is defined, of the lists made.
Movable(D, made, dest, src, p, i, j) ==
  /\ dest \in D /\ src \in D /\ DOMAIN made = D
  /\ \A m \in D : made[m] \in Seq(Item)
  /\ p \in Nat /\ i \in Nat /\ j \in Nat
  /\ p <= Len(made[dest]) /\ i <= j /\ j <= Len(made[src])
  /\ dest = src => p <= i \/ p >= j

\* Every place of new holds what its origin held.
Rearranged(D, made, new, dest, src, at, i, j) ==
  /\ DOMAIN new = D /\ at \in Nat
  /\ at <= IF dest = src THEN Len(made[src]) - (j - i) ELSE Len(made[dest])
  /\ \A m \in D :
       /\ new[m] \in Seq(Item)
       /\ Len(new[m]) = IF dest = src THEN Len(made[m])
                        ELSE IF m = dest THEN Len(made[m]) + (j - i)
                        ELSE IF m = src THEN Len(made[m]) - (j - i)
                        ELSE Len(made[m])
       /\ \A q \in 1..Len(new[m]) :
            LET o == Origin(dest, src, at, i, j, m, q)
            IN  /\ o[1] \in D /\ o[2] \in 1..Len(made[o[1]])
                /\ new[m][q] = made[o[1]][o[2]]

\* std::list::splice rearranges the nodes.
LEMMA MovedProperties ==
  ASSUME NEW D, NEW made, NEW dest, NEW src, NEW p, NEW i, NEW j,
         Movable(D, made, dest, src, p, i, j)
  PROVE  Rearranged(D, made, Moved(made, dest, src, p, i, j), dest, src,
                    LinkedAt(dest, src, p, i, j), i, j)
<1>0. /\ dest \in D /\ src \in D /\ DOMAIN made = D
      /\ \A m \in D : made[m] \in Seq(Item)
      /\ p \in Nat /\ i \in Nat /\ j \in Nat
      /\ p <= Len(made[dest]) /\ i <= j /\ j <= Len(made[src])
      /\ dest = src => p <= i \/ p >= j
  BY DEF Movable
<1>. USE <1>0
<1>. PICK new, at : new = Moved(made, dest, src, p, i, j)
                    /\ at = LinkedAt(dest, src, p, i, j)
  OBVIOUS
<1>1. \A m \in D : Len(made[m]) \in Nat
  BY LenProperties
<1>. DEFINE s == made[src]
            t == made[dest]
<1>2. /\ s \in Seq(Item) /\ t \in Seq(Item) /\ Len(s) \in Nat /\ Len(t) \in Nat
      /\ i <= Len(s) /\ j <= Len(s) /\ p <= Len(t)
  BY <1>1
<1>. DEFINE run == Part(s, i, j)
            left == Erased(s, i, j)
            into == IF dest = src THEN left ELSE t
            w == j - i
<1>3. w \in Nat /\ j = i + w /\ w <= Len(s)
  BY <1>2
<1>4. /\ run \in Seq(Item) /\ Len(run) = w
      /\ \A k \in 1..w : run[k] = s[i + k]
  <2>1. /\ run \in Seq(Item) /\ Len(run) = IF i <= j THEN j - i ELSE 0
        /\ \A k \in 1..(j - i) : run[k] = s[i + k]
    BY <1>2, PartProperties
  <2>. QED  BY <2>1
<1>5. /\ left \in Seq(Item) /\ Len(left) = Len(s) - (j - i)
      /\ \A k \in 1..Len(s) - (j - i) :
           left[k] = IF k <= i THEN s[k] ELSE s[k + (j - i)]
  BY <1>2, ErasedProperties
<1>6. /\ at \in Nat /\ at <= Len(into)
      /\ dest = src => at <= Len(s) - w
      /\ dest # src => at = p
  BY <1>2, <1>3, <1>5 DEF LinkedAt
<1>7. new = [m \in D |-> IF m = dest THEN Inserted(into, at, run)
                         ELSE IF m = src THEN left ELSE made[m]]
  BY DEF Moved, LinkedAt
<1>8. into \in Seq(Item) /\ Len(into) \in Nat
  BY <1>2, <1>3, <1>5
<1>9. \A k \in 1..Len(into) :
        LET o == Before(src, i, j, dest, k)
        IN  /\ o[1] = dest /\ o[2] \in 1..Len(t)
            /\ into[k] = t[o[2]]
  <2>1. CASE dest = src
    BY <1>2, <1>3, <1>5, <2>1 DEF Before
  <2>2. CASE dest # src
    BY <1>2, <1>3, <2>2 DEF Before
  <2>. QED  BY <2>1, <2>2
<1>. HIDE DEF s, t, run, left, into, w
<1>10. /\ Inserted(into, at, run) \in Seq(Item)
       /\ Len(Inserted(into, at, run)) = Len(into) + Len(run)
       /\ \A k \in 1..Len(into) + Len(run) :
            Inserted(into, at, run)[k] =
              IF k <= at THEN into[k]
              ELSE IF k <= at + Len(run) THEN run[k - at]
              ELSE into[k - Len(run)]
  <2>1. at \in 0..Len(into)
    BY <1>6, <1>8
  <2>2. into \in Seq(Item) /\ run \in Seq(Item)
    BY <1>4, <1>8
  <2>. QED  BY ONLY <2>1, <2>2, InsertedProperties
<1>11. ASSUME NEW m \in D, m # dest
       PROVE  /\ new[m] \in Seq(Item)
              /\ Len(new[m]) = IF m = src THEN Len(made[m]) - w ELSE Len(made[m])
              /\ \A q \in 1..Len(new[m]) :
                   LET o == Origin(dest, src, at, i, j, m, q)
                   IN  /\ o[1] = m /\ o[2] \in 1..Len(made[m])
                       /\ new[m][q] = made[m][o[2]]
  <2>1. CASE m = src
    <3>1. new[m] = left
      BY <1>7, <1>11, <2>1
    <3>2. ASSUME NEW q \in 1..Len(left)
          PROVE  LET o == Origin(dest, src, at, i, j, m, q)
                 IN  o[1] = m /\ o[2] \in 1..Len(s) /\ left[q] = s[o[2]]
      BY <1>2, <1>3, <1>5, <1>11, <2>1 DEF Origin, Before
    <3>. QED  BY <1>5, <2>1, <3>1, <3>2 DEF s, w
  <2>2. CASE m # src
    <3>1. new[m] = made[m]
      BY <1>7, <1>11, <2>2
    <3>2. \A q : Origin(dest, src, at, i, j, m, q) = <<m, q>>
      BY <1>11, <2>2 DEF Origin, Before
    <3>. QED  BY <2>2, <3>1, <3>2
  <2>. QED  BY <2>1, <2>2
<1>12. /\ new[dest] \in Seq(Item)
       /\ Len(new[dest]) = IF dest = src THEN Len(t) ELSE Len(t) + w
  <2>1. new[dest] = Inserted(into, at, run)
    BY <1>7
  <2>. QED  BY <1>2, <1>3, <1>4, <1>5, <1>10, <2>1 DEF into, s, t, w
<1>13. ASSUME NEW q \in 1..Len(new[dest])
       PROVE  LET o == Origin(dest, src, at, i, j, dest, q)
              IN  /\ o[1] \in D /\ o[2] \in 1..Len(made[o[1]])
                  /\ new[dest][q] = made[o[1]][o[2]]
  <2>1. /\ q \in 1..Len(into) + w /\ Len(run) = w
        /\ new[dest][q] = IF q <= at THEN into[q]
                          ELSE IF q <= at + w THEN run[q - at] ELSE into[q - w]
    BY <1>4, <1>7, <1>10
  <2>2. CASE q <= at
    <3>1. q \in 1..Len(into)
      BY <1>6, <1>8, <2>1, <2>2
    <3>2. Origin(dest, src, at, i, j, dest, q) = Before(src, i, j, dest, q)
      BY <2>2 DEF Origin
    <3>. QED  BY <1>9, <2>1, <2>2, <3>1, <3>2 DEF t
  <2>3. CASE ~ q <= at /\ q <= at + w
    <3>1. PICK k : k = q - at
      OBVIOUS
    <3>2. k \in 1..w /\ q - at + i = i + k
      <4>1. q \in Nat /\ at \in Nat /\ w \in Nat /\ i \in Nat
        BY <1>3, <1>6, <1>8, <2>1
      <4>. QED  BY ONLY <2>3, <3>1, <4>1
    <3>4. i + k \in 1..Len(s)
      BY <1>2, <1>3, <3>2
    <3>3. Origin(dest, src, at, i, j, dest, q) = <<src, i + k>>
      BY <2>3, <3>2 DEF Origin, w
    <3>5. new[dest][q] = run[k] /\ run[k] = s[i + k]
      BY <1>4, <2>1, <2>3, <3>1, <3>2
    <3>6. src \in D /\ s = made[src]
      BY <1>2 DEF s
    <3>. QED  BY ONLY <3>3, <3>4, <3>5, <3>6
  <2>4. CASE ~ q <= at + w
    <3>1. PICK k : k = q - w
      OBVIOUS
    <3>2. k \in 1..Len(into) /\ ~ q <= at
      BY <1>3, <1>6, <1>8, <2>1, <2>4, <3>1
    <3>3. Origin(dest, src, at, i, j, dest, q) = Before(src, i, j, dest, k)
      BY <2>4, <3>1, <3>2 DEF Origin, w
    <3>. QED  BY <1>9, <2>1, <2>4, <3>1, <3>2, <3>3 DEF t
  <2>. QED  BY <2>2, <2>3, <2>4
<1>14. DOMAIN new = D
  BY <1>7
<1>15. ASSUME NEW m \in D
       PROVE  /\ new[m] \in Seq(Item)
              /\ Len(new[m]) = IF dest = src THEN Len(made[m])
                               ELSE IF m = dest THEN Len(made[m]) + (j - i)
                               ELSE IF m = src THEN Len(made[m]) - (j - i)
                               ELSE Len(made[m])
              /\ \A q \in 1..Len(new[m]) :
                   LET o == Origin(dest, src, at, i, j, m, q)
                   IN  /\ o[1] \in D /\ o[2] \in 1..Len(made[o[1]])
                       /\ new[m][q] = made[o[1]][o[2]]
  <2>1. CASE m = dest
    BY <1>12, <1>13, <2>1 DEF t, w
  <2>2. CASE m # dest
    BY <1>11, <2>2 DEF w
  <2>. QED  BY <2>1, <2>2
<1>16. at <= IF dest = src THEN Len(made[src]) - (j - i) ELSE Len(made[dest])
  BY <1>6 DEF s, w
<1>. QED  BY <1>6, <1>14, <1>15, <1>16 DEF Rearranged

\* No node is lost: every place is the origin of a place of the new lists.
LEMMA OriginSurjective ==
  ASSUME NEW D, NEW made, NEW new, NEW dest, NEW src, NEW p, NEW at, NEW i, NEW j,
         Movable(D, made, dest, src, p, i, j),
         Rearranged(D, made, new, dest, src, at, i, j),
         NEW m \in D, NEW r \in 1..Len(made[m])
  PROVE  \E n \in D : \E q \in 1..Len(new[n]) :
            Origin(dest, src, at, i, j, n, q) = <<m, r>>
<1>. DEFINE w == j - i
            len == [n \in D |-> Len(made[n])]
            newlen == [n \in D |-> Len(new[n])]
<1>1. /\ w \in Nat /\ j = i + w /\ r \in Nat /\ r >= 1 /\ r <= len[m]
      /\ len[m] \in Nat /\ len[src] \in Nat /\ len[dest] \in Nat
      /\ i \in Nat /\ j \in Nat /\ i <= j /\ j <= len[src] /\ at \in Nat
      /\ dest \in D /\ src \in D
      /\ at <= IF dest = src THEN len[src] - (j - i) ELSE len[dest]
      /\ \A n \in D : newlen[n] = IF dest = src THEN len[n]
                                   ELSE IF n = dest THEN len[n] + (j - i)
                                   ELSE IF n = src THEN len[n] - (j - i)
                                   ELSE len[n]
  BY LenProperties DEF Movable, Rearranged
<1>4. \A n \in D : newlen[n] = Len(new[n])
  OBVIOUS
<1>. HIDE DEF len, newlen
<1>2. CASE m = src /\ r > i /\ r <= j
  <2>1. PICK q : q = at + (r - i)
    OBVIOUS
  <2>2. /\ q \in Nat /\ ~ q <= at /\ q <= at + (j - i) /\ q >= 1 /\ q - at + i = r
        /\ q <= newlen[dest] /\ newlen[dest] \in Nat
    BY <1>1, <1>2, <2>1
  <2>3. Origin(dest, src, at, i, j, dest, q) = <<m, r>>
    BY <1>2, <2>2 DEF Origin
  <2>4. q \in 1..newlen[dest]
    BY <2>2
  <2>. QED  BY <1>1, <1>4, <2>3, <2>4
<1>3. CASE ~(m = src /\ r > i /\ r <= j)
  <2>1. PICK k : k = IF m = src /\ r > j THEN r - w ELSE r
    OBVIOUS
  <2>2. /\ k \in Nat /\ k >= 1
        /\ (m = src /\ k > i) <=> (m = src /\ r > j)
        /\ k <= len[m] - IF m = src THEN w ELSE 0
    BY <1>1, <1>3, <2>1
  <2>3. Before(src, i, j, m, k) = <<m, r>>
    BY <1>1, <2>1, <2>2 DEF Before
  <2>4. CASE m # dest
    <3>1. newlen[m] = len[m] - IF m = src THEN w ELSE 0
      BY <1>1, <2>4
    <3>2. k \in 1..newlen[m]
      BY <1>1, <2>2, <3>1
    <3>. QED  BY <1>4, <2>3, <2>4, <3>2 DEF Origin
  <2>5. CASE m = dest /\ k <= at
    <3>1. k \in 1..newlen[m]
      BY <1>1, <2>2, <2>5
    <3>. QED  BY <1>4, <2>3, <2>5, <3>1 DEF Origin
  <2>6. CASE m = dest /\ ~ k <= at
    <3>1. PICK q : q = k + w
      OBVIOUS
    <3>2. /\ ~ q <= at /\ ~ q <= at + (j - i) /\ q - (j - i) = k
          /\ q \in Nat /\ q >= 1
      BY <1>1, <2>2, <2>6, <3>1
    <3>3. q \in 1..newlen[m]
      BY <1>1, <2>2, <2>6, <3>1, <3>2
    <3>4. Origin(dest, src, at, i, j, m, q) = <<m, r>>
      BY <2>3, <2>6, <3>2 DEF Origin
    <3>. QED  BY <1>4, <3>3, <3>4
  <2>. QED  BY <2>4, <2>5, <2>6
<1>. QED  BY <1>2, <1>3

\* The places of an item are finitely many.
LEMMA PlacesFinite ==
  ASSUME NEW held, IsFiniteSet(DOMAIN held), NEW x
  PROVE  IsFiniteSet(Places(held, x))
<1>1. IsFiniteSet(1..MaxLen)
  BY FS_Interval, ListBoundsAssumption
<1>2. IsFiniteSet((DOMAIN held) \X (1..MaxLen))
  BY <1>1, FS_Product
<1>3. Places(held, x) \subseteq (DOMAIN held) \X (1..MaxLen)
  BY DEF Places
<1>. QED  BY <1>2, <1>3, FS_Subset

\* Linking nodes elsewhere keeps the number of each item.
LEMMA MovedConserves ==
  ASSUME NEW D, NEW made, NEW dest, NEW src, NEW p, NEW i, NEW j, IsFiniteSet(D),
         Movable(D, made, dest, src, p, i, j),
         NEW new, new = Moved(made, dest, src, p, i, j),
         \A m \in D : Len(made[m]) <= MaxLen /\ Len(new[m]) <= MaxLen, NEW x
  PROVE  Cardinality(Places(new, x)) = Cardinality(Places(made, x))
<1>0. PICK at : Rearranged(D, made, new, dest, src, at, i, j)
  BY MovedProperties
<1>1. /\ dest \in D /\ src \in D /\ DOMAIN made = D
      /\ \A m \in D : made[m] \in Seq(Item)
      /\ i \in Nat /\ j \in Nat /\ i <= j
  BY DEF Movable
<1>2. /\ DOMAIN new = D /\ at \in Nat
      /\ \A m \in D :
           /\ new[m] \in Seq(Item)
           /\ \A q \in 1..Len(new[m]) :
                LET o == Origin(dest, src, at, i, j, m, q)
                IN  /\ o[1] \in D /\ o[2] \in 1..Len(made[o[1]])
                    /\ new[m][q] = made[o[1]][o[2]]
  BY <1>0 DEF Rearranged
<1>3. /\ \A m \in D : Len(made[m]) \in Nat /\ Len(new[m]) \in Nat
      /\ MaxLen \in Nat
  BY <1>1, <1>2, LenProperties, ListBoundsAssumption
<1>. DEFINE O(pl) == Origin(dest, src, at, i, j, pl[1], pl[2])
            S == Places(new, x)
            T == Places(made, x)
            f == [pl \in S |-> O(pl)]
<1>4. \A pl \in S : /\ pl[1] \in D /\ pl[2] \in Nat /\ pl = <<pl[1], pl[2]>>
                    /\ pl[2] \in 1..Len(new[pl[1]])
                    /\ new[pl[1]][pl[2]] = x
  BY <1>2, <1>3 DEF Places
<1>5. \A m, q : \E a, b : Origin(dest, src, at, i, j, m, q) = <<a, b>>
  BY DEF Origin, Before
<1>6. f \in [S -> T]
  <2>. SUFFICES ASSUME NEW pl \in S PROVE O(pl) \in T
    OBVIOUS
  <2>1. PICK a, b : O(pl) = <<a, b>>
    BY <1>5
  <2>4. /\ Origin(dest, src, at, i, j, pl[1], pl[2])[1] = a
        /\ Origin(dest, src, at, i, j, pl[1], pl[2])[2] = b
    BY <2>1
  <2>2. a \in D /\ b \in 1..Len(made[a]) /\ made[a][b] = x
    BY <1>2, <1>4, <2>4
  <2>3. b \in 1..MaxLen /\ b <= Len(made[a])
    BY <1>3, <2>2
  <2>. QED  BY <1>1, <2>1, <2>2, <2>3 DEF Places
<1>7. ASSUME NEW a \in S, NEW b \in S, f[a] = f[b] PROVE a = b
  <2>1. O(a) = O(b)
    BY <1>7
  <2>2. a[1] = b[1] /\ a[2] = b[2]
    BY <1>1, <1>2, <1>4, <2>1, OriginInjective
  <2>. QED  BY <1>4, <2>2
<1>8. ASSUME NEW t \in T PROVE \E s \in S : f[s] = t
  <2>0. PICK m \in D : \E k \in 1..Len(made[m]) : t = <<m, k>> /\ made[m][k] = x
    BY <1>1, <1>3 DEF Places
  <2>1. PICK r \in 1..Len(made[m]) : t = <<m, r>> /\ made[m][r] = x
    BY <2>0
  <2>6. PICK n \in D : \E q \in 1..Len(new[n]) :
          Origin(dest, src, at, i, j, n, q) = <<m, r>>
    BY <1>0, OriginSurjective
  <2>7. PICK q \in 1..Len(new[n]) : Origin(dest, src, at, i, j, n, q) = <<m, r>>
    BY <2>6
  <2>8. new[n][q] = x
    BY <1>2, <2>1, <2>7
  <2>9. <<n, q>> \in S
    <3>1. q \in 1..MaxLen /\ q <= Len(new[n])
      BY <1>3
    <3>. QED  BY <1>2, <2>8, <3>1 DEF Places
  <2>. QED  BY <2>1, <2>7, <2>9
<1>9. f \in Bijection(S, T)
  <2>. HIDE DEF f, S, T
  <2>. QED  BY <1>6, <1>7, <1>8 DEF Bijection, Injection, Surjection, IsInjective
<1>10. ExistsBijection(S, T)
  BY <1>9 DEF ExistsBijection
<1>11. IsFiniteSet(S)
  BY <1>2, PlacesFinite
<1>. QED  BY <1>10, <1>11, FS_Bijection

\* An empty list has no places.
LEMMA WithListPlaces ==
  ASSUME TypeOK, NEW n \in Name, NEW x
  PROVE  Places(WithList(n), x) = Places(lists, x)
<1>1. /\ DOMAIN WithList(n) = DOMAIN lists \cup {n}
      /\ \A m \in DOMAIN lists : WithList(n)[m] = lists[m]
      /\ n \notin DOMAIN lists => WithList(n)[n] = <<>>
  BY DEF WithList, Exists
<1>2. Len(<<>>) = 0
  BY EmptySeq
<1>3. ASSUME n \notin DOMAIN lists
      PROVE  \A k \in 1..MaxLen : ~ k <= Len(WithList(n)[n])
  BY <1>1, <1>2, <1>3, ListBoundsAssumption
<1>. QED  BY <1>1, <1>3 DEF Places

\* SPLICE keeps the type of the lists and the number of each item.
LEMMA SpliceStep ==
  ASSUME TypeOK, IsFiniteSet(DOMAIN lists), NEW dest \in Name, NEW src \in Name,
         NEW start \in Position, NEW stop \in Position \cup {Absent},
         NEW destPos \in Position \cup {Absent},
         Splice(dest, src, start, stop, destPos)
  PROVE  /\ TypeOK' /\ IsFiniteSet(DOMAIN lists')
         /\ process' = "running" =>
              \A x \in Item : Cardinality(Places(lists', x)) = Cardinality(Places(lists, x))
<1>1. PICK made : made = WithList(dest)
  OBVIOUS
<1>. DEFINE D == DOMAIN lists \cup {dest}
<1>2. /\ DOMAIN made = D /\ D \in SUBSET Name /\ dest \in D /\ src \in D
      /\ \A m \in D : made[m] \in Seq(Item) /\ Len(made[m]) \in Nat /\ Len(made[m]) <= MaxLen
  BY <1>1, WithListType DEF Splice, Exists
<1>3. IsFiniteSet(D)
  BY FS_AddElement
<1>4. PICK p : p = getIterator(made[dest],
                 IF destPos = Absent THEN Len(made[dest]) ELSE destPos)
  OBVIOUS
<1>5. PICK i : i = getIterator(made[src], start)
  OBVIOUS
<1>6. PICK j : j = getIterator(made[src],
                 IF stop = Absent THEN Len(made[src]) ELSE stop)
  OBVIOUS
<1>7. /\ p \in Nat /\ p <= Len(made[dest])
      /\ i \in Nat /\ i <= Len(made[src])
      /\ j \in Nat /\ j <= Len(made[src])
  BY <1>2, <1>4, <1>5, <1>6, PositionType DEF getIterator, Least
<1>. DEFINE args == <<src, start, stop, destPos>>
<1>8. CASE Overrun("SPLICE", dest, args)
  BY <1>8, SameType DEF Overrun
<1>9. CASE ~Overrun("SPLICE", dest, args)
  <2>1. /\ i <= j /\ ~(dest = src /\ p \in i..j - 1) /\ process = "running"
        /\ dest # src => Len(made[dest]) + j - i <= MaxLen
        /\ lists' = Moved(made, dest, src, p, i, j)
        /\ UNCHANGED process
    BY <1>1, <1>4, <1>5, <1>6, <1>9 DEF Splice
  <2>2. dest = src => p <= i \/ p >= j
    BY <1>7, <2>1
  <2>3. Movable(D, made, dest, src, p, i, j)
    BY <1>2, <1>7, <2>1, <2>2 DEF Movable
  <2>4. PICK at : Rearranged(D, made, lists', dest, src, at, i, j)
    BY <2>1, <2>3, MovedProperties
  <2>5. \A m \in D : lists'[m] \in Seq(Item) /\ Len(lists'[m]) <= MaxLen
    BY <1>2, <1>7, <2>1, <2>4, ListBoundsAssumption DEF Rearranged
  <2>6. lists' \in [D -> List]
    <3>1. lists' = [m \in D |-> lists'[m]]
      BY <1>2, <2>1 DEF Moved
    <3>. QED  BY <2>5, <3>1, ListType
  <2>7. TypeOK'
    BY <1>2, <2>1, <2>6, ListsFrom
  <2>8. DOMAIN lists' = D
    BY <2>6
  <2>9. ASSUME NEW x \in Item
        PROVE  Cardinality(Places(lists', x)) = Cardinality(Places(lists, x))
    <3>1. Cardinality(Places(lists', x)) = Cardinality(Places(made, x))
      <4>1. \A m \in D : Len(made[m]) <= MaxLen /\ Len(lists'[m]) <= MaxLen
        BY <1>2, <2>5
      <4>. QED  BY <1>3, <2>1, <2>3, <4>1, MovedConserves
    <3>. QED  BY <1>1, <3>1, WithListPlaces
  <2>. QED  BY <1>3, <2>7, <2>8, <2>9
<1>. QED  BY <1>8, <1>9

-----------------------------------------------------------------------------
(* The invariant.  The lists are finitely many, whatever names there are:   *)
(* that they can be counted is what SpliceConserves needs.                  *)

IInv ==
  /\ TypeOK
  /\ IsFiniteSet(DOMAIN lists)

\* Init and the steps of the server that end or start a process.
LEMMA NoListsType ==
  ASSUME lists' = [m \in {} |-> <<>>], process' \in {"running", "undefined", "down"}
  PROVE  TypeOK' /\ IsFiniteSet(DOMAIN lists')
<1>1. lists' \in [{} -> List]
  OBVIOUS
<1>2. DOMAIN lists' = {}
  OBVIOUS
<1>. QED  BY <1>1, <1>2, ListsFrom, FS_EmptySet

\* A command that answers an error, or anything without touching a list.
LEMMA SameLists ==
  ASSUME IInv, UNCHANGED lists, process' \in {"running", "undefined", "down"}
  PROVE  IInv'
  BY SameType DEF IInv

\* CREATE, DELETE and the SPLICE that cannot read its range.
LEMMA CreateStep ==
  ASSUME IInv, NEW n \in Name, lists' = WithList(n), UNCHANGED process
  PROVE  IInv'
<1>1. /\ lists' \in [DOMAIN lists \cup {n} -> List]
      /\ DOMAIN lists \cup {n} \in SUBSET Name
  BY WithListType DEF IInv
<1>2. process' \in {"running", "undefined", "down"}
  BY DEF IInv, TypeOK
<1>3. DOMAIN lists' = DOMAIN lists \cup {n}
  BY <1>1
<1>4. TypeOK'
  BY <1>1, <1>2, ListsFrom
<1>5. IsFiniteSet(DOMAIN lists \cup {n})
  BY FS_AddElement DEF IInv
<1>. QED  BY <1>3, <1>4, <1>5 DEF IInv

LEMMA DeleteStep ==
  ASSUME IInv, NEW n \in Name, Delete(n)
  PROVE  IInv'
<1>1. CASE NotExist("DELETE", n)
  BY <1>1, SameLists DEF NotExist, Refuse, IInv, TypeOK
<1>2. CASE ~NotExist("DELETE", n)
  <2>1. lists' = [m \in DOMAIN lists \ {n} |-> lists[m]] /\ UNCHANGED process
    BY <1>2 DEF Delete
  <2>2. lists' \in [DOMAIN lists \ {n} -> List] /\ DOMAIN lists \ {n} \in SUBSET Name
    BY <2>1, ListsType DEF IInv
  <2>3. process' \in {"running", "undefined", "down"}
    BY <2>1 DEF IInv, TypeOK
  <2>4. DOMAIN lists' = DOMAIN lists \ {n}
    BY <2>2
  <2>. QED  BY <2>2, <2>3, <2>4, ListsFrom, FS_RemoveElement DEF IInv
<1>. QED  BY <1>1, <1>2

\* How the commands on the items of a list end.
LEMMA AddShape ==
  ASSUME NEW n, NEW pos, NEW items, Add(n, pos, items)
  PROVE  \/ NotExist("ADD", n)
         \/ \E args, s : Exists(n) /\ Update("ADD", n, args, s)
  BY DEF Add

LEMMA SetRangeShape ==
  ASSUME NEW n, NEW pos, NEW items, SetRange(n, pos, items)
  PROVE  \/ NotExist("SET_RNG", n) \/ Refuse("SET_RNG", "SET_RNG", n, "Bounds")
         \/ \E args, s : Exists(n) /\ Update("SET_RNG", n, args, s)
         \/ /\ Exists(n) /\ isInbounds(lists[n], pos)
            /\ pos + Least(Len(lists[n]), Len(items)) > Len(lists[n])
            /\ Overrun("SET_RNG", n, <<pos, items>>)
  BY DEF SetRange, Overwrite

LEMMA RemoveShape ==
  ASSUME NEW n, NEW head, NEW tail, NEW start, NEW stop,
         Remove(n, head, tail, start, stop)
  PROVE  \/ Invalid("RMV", n, "CommandSyntax") \/ NotExist("RMV", n)
         \/ \E args, s : Exists(n) /\ Update("RMV", n, args, s)
         \/ /\ Exists(n)
            /\ (IF head THEN 1 ELSE 0) > Len(lists[n]) - IF tail THEN 1 ELSE 0
            /\ Overrun("RMV", n, <<head, tail, start, stop>>)
  BY DEF Remove

LEMMA SpliceShape ==
  ASSUME NEW dest, NEW src, NEW start, NEW stop, NEW destPos,
         Splice(dest, src, start, stop, destPos)
  PROVE  LET made == WithList(dest)
             p == getIterator(made[dest],
                              IF destPos = Absent THEN Len(made[dest]) ELSE destPos)
             i == getIterator(made[src], start)
             j == getIterator(made[src],
                              IF stop = Absent THEN Len(made[src]) ELSE stop)
             args == <<src, start, stop, destPos>>
         IN  /\ Exists(src)
             /\ \/ /\ ~(i <= j /\ ~(dest = src /\ p \in i..j - 1))
                   /\ Overrun("SPLICE", dest, args)
                \/ process = "running" /\ Reply("SPLICE", dest, args, <<>>, 0)
  BY DEF Splice

\* What an undefined command leaves of the last response.
LEMMA OverrunRsp ==
  \A cmd, n, args : Overrun(cmd, n, args) =>
       /\ rsp'.cmd = cmd /\ rsp'.name = n /\ rsp'.args = args /\ rsp'.st = "none"
<1>1. ASSUME NEW cmd, NEW n, NEW args, Overrun(cmd, n, args)
      PROVE  /\ rsp'.cmd = cmd /\ rsp'.name = n /\ rsp'.args = args
             /\ rsp'.st = "none"
  <2>1. PICK r : r = Outside(cmd, n, args)
    OBVIOUS
  <2>2. r.cmd = cmd /\ r.name = n /\ r.args = args /\ r.st = "none"
    BY <2>1 DEF Outside, NoRsp
  <2>. QED  BY <1>1, <2>1, <2>2 DEF Overrun
<1>. QED  BY <1>1

\* The names of the lists stay but where lists are created and deleted.
LEMMA SameNames ==
  ASSUME IInv, NEW n,
         \/ \E cmd, as, st : Refuse(cmd, as, n, st)
         \/ \E cmd, args, s : Update(cmd, n, args, s)
         \/ \E cmd, args, items : Show(cmd, n, args, items)
         \/ \E cmd, args : Overrun(cmd, n, args)
  PROVE  IsFiniteSet(DOMAIN lists')
<1>1. DOMAIN lists' = DOMAIN lists
  BY ListsType DEF Refuse, Update, Show, Overrun, IInv
<1>. QED  BY <1>1 DEF IInv

\* A command other than ADD and GET_RNG, or one that is not answered Ok.
Elsewhere == rsp.cmd \in {"ADD", "GET_RNG"} => rsp.st # "Ok"

LEMMA NotAnswered ==
  ASSUME NEW cmd, NEW n
  PROVE  /\ \A as, st : Refuse(cmd, as, n, st) /\ st # "Ok" => Elsewhere'
         /\ \A args : Overrun(cmd, n, args) => Elsewhere'
         /\ \A args, s : Update(cmd, n, args, s) /\ cmd \notin {"ADD", "GET_RNG"} => Elsewhere'
         /\ \A args, items : Show(cmd, n, args, items) /\ cmd = "GET_RNG" => AddedWhereAnswered'
         /\ \A args, items : ReadEndNode("GET_RNG", n, args, items) => AddedWhereAnswered'
<1>1. \A as, st : Refuse(cmd, as, n, st) /\ st # "Ok" => Elsewhere'
  BY DEF Refuse, Elsewhere
<1>2. \A args : Overrun(cmd, n, args) => Elsewhere'
  BY OverrunRsp DEF Elsewhere
<1>3. \A args, items : ReadEndNode("GET_RNG", n, args, items) => AddedWhereAnswered'
  BY EndNodeRsp DEF AddedWhereAnswered
<1>4. \A args, s : Update(cmd, n, args, s) /\ cmd \notin {"ADD", "GET_RNG"} => Elsewhere'
  BY DEF Update, Reply, Elsewhere
<1>5. \A args, items : Show(cmd, n, args, items) /\ cmd = "GET_RNG" => AddedWhereAnswered'
  BY DEF Show, Reply, AddedWhereAnswered
<1>. QED  BY <1>1, <1>2, <1>3, <1>4, <1>5

LEMMA NextStep ==
  ASSUME IInv, Next
  PROVE  IInv' /\ AddedWhereAnswered' /\ RangeIsOfTheList'
<1>0. TypeOK /\ IsFiniteSet(DOMAIN lists)
  BY DEF IInv
<1>. DEFINE Goal == IInv' /\ AddedWhereAnswered' /\ RangeIsOfTheList'
<1>1. ASSUME IInv', Elsewhere' PROVE Goal
  BY <1>1 DEF Elsewhere, AddedWhereAnswered, RangeIsOfTheList
<1>2. CASE Start
  BY <1>0, <1>1, <1>2, SameLists DEF Start, NoRsp, Elsewhere
<1>3. CASE Dies
  BY <1>0, <1>1, <1>3, NoListsType DEF Dies, NoRsp, Elsewhere, IInv
<1>4. CASE DeleteAll
  <2>1. lists' = [m \in {} |-> <<>>] /\ process' = "running" /\ Elsewhere'
    BY <1>4 DEF DeleteAll, Reply, Elsewhere
  <2>. QED  BY <1>1, <2>1, NoListsType DEF IInv
<1>5. CASE SpliceNotNamed
  BY <1>0, <1>1, <1>5, SameLists DEF SpliceNotNamed, Refuse, Elsewhere, TypeOK
<1>6. ASSUME NEW n \in Name, Create(n) PROVE Goal
  <2>1. CASE Refuse("CREATE", "CREATE", n, "Duplicate")
    BY <1>0, <1>1, <2>1, SameLists DEF Refuse, Elsewhere, TypeOK
  <2>2. CASE ~Refuse("CREATE", "CREATE", n, "Duplicate")
    BY <1>1, <1>6, <2>2, CreateStep DEF Create, Reply, Elsewhere
  <2>. QED  BY <2>1, <2>2
<1>7. ASSUME NEW n \in Name, Delete(n) PROVE Goal
  <2>1. Elsewhere'
    BY <1>7 DEF Delete, NotExist, Refuse, Reply, Elsewhere
  <2>. QED  BY <1>1, <1>7, <2>1, DeleteStep
<1>8. ASSUME NEW n \in Name, Exist(n) \/ Length(n) PROVE Goal
  BY <1>0, <1>1, <1>8, SameLists
     DEF Exist, Length, NotExist, Refuse, Show, Reply, Elsewhere, TypeOK, ErrorName
<1>9. ASSUME NEW n \in Name, NEW cmd \in Validated, Invalid(cmd, n, "ValueTypeInvalid")
      PROVE  Goal
  BY <1>0, <1>1, <1>9, SameLists DEF Invalid, Refuse, Elsewhere, TypeOK
<1>10. ASSUME NEW n \in Name, NEW pos \in Position \cup {Absent}, Get(n, pos)
       PROVE  Goal
  BY <1>0, <1>1, <1>10, SameLists
     DEF Get, NotExist, Refuse, Show, Reply, Elsewhere, TypeOK, ErrorName
<1>11. ASSUME NEW n \in Name, NEW pos \in Position, NEW items \in Batch,
              SetRange(n, pos, items)
       PROVE  Goal
  <2>1. Elsewhere' /\ IsFiniteSet(DOMAIN lists')
    BY <1>11, SetRangeShape, SameNames, NotAnswered DEF NotExist
  <2>. QED  BY <1>0, <1>1, <1>11, <2>1, SetRangeType DEF IInv
<1>12. ASSUME NEW n \in Name, NEW pos \in Position \cup {Absent}, NEW items \in Batch,
              Add(n, pos, items)
       PROVE  Goal
  <2>1. IsFiniteSet(DOMAIN lists')
    BY <1>12, AddShape, SameNames DEF NotExist
  <2>2. RangeIsOfTheList'
    BY <1>12, AddShape
       DEF Update, Reply, NotExist, Refuse, RangeIsOfTheList, ErrorName
  <2>. QED  BY <1>0, <1>12, <2>1, <2>2, AddStep DEF IInv
<1>13. ASSUME NEW n \in Name, NEW start \in Position,
              NEW stop \in Position \cup {Absent}, GetRange(n, start, stop)
       PROVE  Goal
  <2>1. AddedWhereAnswered'
    <3>1. Elsewhere' => AddedWhereAnswered'
      BY DEF Elsewhere, AddedWhereAnswered
    <3>. QED  BY <1>13, <3>1, GetRangeShape, NotAnswered DEF NotExist, Invalid
  <2>2. IsFiniteSet(DOMAIN lists')
    <3>1. ASSUME NEW args, NEW items, ReadEndNode("GET_RNG", n, args, items)
          PROVE  IsFiniteSet(DOMAIN lists')
      <4>1. CASE lists' = [m \in {} |-> <<>>] /\ process' = "down"
        BY <4>1, NoListsType
      <4>2. CASE UNCHANGED <<process, lists>>
        BY <1>0, <4>2
      <4>. QED  BY <3>1, <4>1, <4>2, EndNodeRsp
    <3>. QED  BY <1>13, <3>1, GetRangeShape, SameNames DEF NotExist, Invalid
  <2>. QED  BY <1>0, <1>13, <2>1, <2>2, GetRangeStep DEF IInv
<1>14. ASSUME NEW n \in Name, NEW head \in BOOLEAN, NEW tail \in BOOLEAN,
              NEW start \in Position \cup {Absent},
              NEW stop \in Position \cup {Absent},
              Remove(n, head, tail, start, stop)
       PROVE  Goal
  <2>1. Elsewhere' /\ IsFiniteSet(DOMAIN lists')
    BY <1>14, RemoveShape, SameNames, NotAnswered DEF NotExist, Invalid
  <2>. QED  BY <1>0, <1>1, <1>14, <2>1, RemoveType DEF IInv
<1>15. ASSUME NEW n \in Name, SpliceInvalid(n) PROVE Goal
  BY <1>0, <1>1, <1>15, SameLists DEF SpliceInvalid, Refuse, Elsewhere, TypeOK
<1>16. ASSUME NEW n \in Name, NEW src \in Name, SpliceNoSource(n, src) PROVE Goal
  BY <1>0, <1>1, <1>16, SameLists DEF SpliceNoSource, Refuse, Elsewhere, TypeOK
<1>17. ASSUME NEW n \in Name, NEW src \in Name, SpliceBadRange(n, src) PROVE Goal
  <2>1. Elsewhere' /\ lists' = WithList(n) /\ UNCHANGED process
    BY <1>17 DEF SpliceBadRange, Elsewhere, NoRsp
  <2>. QED  BY <1>1, <2>1, CreateStep
<1>18. ASSUME NEW n \in Name, NEW src \in Name, NEW start \in Position,
              NEW stop \in Position \cup {Absent},
              NEW destPos \in Position \cup {Absent},
              Splice(n, src, start, stop, destPos)
       PROVE  Goal
  <2>1. Elsewhere'
    <3>1. rsp'.cmd = "SPLICE"
      <4>1. \E args : Overrun("SPLICE", n, args) \/ Reply("SPLICE", n, args, <<>>, 0)
        BY <1>18, SpliceShape
      <4>. QED  BY <4>1, OverrunRsp DEF Reply
    <3>. QED  BY <3>1 DEF Elsewhere
  <2>. QED  BY <1>0, <1>1, <1>18, <2>1, SpliceStep DEF IInv
<1>. QED
  BY <1>2, <1>3, <1>4, <1>5, <1>6, <1>7, <1>8, <1>9, <1>10, <1>11, <1>12, <1>13,
     <1>14, <1>15, <1>16, <1>17, <1>18 DEF Next

LEMMA InvariantHolds == Spec => []IInv
<1>1. Init => IInv
  <2>. SUFFICES ASSUME Init PROVE IInv
    OBVIOUS
  <2>1. lists \in [{} -> List] /\ DOMAIN lists = {} /\ process = "running"
    BY DEF Init
  <2>. QED  BY <2>1, FS_EmptySet DEF IInv, TypeOK
<1>2. IInv /\ [Next]_vars => IInv'
  BY NextStep, SameLists DEF vars, IInv, TypeOK
<1>. QED  BY <1>1, <1>2, PTL DEF Spec

\* Every variable keeps its type (LstHandler, ListExecutor, List).
THEOREM TypeCorrect == Spec => []TypeOK
<1>1. IInv => TypeOK
  BY DEF IInv
<1>. QED  BY <1>1, InvariantHolds, PTL

\* ADD answers the position and the size of what it added, also when it was
\* asked for a position behind the tail.
THEOREM AddAnswers == Spec => []AddedWhereAnswered
<1>1. Init => AddedWhereAnswered
  BY DEF Init, NoRsp, AddedWhereAnswered
<1>2. IInv /\ AddedWhereAnswered /\ [Next]_vars => AddedWhereAnswered'
  <2>1. IInv /\ Next => AddedWhereAnswered'
    BY NextStep
  <2>2. AddedWhereAnswered /\ UNCHANGED vars => AddedWhereAnswered'
    BY DEF vars, AddedWhereAnswered
  <2>. QED  BY <2>1, <2>2
<1>. QED  BY <1>1, <1>2, InvariantHolds, PTL DEF Spec

\* GET_RNG answers what the list holds from the position asked for, and no
\* more than the limit, unless it is asked to start behind that limit.
THEOREM RangeAnswers == Spec => []RangeIsOfTheList
<1>1. Init => RangeIsOfTheList
  BY DEF Init, NoRsp, RangeIsOfTheList
<1>2. IInv /\ RangeIsOfTheList /\ [Next]_vars => RangeIsOfTheList'
  <2>1. IInv /\ Next => RangeIsOfTheList'
    BY NextStep
  <2>2. RangeIsOfTheList /\ UNCHANGED vars => RangeIsOfTheList'
    BY DEF vars, RangeIsOfTheList
  <2>. QED  BY <2>1, <2>2
<1>. QED  BY <1>1, <1>2, InvariantHolds, PTL DEF Spec

-----------------------------------------------------------------------------
(* What a step may never do.                                               *)

\* Only SPLICE is answered under the name SPLICE.
LEMMA SpliceSteps ==
  ASSUME Next, rsp'.cmd = "SPLICE"
  PROVE  \/ \E n : SpliceNotNamed \/ SpliceInvalid(n)
         \/ \E n \in Name : \E src \in Name :
              \/ SpliceNoSource(n, src) \/ SpliceBadRange(n, src)
              \/ \E start \in Position, stop, destPos \in Position \cup {Absent} :
                   Splice(n, src, start, stop, destPos)
<1>1. ~Start /\ ~Dies /\ ~DeleteAll
  BY OverrunRsp DEF Start, Dies, DeleteAll, Reply, NoRsp
<1>2. \A cmd, n, args, s : Update(cmd, n, args, s) => cmd = "SPLICE"
  BY DEF Update, Reply
<1>3. \A cmd, n, args, items : Show(cmd, n, args, items) => cmd = "SPLICE"
  BY DEF Show, Reply
<1>4. \A cmd, as, n, st : Refuse(cmd, as, n, st) => cmd = "SPLICE"
  BY DEF Refuse
<1>5. \A cmd, n, args : Overrun(cmd, n, args) => cmd = "SPLICE"
  BY OverrunRsp
<1>6. \A n, args, items : ~ReadEndNode("GET_RNG", n, args, items)
  BY EndNodeRsp
<1>7. \A n : ~Create(n) /\ ~Delete(n) /\ ~Exist(n) /\ ~Length(n)
  BY <1>3, <1>4 DEF Create, Delete, Exist, Length, Reply, NotExist
<1>8. \A n : \A cmd \in Validated : ~Invalid(cmd, n, "ValueTypeInvalid")
  BY <1>4 DEF Invalid, Validated
<1>9. \A n, pos : ~Get(n, pos)
  BY <1>3, <1>4 DEF Get, NotExist
<1>10. \A n, pos, items : ~Add(n, pos, items)
  BY <1>2, <1>4, AddShape DEF NotExist
<1>11. \A n, pos, items : ~SetRange(n, pos, items)
  BY <1>2, <1>4, <1>5, SetRangeShape DEF NotExist
<1>12. \A n, start, stop : ~GetRange(n, start, stop)
  BY <1>3, <1>4, <1>6, GetRangeShape DEF NotExist, Invalid
<1>13. \A n, head, tail, start, stop : ~Remove(n, head, tail, start, stop)
  BY <1>2, <1>4, <1>5, RemoveShape DEF NotExist, Invalid
<1>. QED  BY <1>1, <1>7, <1>8, <1>9, <1>10, <1>11, <1>12, <1>13 DEF Next

\* SPLICE moves items: whatever the lists and the range are, also within one
\* list, the lists hold each item as often as before.
THEOREM SpliceMoves == Spec => SpliceConserves
<1>1. IInv /\ [Next]_vars =>
        [rsp'.cmd = "SPLICE" /\ process' = "running" =>
           \A x \in Item :
             Cardinality(Places(lists', x)) = Cardinality(Places(lists, x))]_vars
  <2>. SUFFICES ASSUME IInv, Next, rsp'.cmd = "SPLICE", process' = "running",
                       NEW x \in Item
                PROVE  Cardinality(Places(lists', x)) = Cardinality(Places(lists, x))
    OBVIOUS
  <2>1. CASE lists' = lists
    BY <2>1
  <2>2. ASSUME NEW n \in Name, lists' = WithList(n)
        PROVE  Cardinality(Places(lists', x)) = Cardinality(Places(lists, x))
    BY <2>2, WithListPlaces DEF IInv
  <2>3. ASSUME NEW n \in Name, NEW src \in Name, NEW start \in Position,
               NEW stop \in Position \cup {Absent},
               NEW destPos \in Position \cup {Absent},
               Splice(n, src, start, stop, destPos)
        PROVE  Cardinality(Places(lists', x)) = Cardinality(Places(lists, x))
    BY <2>3, SpliceStep DEF IInv
  <2>. QED
    BY <2>1, <2>2, <2>3, SpliceSteps
       DEF SpliceNotNamed, SpliceInvalid, SpliceNoSource, SpliceBadRange, Refuse
<1>. QED  BY <1>1, InvariantHolds, PTL DEF Spec, SpliceConserves

\* The steps of a process that goes on and does not answer Ok.
LEMMA RefusedSteps ==
  ASSUME IInv, Next, process' = "running", rsp'.st # "Ok"
  PROVE  \/ UNCHANGED lists
         \/ \E n \in Name, src \in Name : SpliceBadRange(n, src)
<1>1. \A cmd, n, args, s : ~Update(cmd, n, args, s)
  BY DEF Update, Reply
<1>2. \A cmd, n, args, items : ~Show(cmd, n, args, items)
  BY DEF Show, Reply
<1>3. \A cmd, n, args, items, size : ~Reply(cmd, n, args, items, size)
  BY DEF Reply
<1>4. \A cmd, as, n, st : Refuse(cmd, as, n, st) => UNCHANGED lists
  BY DEF Refuse
<1>5. \A cmd, n, args : ~Overrun(cmd, n, args)
  BY DEF Overrun
<1>6. \A n, args, items : ReadEndNode("GET_RNG", n, args, items) => UNCHANGED lists
  BY EndNodeRsp
<1>7. (Start => UNCHANGED lists) /\ ~Dies /\ ~DeleteAll
  BY <1>3 DEF Start, Dies, DeleteAll
<1>8. \A n : (SpliceNotNamed \/ SpliceInvalid(n)) => UNCHANGED lists
  BY <1>4 DEF SpliceNotNamed, SpliceInvalid
<1>9. \A n : Create(n) \/ Delete(n) \/ Exist(n) \/ Length(n) => UNCHANGED lists
  BY <1>2, <1>3, <1>4 DEF Create, Delete, Exist, Length, NotExist
<1>10. \A cmd, n, st : Invalid(cmd, n, st) => UNCHANGED lists
  BY <1>4 DEF Invalid
<1>11. \A n, pos : Get(n, pos) => UNCHANGED lists
  BY <1>2, <1>4 DEF Get, NotExist
<1>12. \A n, pos, items : Add(n, pos, items) \/ SetRange(n, pos, items) => UNCHANGED lists
  BY <1>1, <1>4, <1>5, AddShape, SetRangeShape DEF NotExist
<1>13. \A n, start, stop : GetRange(n, start, stop) => UNCHANGED lists
  BY <1>2, <1>4, <1>6, GetRangeShape DEF NotExist, Invalid
<1>14. \A n, head, tail, start, stop : Remove(n, head, tail, start, stop) => UNCHANGED lists
  BY <1>1, <1>4, <1>5, RemoveShape DEF NotExist, Invalid
<1>15. \A n, src : SpliceNoSource(n, src) => UNCHANGED lists
  BY <1>4 DEF SpliceNoSource
<1>16. ASSUME NEW n, NEW src, NEW start, NEW stop, NEW destPos,
              Splice(n, src, start, stop, destPos)
       PROVE  FALSE
  <2>1. \E args : Overrun("SPLICE", n, args) \/ Reply("SPLICE", n, args, <<>>, 0)
    BY <1>16, SpliceShape
  <2>. QED  BY <1>3, <1>5, <2>1
<1>. QED
  BY <1>7, <1>8, <1>9, <1>10, <1>11, <1>12, <1>13, <1>14, <1>15, <1>16 DEF Next

\* A command that is not answered Ok leaves every item where it was, and at
\* most an empty list behind: the one made for a SPLICE of no range.
THEOREM RefusedKeeps == Spec => RefusedKeepsItems
<1>1. IInv /\ [Next]_vars =>
        [process' = "running" /\ rsp'.st # "Ok" =>
           \/ lists' = lists
           \/ /\ rsp'.cmd = "SPLICE" /\ rsp'.st = "Unknown"
              /\ DOMAIN lists' = DOMAIN lists \cup {rsp'.name}
              /\ lists'[rsp'.name] = <<>>
              /\ \A m \in DOMAIN lists : lists'[m] = lists[m]]_vars
  <2>. SUFFICES ASSUME IInv, Next, process' = "running", rsp'.st # "Ok",
                       lists' # lists
                PROVE  /\ rsp'.cmd = "SPLICE" /\ rsp'.st = "Unknown"
                       /\ DOMAIN lists' = DOMAIN lists \cup {rsp'.name}
                       /\ lists'[rsp'.name] = <<>>
                       /\ \A m \in DOMAIN lists : lists'[m] = lists[m]
    OBVIOUS
  <2>1. PICK n \in Name, src \in Name : SpliceBadRange(n, src)
    BY RefusedSteps
  <2>2. PICK r : r = [NoRsp EXCEPT !.cmd = "SPLICE", !.as = "SPLICE", !.name = n,
                                   !.st = "Unknown"]
    OBVIOUS
  <2>3. r.cmd = "SPLICE" /\ r.st = "Unknown" /\ r.name = n
    BY <2>2 DEF NoRsp
  <2>4. rsp' = r /\ lists' = WithList(n)
    BY <2>1, <2>2 DEF SpliceBadRange
  <2>5. n \notin DOMAIN lists
    <3>. SUFFICES ASSUME n \in DOMAIN lists PROVE WithList(n) = lists
      BY <2>4
    <3>. QED  BY ListsType DEF WithList, Exists, IInv
  <2>. QED  BY <2>3, <2>4, <2>5 DEF WithList, Exists
<1>. QED  BY <1>1, InvariantHolds, PTL DEF Spec, RefusedKeepsItems

\* The steps that leave the nodes of a list.
LEMMA OutsideSteps ==
  ASSUME Next, rsp'.outside
  PROVE  \E n \in Name :
           \/ \E start \in Position, stop \in Position \cup {Absent} :
                /\ Exists(n) /\ ~Reversed(start, stop) /\ isInbounds(lists[n], start)
                /\ start > Least(getIterator(lists[n],
                                   IF stop = Absent THEN Len(lists[n]) ELSE stop),
                                 MaxRspSize)
                /\ \E items : ReadEndNode("GET_RNG", n, <<start, stop>>, items)
           \/ \E pos \in Position, items \in Batch :
                /\ Exists(n) /\ isInbounds(lists[n], pos)
                /\ pos + Least(Len(lists[n]), Len(items)) > Len(lists[n])
                /\ Overrun("SET_RNG", n, <<pos, items>>)
           \/ \E head, tail \in BOOLEAN, start, stop \in Position \cup {Absent} :
                /\ Exists(n)
                /\ (IF head THEN 1 ELSE 0) > Len(lists[n]) - IF tail THEN 1 ELSE 0
                /\ Overrun("RMV", n, <<head, tail, start, stop>>)
           \/ \E src \in Name, start \in Position,
                 stop, destPos \in Position \cup {Absent} :
                Splice(n, src, start, stop, destPos)
<1>1. \A cmd, n, args, s : ~Update(cmd, n, args, s)
  BY DEF Update, Reply
<1>2. \A cmd, n, args, items : ~Show(cmd, n, args, items)
  BY DEF Show, Reply
<1>3. \A cmd, as, n, st : ~Refuse(cmd, as, n, st)
  <2>1. ASSUME NEW cmd, NEW as, NEW n, NEW st, Refuse(cmd, as, n, st) PROVE FALSE
    <3>1. (rsp'.outside) = FALSE
      BY <2>1 DEF Refuse
    <3>. QED  BY <3>1
  <2>. QED  BY <2>1
<1>4. \A cmd, n, args, items, size : ~Reply(cmd, n, args, items, size)
  BY DEF Reply
<1>5. ~Start /\ ~Dies /\ ~DeleteAll /\ ~SpliceNotNamed
  BY <1>3, <1>4 DEF Start, Dies, DeleteAll, SpliceNotNamed, NoRsp
<1>6. \A n : ~Create(n) /\ ~Delete(n) /\ ~Exist(n) /\ ~Length(n) /\ ~SpliceInvalid(n)
  BY <1>2, <1>3, <1>4 DEF Create, Delete, Exist, Length, NotExist, SpliceInvalid
<1>7. \A cmd, n, st : ~Invalid(cmd, n, st)
  BY <1>3 DEF Invalid
<1>8. \A n, pos : ~Get(n, pos)
  BY <1>2, <1>3 DEF Get, NotExist
<1>9. \A n, pos, items : ~Add(n, pos, items)
  BY <1>1, <1>3, AddShape DEF NotExist
<1>10. \A n, start, stop : GetRange(n, start, stop) =>
         /\ Exists(n) /\ ~Reversed(start, stop) /\ isInbounds(lists[n], start)
         /\ start > Least(getIterator(lists[n],
                            IF stop = Absent THEN Len(lists[n]) ELSE stop),
                          MaxRspSize)
         /\ \E items : ReadEndNode("GET_RNG", n, <<start, stop>>, items)
  BY <1>2, <1>3, GetRangeShape DEF NotExist, Invalid
<1>11. \A n, src : ~SpliceNoSource(n, src) /\ ~SpliceBadRange(n, src)
  <2>1. ASSUME NEW n, NEW src, SpliceBadRange(n, src) PROVE FALSE
    <3>1. PICK r : r = [NoRsp EXCEPT !.cmd = "SPLICE", !.as = "SPLICE", !.name = n,
                                     !.st = "Unknown"]
      OBVIOUS
    <3>2. ~r.outside
      BY <3>1 DEF NoRsp
    <3>. QED  BY <2>1, <3>1, <3>2 DEF SpliceBadRange
  <2>. QED  BY <1>3, <2>1 DEF SpliceNoSource
<1>12. \A n, pos, items : SetRange(n, pos, items) =>
         /\ Exists(n) /\ isInbounds(lists[n], pos)
         /\ pos + Least(Len(lists[n]), Len(items)) > Len(lists[n])
         /\ Overrun("SET_RNG", n, <<pos, items>>)
  BY <1>1, <1>3, SetRangeShape DEF NotExist
<1>13. \A n, head, tail, start, stop : Remove(n, head, tail, start, stop) =>
         /\ Exists(n)
         /\ (IF head THEN 1 ELSE 0) > Len(lists[n]) - IF tail THEN 1 ELSE 0
         /\ Overrun("RMV", n, <<head, tail, start, stop>>)
  BY <1>1, <1>3, RemoveShape DEF NotExist, Invalid
<1>14. \E n \in Name :
         \/ \E start \in Position, stop \in Position \cup {Absent} :
              GetRange(n, start, stop)
         \/ \E pos \in Position, items \in Batch : SetRange(n, pos, items)
         \/ \E head, tail \in BOOLEAN, start, stop \in Position \cup {Absent} :
              Remove(n, head, tail, start, stop)
         \/ \E src \in Name, start \in Position,
               stop, destPos \in Position \cup {Absent} :
              Splice(n, src, start, stop, destPos)
  <2>1. Absent \in Position \cup {Absent} /\ Position \subseteq Position \cup {Absent}
    OBVIOUS
  <2>. QED
    BY <1>5, <1>6, <1>7, <1>8, <1>9, <1>11, <2>1 DEF Next
<1>15. PICK n \in Name :
         \/ \E start \in Position, stop \in Position \cup {Absent} :
              GetRange(n, start, stop)
         \/ \E pos \in Position, items \in Batch : SetRange(n, pos, items)
         \/ \E head, tail \in BOOLEAN, start, stop \in Position \cup {Absent} :
              Remove(n, head, tail, start, stop)
         \/ \E src \in Name, start \in Position,
               stop, destPos \in Position \cup {Absent} :
              Splice(n, src, start, stop, destPos)
  BY <1>14
<1>16. CASE \E pos \in Position, items \in Batch : SetRange(n, pos, items)
  <2>1. PICK pos \in Position, items \in Batch : SetRange(n, pos, items)
    BY <1>16
  <2>2. /\ Exists(n) /\ isInbounds(lists[n], pos)
        /\ pos + Least(Len(lists[n]), Len(items)) > Len(lists[n])
        /\ Overrun("SET_RNG", n, <<pos, items>>)
    BY ONLY <1>12, <2>1, Zenon
  <2>. QED  BY <2>2, Zenon
<1>17. CASE \E head, tail \in BOOLEAN, start, stop \in Position \cup {Absent} :
              Remove(n, head, tail, start, stop)
  <2>1. PICK head \in BOOLEAN, tail \in BOOLEAN, start \in Position \cup {Absent},
             stop \in Position \cup {Absent} : Remove(n, head, tail, start, stop)
    BY <1>17
  <2>2. /\ Exists(n)
        /\ (IF head THEN 1 ELSE 0) > Len(lists[n]) - IF tail THEN 1 ELSE 0
        /\ Overrun("RMV", n, <<head, tail, start, stop>>)
    BY ONLY <1>13, <2>1, Zenon
  <2>. QED  BY <2>2, Zenon
<1>18. CASE \E start \in Position, stop \in Position \cup {Absent} :
              GetRange(n, start, stop)
  <2>1. PICK start \in Position, stop \in Position \cup {Absent} :
          GetRange(n, start, stop)
    BY <1>18
  <2>2. /\ Exists(n) /\ ~Reversed(start, stop) /\ isInbounds(lists[n], start)
        /\ start > Least(getIterator(lists[n],
                           IF stop = Absent THEN Len(lists[n]) ELSE stop),
                         MaxRspSize)
        /\ \E items : ReadEndNode("GET_RNG", n, <<start, stop>>, items)
    BY ONLY <1>10, <2>1, Zenon
  <2>. QED  BY <2>2, Zenon
<1>. QED  BY <1>15, <1>16, <1>17, <1>18, Zenon

\* The commands test that they stay on the nodes of a list, but for the ways
\* out named here.
THEOREM DamageIsKnown == Spec => OnlyKnownDamage
<1>. DEFINE Known ==
       LET n == rsp'.name
           args == rsp'.args
           size == Len(lists[n])
       IN  \/ rsp'.cmd = "GET_RNG" /\ MaxRspSize < args[1] /\ args[1] < size
           \/ /\ rsp'.cmd = "SET_RNG" /\ args[1] < size
              /\ args[1] + Len(args[2]) > size
           \/ rsp'.cmd = "RMV" /\ args[1] /\ size = 0
           \/ rsp'.cmd = "RMV" /\ args[2] /\ size < (IF args[1] THEN 2 ELSE 1)
           \/ rsp'.cmd = "SPLICE" /\ args[3] # Absent /\ args[2] > args[3]
           \/ /\ rsp'.cmd = "SPLICE" /\ args[1] = n
              /\ args[4] # Absent /\ args[2] <= args[4]
<1>1. ASSUME IInv, Next, rsp'.outside PROVE Known
  <2>0. TypeOK
    BY <1>1 DEF IInv
  <2>1. ASSUME NEW n \in Name, NEW pos \in Position, NEW items \in Batch,
               Exists(n), isInbounds(lists[n], pos),
               pos + Least(Len(lists[n]), Len(items)) > Len(lists[n]),
               Overrun("SET_RNG", n, <<pos, items>>)
        PROVE  Known
    <3>1. /\ rsp'.cmd = "SET_RNG" /\ rsp'.name = n
          /\ rsp'.args[1] = pos /\ rsp'.args[2] = items
      BY <2>1, OverrunRsp
    <3>2. pos < Len(lists[n])
      BY <2>1 DEF isInbounds
    <3>3. pos + Len(items) > Len(lists[n])
      <4>1. /\ Len(lists[n]) \in Nat /\ Len(items) \in Nat /\ pos \in Nat
        BY <2>0, <2>1, ListsType, BatchType, LenProperties, PositionType DEF Exists
      <4>. QED  BY <2>1, <4>1 DEF Least
    <3>. QED  BY <3>1, <3>2, <3>3
  <2>2. ASSUME NEW n \in Name, NEW head \in BOOLEAN, NEW tail \in BOOLEAN,
               NEW start, NEW stop, Exists(n),
               (IF head THEN 1 ELSE 0) > Len(lists[n]) - IF tail THEN 1 ELSE 0,
               Overrun("RMV", n, <<head, tail, start, stop>>)
        PROVE  Known
    <3>1. /\ rsp'.cmd = "RMV" /\ rsp'.name = n
          /\ rsp'.args[1] = head /\ rsp'.args[2] = tail
      BY <2>2, OverrunRsp
    <3>2. Len(lists[n]) \in Nat
      BY <2>0, <2>2, ListsType DEF Exists
    <3>3. \/ head /\ Len(lists[n]) = 0
          \/ tail /\ Len(lists[n]) < (IF head THEN 2 ELSE 1)
      <4>1. PICK a, b : a = (IF head THEN 1 ELSE 0) /\ b = (IF tail THEN 1 ELSE 0)
        OBVIOUS
      <4>2. (head /\ a = 1) \/ (~head /\ a = 0)
        BY <4>1
      <4>3. (tail /\ b = 1) \/ (~tail /\ b = 0)
        BY <4>1
      <4>4. a > Len(lists[n]) - b
        BY <2>2, <4>1
      <4>5. \/ a = 1 /\ Len(lists[n]) = 0
            \/ b = 1 /\ a = 1 /\ Len(lists[n]) < 2
            \/ b = 1 /\ a = 0 /\ Len(lists[n]) < 1
        BY <3>2, <4>2, <4>3, <4>4
      <4>6. 1 # 0
        OBVIOUS
      <4>. QED  BY <4>2, <4>3, <4>5, <4>6
    <3>. QED  BY <3>1, <3>3
  <2>3. ASSUME NEW n \in Name, NEW src \in Name, NEW start \in Position,
               NEW stop \in Position \cup {Absent},
               NEW destPos \in Position \cup {Absent},
               Splice(n, src, start, stop, destPos)
        PROVE  Known
    <3>1. PICK made, p, i, j :
            /\ made = WithList(n)
            /\ p = getIterator(made[n], IF destPos = Absent THEN Len(made[n]) ELSE destPos)
            /\ i = getIterator(made[src], start)
            /\ j = getIterator(made[src], IF stop = Absent THEN Len(made[src]) ELSE stop)
      OBVIOUS
    <3>2. /\ Exists(src) /\ ~(i <= j /\ ~(n = src /\ p \in i..j - 1))
          /\ Overrun("SPLICE", n, <<src, start, stop, destPos>>)
      BY <1>1, <2>3, <3>1 DEF Splice, Reply
    <3>3. Len(made[n]) \in Nat /\ Len(made[src]) \in Nat
      BY <2>0, <3>1, <3>2, WithListType DEF Exists
    <3>4. /\ rsp'.cmd = "SPLICE" /\ rsp'.name = n
          /\ rsp'.args[1] = src /\ rsp'.args[2] = start
          /\ rsp'.args[3] = stop /\ rsp'.args[4] = destPos
      BY <3>2, OverrunRsp
    <3>5. \/ stop # Absent /\ start > stop
          \/ src = n /\ destPos # Absent /\ start <= destPos
      BY <3>1, <3>2, <3>3, PositionType DEF getIterator, Least
    <3>. QED  BY <3>4, <3>5
  <2>4. ASSUME NEW n \in Name, NEW start \in Position,
               NEW stop \in Position \cup {Absent},
               Exists(n), ~Reversed(start, stop), isInbounds(lists[n], start),
               start > Least(getIterator(lists[n],
                               IF stop = Absent THEN Len(lists[n]) ELSE stop),
                             MaxRspSize),
               NEW items, ReadEndNode("GET_RNG", n, <<start, stop>>, items)
        PROVE  Known
    <3>1. /\ rsp'.cmd = "GET_RNG" /\ rsp'.name = n
          /\ rsp'.args[1] = start
      BY <2>4, EndNodeRsp
    <3>2. MaxRspSize < start /\ start < Len(lists[n])
      BY <2>0, <2>4, BehindLimit
    <3>. QED  BY <3>1, <3>2
  <2>. QED  BY <1>1, <2>1, <2>2, <2>3, <2>4, OutsideSteps
<1>2. IInv /\ [Next]_vars => [rsp'.outside => Known]_vars
  BY <1>1
<1>. QED  BY <1>2, InvariantHolds, PTL DEF Spec, OnlyKnownDamage
=============================================================================
