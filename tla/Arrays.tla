------------------------------- MODULE Arrays -------------------------------
(***************************************************************************)
(* The arrays of one type (object, integer, string, sorted integer ...):   *)
(* what core/arr/ArrHandler.h and core/arr/ArrExecutor.h do the same way   *)
(* for sorted and for unsorted arrays.  UnsortedArrays and SortedArrays    *)
(* add the commands of each.                                               *)
(*                                                                         *)
(* One thread runs every command.  Where the code leaves the storage of a  *)
(* vector the behaviour is undefined: the process dies, or goes on with    *)
(* `damaged' set and any content in the slots it shuffled.  Arrays are not *)
(* saved: a process that dies takes them along.                            *)
(***************************************************************************)
EXTENDS ArrArray

CONSTANTS
  Name,         \* names of arrays
  MaxCapacity,  \* arrays::maxCapacity of the configuration
  MaxRspSize,   \* arrays::maxResponseSize of the configuration
  Lengths,      \* for each name the lengths it is created with
  Positions,    \* for each name the positions it is asked for
  Junk,         \* what a slot may hold after a rotation that left its vector
  Foreign,      \* items of another type than the array's, as clients send them
  As,           \* what as<> makes of those it does not throw for
  MaxItems,     \* bound on the items of one SET_RNG
  UsedBound     \* bound on `used', which the code lets pass the size

ASSUME NameAssumption == "none" \notin Name
ASSUME MaxCapacityAssumption == MaxCapacity \in Nat
ASSUME MaxRspSizeAssumption == MaxRspSize \in Nat
ASSUME LengthsAssumption == Lengths \in [Name -> SUBSET Nat]
ASSUME PositionsAssumption == Positions \in [Name -> SUBSET Nat]
ASSUME JunkAssumption == Junk \subseteq Cell
ASSUME ForeignAssumption == Foreign \cap Item = {}
ASSUME AsAssumption == \E Convertible \in SUBSET Foreign : As \in [Convertible -> Item]
ASSUME MaxItemsAssumption == MaxItems \in Nat
ASSUME UsedBoundAssumption == UsedBound \in Nat /\ MaxCapacity <= UsedBound

VARIABLES
  process,   \* "running" or "down"
  arrays,    \* ArrHandler::m_arrays
  rsp,       \* the last command: what it was given and what it answered
  damaged    \* history: something was written outside a vector's storage

arrVars == <<process, arrays, rsp, damaged>>

\* A range without a stop ends at the array's size.
NoStop == -1

Batch == UNION {[1..n -> Item] : n \in 0..MaxItems}

\* The items of a SET_RNG as the client sends them: their types are not tested.
Sent == UNION {[1..n -> Item \cup Foreign] : n \in 0..MaxItems}

\* reqBody.at("items").as<std::vector<ArrayValueT>>(): whatever can be turned
\* into an item is turned into one (a number into text, text with digits into a
\* number; an array of objects takes everything as it is), and one item that
\* cannot be makes the whole conversion throw.
Converts(sent) == \A i \in DOMAIN sent : sent[i] \in Item \cup DOMAIN As

Converted(sent) ==
  [i \in DOMAIN sent |-> IF sent[i] \in Item THEN sent[i] ELSE As[sent[i]]]

NoRsp == [cmd |-> "none", name |-> "none", args |-> <<>>, st |-> "none",
          items |-> <<>>]

Exists(n) == arrays[n].size > 0

-----------------------------------------------------------------------------
(* How a command ends.                                                     *)

Reply(cmd, n, args, st, items) ==
  rsp' = [cmd |-> cmd, name |-> n, args |-> args, st |-> st, items |-> items]

Update(cmd, n, args, a) ==
  /\ process = "running"
  /\ arrays' = [arrays EXCEPT ![n] = a]
  /\ Reply(cmd, n, args, "Ok", <<>>)
  /\ UNCHANGED <<process, damaged>>

Refuse(cmd, n, st) ==
  /\ process = "running"
  /\ Reply(cmd, n, <<>>, st, <<>>)
  /\ UNCHANGED <<process, arrays, damaged>>

Show(cmd, n, args, items) ==
  /\ process = "running"
  /\ Reply(cmd, n, args, "Ok", items)
  /\ UNCHANGED <<process, arrays, damaged>>

\* The process dies in the middle of a command.
Die(cmd, n, args) ==
  /\ process = "running"
  /\ process' = "down"
  /\ arrays' = [m \in Name |-> NoArray]
  /\ damaged' = FALSE
  /\ Reply(cmd, n, args, "none", <<>>)

\* A command that leaves the storage of n with `used' as the code computes it.
Overrun(cmd, n, args, used, Slots) ==
  \/ Die(cmd, n, args)
  \/ /\ process = "running"
     /\ used <= UsedBound
     /\ \E s \in Slots :
          arrays' = [arrays EXCEPT ![n] = Holding(arrays[n], used, s)]
     /\ damaged' = TRUE
     /\ Reply(cmd, n, args, "Ok", <<>>)
     /\ UNCHANGED process

\* validateAndExecute looks the array up before it executes.
NotExist(cmd, n) == ~Exists(n) /\ Refuse(cmd, n, "NotExist")

\* setRange converts before it tests any bounds: when that throws, nothing has
\* been stored.
Unconverted(n, sent) ==
  Exists(n) /\ ~Converts(sent) /\ Refuse("SET_RNG", n, "Unknown")

-----------------------------------------------------------------------------
(* The commands.                                                           *)

\* The server starts with no array.
Start ==
  /\ process = "down"
  /\ process' = "running"
  /\ rsp' = NoRsp
  /\ UNCHANGED <<arrays, damaged>>

\* (Plausible bug: the limit on the capacity is not tested.)
CreateUnlimited(n, len) ==
  \/ Exists(n) /\ Refuse("CREATE", n, "Duplicate")
  \/ ~Exists(n) /\ len = 0 /\ Refuse("CREATE", n, "Bounds")
  \/ ~Exists(n) /\ len > 0 /\ Update("CREATE", n, <<len>>, NewArray(len))

Create(n, len) ==
  \/ Exists(n) /\ Refuse("CREATE", n, "Duplicate")
  \/ ~Exists(n) /\ len \notin 1..MaxCapacity /\ Refuse("CREATE", n, "Bounds")
  \/ /\ ~Exists(n) /\ len \in 1..MaxCapacity
     /\ Update("CREATE", n, <<len>>, NewArray(len))

\* Deleting a name with no array is answered Ok too.
Delete(n) == Update("DELETE", n, <<>>, NoArray)

DeleteAll ==
  /\ process = "running"
  /\ arrays' = [n \in Name |-> NoArray]
  /\ Reply("DELETE_ALL", "none", <<>>, "Ok", <<>>)
  /\ UNCHANGED <<process, damaged>>

\* Only the size bounds pos: a slot that holds no item is read as well.
Get(n, pos) ==
  \/ NotExist("GET", n)
  \/ Exists(n) /\ ~isInBounds(arrays[n], pos) /\ Refuse("GET", n, "Bounds")
  \/ /\ Exists(n) /\ isInBounds(arrays[n], pos)
     /\ Show("GET", n, <<pos>>, <<arrays[n].slots[pos]>>)

\* The stop of a range, as GET_RNG and CLEAR pass it on.
StopOf(a, stop) == IF stop = NoStop THEN a.size ELSE stop

\* getRange cuts the stop at `used' and at the limit on a response.  A start
\* behind that gives a negative size and an exception nothing catches before
\* Server::handleMessage, which answers "ERR".
GetRange(n, start, stop) ==
  \/ stop # NoStop /\ start > stop /\ Refuse("GET_RNG", n, "CommandSyntax")
  \/ /\ stop = NoStop \/ start <= stop
     /\ \/ NotExist("GET_RNG", n)
        \/ Exists(n) /\ ~isInBounds(arrays[n], start)
           /\ Refuse("GET_RNG", n, "Bounds")
        \/ /\ Exists(n) /\ isInBounds(arrays[n], start)
           /\ LET a == arrays[n]
                  end == Least(Least(StopOf(a, stop), a.used), MaxRspSize)
              IN  \/ start > end /\ Refuse("ERR", n, "Unknown")
                  \/ /\ start <= end
                     /\ \E items \in Reads(a, start, end - start) :
                          Show("GET_RNG", n, <<start, stop>>, items)

\* (Plausible bug: the items behind the range stay where they are.)
ClearInPlace(n, start, stop) ==
  LET a == arrays[n]
      pivot == Least(a.used, StopOf(a, stop))
  IN  /\ start <= pivot
      /\ Update("CLEAR", n, <<start, stop>>,
                Holding(a, a.used - (pivot - start), a.slots))

\* Array::clear: the items of the range go behind the others.  The range must
\* end at or after its start, and inside the vector, for std::rotate to be
\* defined; nothing tests that.
ClearArray(n, start, stop) ==
  LET a == arrays[n]
      pivot == Least(a.used, StopOf(a, stop))
      left == a.used - (pivot - start)
      args == <<start, stop>>
  IN  \/ /\ start = 0 /\ pivot = a.size
         /\ Update("CLEAR", n, args, Holding(a, 0, a.slots))
      \/ /\ ~(start = 0 /\ pivot = a.size)
         /\ start <= pivot /\ pivot <= a.size
         /\ Update("CLEAR", n, args,
                   Holding(a, left, Rotate(a.slots, start, pivot, a.size)))
      \/ /\ start > pivot \/ pivot > a.size
         /\ Overrun("CLEAR", n, args, left, [0..a.size - 1 -> Junk])

Clear(n, start, stop) ==
  \/ NotExist("CLEAR", n)
  \/ Exists(n) /\ ~isInBounds(arrays[n], start) /\ Refuse("CLEAR", n, "Bounds")
  \/ Exists(n) /\ isInBounds(arrays[n], start) /\ ClearArray(n, start, stop)

ArrInit ==
  /\ process = "running"
  /\ arrays = [n \in Name |-> NoArray]
  /\ rsp = NoRsp
  /\ damaged = FALSE

\* The commands sorted and unsorted arrays share.
Command ==
  \/ DeleteAll
  \/ \E n \in Name :
       \/ \E len \in Lengths[n] : Create(n, len)
       \/ Delete(n)
       \/ \E pos \in Positions[n] : Get(n, pos)
       \/ \E start \in Positions[n], stop \in Positions[n] \cup {NoStop} :
            GetRange(n, start, stop) \/ Clear(n, start, stop)

-----------------------------------------------------------------------------
(* Properties of both kinds of arrays.                                     *)

Array ==
  UNION {[size : {len}, used : 0..UsedBound, slots : [0..len - 1 -> Cell]]
           : len \in 0..MaxCapacity}

\* The items an array holds, in order.
Held(a) == [i \in 1..Least(a.used, a.size) |-> a.slots[i - 1]]

\* A command that is not answered Ok leaves every array as it was, also when
\* it was given several items and only one of them cannot be stored.  (An item
\* of another type that can be converted is stored and answered Ok, although
\* docs/docs/client_apis/python/arr/set_rng.md:44 has it refused.)
RefusedChangesNothing ==
  [][process' = "running" /\ rsp'.st \notin {"Ok", "none"} =>
       arrays' = arrays]_arrVars

\* Whatever was cleared before, clearing [start, stop) of an array that is
\* within its size takes out the items held there and keeps the others, in
\* their order.
ClearKeepsTheRest ==
  [][\A n \in Name :
       LET a == arrays[n]
           start == rsp'.args[1]
           end == Least(a.used, StopOf(a, rsp'.args[2]))
       IN  rsp'.cmd = "CLEAR" /\ rsp'.name = n /\ rsp'.st = "Ok" /\ ~damaged'
           /\ a.used <= a.size =>
             Held(arrays'[n]) =
               SubSeq(Held(a), 1, start) \o SubSeq(Held(a), end + 1, a.used)]_arrVars
=============================================================================
