------------------------------ MODULE ObjLists ------------------------------
(***************************************************************************)
(* The object lists of core/lst: LstHandler, ListExecutor and List.  A     *)
(* list is a std::list, here a sequence; positions count from 0, as in the *)
(* code, and are cut at the end of the list by getIterator.                *)
(*                                                                         *)
(* One thread runs every command, and lists are not saved.  Where the code *)
(* links or writes nodes past the end node of a std::list the behaviour is *)
(* undefined, and what it leaves need not be a list at all (a cycle, an    *)
(* item in the place of the size): the process is "undefined" until it     *)
(* dies, and nothing is said of its lists and its answers until then.      *)
(* Where it only reads the end node, the lists are as they were, but the   *)
(* command may answer anything or kill the process.                        *)
(***************************************************************************)
EXTENDS Integers, Sequences, FiniteSets

CONSTANTS
  Name,         \* names of lists
  Item,         \* JSON objects
  MaxRspSize,   \* lists::maxResponseSize of the configuration
  MaxLen,       \* bound on the length of a list
  MaxItems,     \* bound on the items of one request
  Garbage       \* what reading the end node as an item gives

ASSUME ListBoundsAssumption ==
  MaxRspSize \in Nat /\ MaxLen \in Nat /\ MaxItems \in Nat
ASSUME GarbageAssumption == Garbage \notin Item /\ "none" \notin Name

VARIABLES
  process,   \* "running", "undefined" or "down"
  lists,     \* LstHandler::m_lists: its domain is the names of the lists
  rsp        \* the last command: what it was given and what it answered

vars == <<process, lists, rsp>>

Position == 0..MaxLen

\* A parameter the request leaves out.
Absent == -1

Batch == UNION {[1..k -> Item] : k \in 0..MaxItems}

List == UNION {[1..k -> Item] : k \in 0..MaxLen}

Exists(n) == n \in DOMAIN lists

-----------------------------------------------------------------------------
(* class List.                                                             *)

Least(a, b) == IF a <= b THEN a ELSE b

getIterator(s, pos) == Least(Len(s), pos)

isInbounds(s, pos) == pos < Len(s)

\* The items of [start, stop).
Part(s, start, stop) == SubSeq(s, start + 1, stop)

\* std::list::insert of items at pos.
Inserted(s, pos, items) == Part(s, 0, pos) \o items \o Part(s, pos, Len(s))

\* std::list::erase of [start, stop).
Erased(s, start, stop) == Part(s, 0, start) \o Part(s, stop, Len(s))

-----------------------------------------------------------------------------
(* How a command ends.  The response carries a name of its own, `as'; the   *)
(* size is that of the list, whether or not the response carries it.       *)

\* `outside' is history: the command left the nodes of a list.

NoRsp == [cmd |-> "none", as |-> "none", name |-> "none", args |-> <<>>,
          st |-> "none", items |-> <<>>, size |-> 0, outside |-> FALSE]

Reply(cmd, n, args, items, size) ==
  rsp' = [cmd |-> cmd, as |-> cmd, name |-> n, args |-> args, st |-> "Ok",
          items |-> items, size |-> size, outside |-> FALSE]

Refuse(cmd, as, n, st) ==
  /\ process = "running"
  /\ rsp' = [cmd |-> cmd, as |-> as, name |-> n, args |-> <<>>, st |-> st,
             items |-> <<>>, size |-> 0, outside |-> FALSE]
  /\ UNCHANGED <<process, lists>>

Update(cmd, n, args, s) ==
  /\ process = "running"
  /\ lists' = [lists EXCEPT ![n] = s]
  /\ Reply(cmd, n, args, <<>>, Len(s))
  /\ UNCHANGED process

Show(cmd, n, args, items) ==
  /\ process = "running"
  /\ Reply(cmd, n, args, items, Len(lists[n]))
  /\ UNCHANGED <<process, lists>>

\* A command that std::list does not define.
Outside(cmd, n, args) ==
  [NoRsp EXCEPT !.cmd = cmd, !.name = n, !.args = args, !.outside = TRUE]

Overrun(cmd, n, args) ==
  /\ process = "running"
  /\ process' = "undefined"
  /\ rsp' = Outside(cmd, n, args)
  /\ UNCHANGED lists

\* One that takes the end node for an item: copying it kills the process, or
\* throws, or gives something.
ReadEndNode(cmd, n, args, items) ==
  /\ process = "running"
  /\ \/ /\ process' = "down"
        /\ lists' = [m \in {} |-> <<>>]
        /\ rsp' = Outside(cmd, n, args)
     \/ /\ rsp' = [Outside(cmd, n, args) EXCEPT !.as = cmd, !.st = "Unknown"]
        /\ UNCHANGED <<process, lists>>
     \/ /\ rsp' = [Outside(cmd, n, args) EXCEPT !.as = cmd, !.st = "Ok",
                                                !.items = items,
                                                !.size = Len(lists[n])]
        /\ UNCHANGED <<process, lists>>

\* validateAndExecute: the request is validated, then the list looked up.  The
\* table of handlers gives ADD the response name of CREATE for its errors.
ErrorName(cmd) == IF cmd = "ADD" THEN "CREATE" ELSE cmd

NotExist(cmd, n) == ~Exists(n) /\ Refuse(cmd, ErrorName(cmd), n, "NotExist")

Invalid(cmd, n, st) == Refuse(cmd, ErrorName(cmd), n, st)

-----------------------------------------------------------------------------
(* The commands of LstHandler.                                             *)

\* The process dies of what an undefined command left.
Dies ==
  /\ process = "undefined"
  /\ process' = "down"
  /\ lists' = [m \in {} |-> <<>>]
  /\ rsp' = NoRsp

Start ==
  /\ process = "down"
  /\ process' = "running"
  /\ rsp' = NoRsp
  /\ UNCHANGED lists

\* createList: the lists with an empty one added, or as they are.
WithList(n) ==
  [m \in DOMAIN lists \cup {n} |-> IF Exists(m) THEN lists[m] ELSE <<>>]

Create(n) ==
  \/ Exists(n) /\ Refuse("CREATE", "CREATE", n, "Duplicate")
  \/ /\ ~Exists(n) /\ process = "running"
     /\ lists' = WithList(n)
     /\ Reply("CREATE", n, <<>>, <<>>, 0)
     /\ UNCHANGED process

Delete(n) ==
  \/ NotExist("DELETE", n)
  \/ /\ Exists(n) /\ process = "running"
     /\ lists' = [m \in DOMAIN lists \ {n} |-> lists[m]]
     /\ Reply("DELETE", n, <<>>, <<>>, 0)
     /\ UNCHANGED process

DeleteAll ==
  /\ process = "running"
  /\ lists' = [m \in {} |-> <<>>]
  /\ Reply("DELETE_ALL", "none", <<>>, <<>>, 0)
  /\ UNCHANGED process

Exist(n) ==
  \/ NotExist("EXIST", n)
  \/ Exists(n) /\ Show("EXIST", n, <<>>, <<>>)

-----------------------------------------------------------------------------
(* The commands of ListExecutor.                                           *)

\* (Plausible bug: the position answered is the one asked for.)
AddAnswersPosAsked(n, pos, items) ==
  \/ NotExist("ADD", n)
  \/ /\ Exists(n)
     /\ LET s == lists[n]
            at == IF pos = Absent THEN Len(s) ELSE getIterator(s, pos)
            asked == IF pos = Absent THEN at ELSE pos
        IN  /\ Len(s) + Len(items) <= MaxLen
            /\ Update("ADD", n, <<asked, items>>, Inserted(s, at, items))

\* Without a position the items go to the tail.
Add(n, pos, items) ==
  \/ NotExist("ADD", n)
  \/ /\ Exists(n)
     /\ LET s == lists[n]
            at == IF pos = Absent THEN Len(s) ELSE getIterator(s, pos)
        IN  /\ Len(s) + Len(items) <= MaxLen
            /\ Update("ADD", n, <<at, items>>, Inserted(s, at, items))

\* List::setRange overwrites min(size, items) nodes from pos, wherever the list
\* ends: only pos itself has been tested.
Overwrite(n, pos, items) ==
  LET s == lists[n]
      stop == pos + Least(Len(s), Len(items))
      args == <<pos, items>>
  IN  \/ /\ stop <= Len(s)
         /\ Update("SET_RNG", n, args,
                   Part(s, 0, pos) \o Part(items, 0, stop - pos)
                                   \o Part(s, stop, Len(s)))
      \/ stop > Len(s) /\ Overrun("SET_RNG", n, args)

\* (Plausible bug: the position one past the tail is let through.)
SetRangeOneFurther(n, pos, items) ==
  \/ NotExist("SET_RNG", n)
  \/ Exists(n) /\ pos > Len(lists[n]) /\ Refuse("SET_RNG", "SET_RNG", n, "Bounds")
  \/ Exists(n) /\ pos <= Len(lists[n]) /\ Overwrite(n, pos, items)

SetRange(n, pos, items) ==
  \/ NotExist("SET_RNG", n)
  \/ /\ Exists(n) /\ ~isInbounds(lists[n], pos)
     /\ Refuse("SET_RNG", "SET_RNG", n, "Bounds")
  \/ Exists(n) /\ isInbounds(lists[n], pos) /\ Overwrite(n, pos, items)

\* Without a position, the tail.
Get(n, pos) ==
  \/ NotExist("GET", n)
  \/ /\ Exists(n)
     /\ LET s == lists[n]
            at == IF pos # Absent THEN pos ELSE IF s = <<>> THEN 0 ELSE Len(s) - 1
        IN  \/ ~isInbounds(s, at) /\ Refuse("GET", "GET", n, "Bounds")
            \/ isInbounds(s, at) /\ Show("GET", n, <<pos>>, <<s[at + 1]>>)

Length(n) ==
  \/ NotExist("LEN", n)
  \/ Exists(n) /\ Show("LEN", n, <<>>, <<>>)

\* The validator refuses these.
Reversed(start, stop) == stop # Absent /\ start > stop

\* (Plausible bug: a range that ends before it starts is not refused.)
GetRangeUnvalidated(n, start, stop) ==
  \/ NotExist("GET_RNG", n)
  \/ /\ Exists(n)
     /\ LET s == lists[n]
            end == Least(getIterator(s, IF stop = Absent THEN Len(s) ELSE stop),
                         MaxRspSize)
            args == <<start, stop>>
        IN  \/ start <= end /\ Show("GET_RNG", n, args, Part(s, start, end))
            \/ /\ start > end
               /\ ReadEndNode("GET_RNG", n, args,
                    Part(s, start, Len(s)) \o <<Garbage>> \o Part(s, 0, end))

\* getRange cuts the stop at the limit on a response.  From a start behind that
\* the iterator runs over the end node and on from the head.
GetRange(n, start, stop) ==
  \/ Reversed(start, stop) /\ Invalid("GET_RNG", n, "CommandSyntax")
  \/ ~Reversed(start, stop) /\ NotExist("GET_RNG", n)
  \/ /\ ~Reversed(start, stop) /\ Exists(n)
     /\ LET s == lists[n]
            end == Least(getIterator(s, IF stop = Absent THEN Len(s) ELSE stop),
                         MaxRspSize)
            args == <<start, stop>>
        IN  \/ ~isInbounds(s, start) /\ Show("GET_RNG", n, args, <<>>)
            \/ /\ isInbounds(s, start) /\ start <= end
               /\ Show("GET_RNG", n, args, Part(s, start, end))
            \/ /\ isInbounds(s, start) /\ start > end
               /\ ReadEndNode("GET_RNG", n, args,
                    Part(s, start, Len(s)) \o <<Garbage>> \o Part(s, 0, end))

\* The head, then the tail, then the range of what is left: one command may ask
\* for all three.  Nothing tests that there is a head or a tail.
Remove(n, head, tail, start, stop) ==
  \/ Reversed(start, stop) /\ Invalid("RMV", n, "CommandSyntax")
  \/ ~Reversed(start, stop) /\ NotExist("RMV", n)
  \/ /\ ~Reversed(start, stop) /\ Exists(n)
     /\ LET s == lists[n]
            first == IF head THEN 1 ELSE 0
            last == Len(s) - IF tail THEN 1 ELSE 0
            left == Part(s, first, last)
            end == getIterator(left, IF stop = Absent THEN Len(left) ELSE stop)
            args == <<head, tail, start, stop>>
        IN  \/ /\ first > last
               /\ Overrun("RMV", n, args)
            \/ /\ first <= last
               /\ Update("RMV", n, args,
                         IF start = Absent THEN left
                         ELSE Erased(left, getIterator(left, start), end))

-----------------------------------------------------------------------------
(* SPLICE: the nodes of [start, stop) of src go to destPos of dest.        *)

\* body.at() throws before the request is validated.
SpliceNotNamed == Refuse("SPLICE", "ERR", "none", "Unknown")

SpliceInvalid(dest) == Refuse("SPLICE", "SPLICE", dest, "ValueTypeInvalid")

\* (Plausible bug: the destination is created before the source is looked up.)
SpliceNoSourceCreates(dest, src) ==
  /\ process = "running" /\ ~Exists(src)
  /\ lists' = WithList(dest)
  /\ rsp' = [NoRsp EXCEPT !.cmd = "SPLICE", !.as = "SPLICE", !.name = dest,
                          !.st = "NotExist"]
  /\ UNCHANGED process

SpliceNoSource(dest, src) ==
  ~Exists(src) /\ Refuse("SPLICE", "SPLICE", dest, "NotExist")

\* The destination is created before srcRng is read, and a srcRng that is no
\* range makes reading it throw.
SpliceBadRange(dest, src) ==
  /\ process = "running" /\ Exists(src)
  /\ lists' = WithList(dest)
  /\ rsp' = [NoRsp EXCEPT !.cmd = "SPLICE", !.as = "SPLICE", !.name = dest,
                          !.st = "Unknown"]
  /\ UNCHANGED process

\* (Plausible bug: the nodes are copied.)
MovedCopies(made, dest, src, p, i, j) ==
  [made EXCEPT ![dest] = Inserted(made[dest], p, Part(made[src], i, j))]

\* What both lists hold once the nodes [i, j) of src are linked at p of dest.
Moved(made, dest, src, p, i, j) ==
  LET run == Part(made[src], i, j)
      left == Erased(made[src], i, j)
      at == IF dest = src /\ p > i THEN p - (j - i) ELSE p
      into == IF dest = src THEN left ELSE made[dest]
  IN  [m \in DOMAIN made |-> IF m = dest THEN Inserted(into, at, run)
                             ELSE IF m = src THEN left ELSE made[m]]

\* Undefined for a range that ends before it starts, and for a position inside
\* the range of the same list.
Splice(dest, src, start, stop, destPos) ==
  /\ Exists(src)
  /\ LET made == WithList(dest)
         p == getIterator(made[dest],
                          IF destPos = Absent THEN Len(made[dest]) ELSE destPos)
         i == getIterator(made[src], start)
         j == getIterator(made[src],
                          IF stop = Absent THEN Len(made[src]) ELSE stop)
         args == <<src, start, stop, destPos>>
         defined == i <= j /\ ~(dest = src /\ p \in i..j - 1)
     IN  \/ ~defined /\ Overrun("SPLICE", dest, args)
         \/ /\ defined /\ process = "running"
            /\ dest # src => Len(made[dest]) + j - i <= MaxLen
            /\ lists' = Moved(made, dest, src, p, i, j)
            /\ Reply("SPLICE", dest, args, <<>>, 0)
            /\ UNCHANGED process

\* The commands whose parameters have a type to check, SPLICE aside.
Validated == {"CREATE", "DELETE", "EXIST", "ADD", "SET_RNG", "GET", "GET_RNG", "RMV",
              "LEN"}

Init ==
  /\ process = "running"
  /\ lists = [m \in {} |-> <<>>]
  /\ rsp = NoRsp

Next ==
  \/ Start \/ Dies
  \/ DeleteAll
  \/ SpliceNotNamed
  \/ \E n \in Name :
       \/ Create(n) \/ Delete(n) \/ Exist(n) \/ Length(n)
       \/ \E cmd \in Validated : Invalid(cmd, n, "ValueTypeInvalid")
       \/ \E pos \in Position \cup {Absent} : Get(n, pos)
       \/ \E pos \in Position, items \in Batch : SetRange(n, pos, items)
       \/ \E pos \in Position \cup {Absent}, items \in Batch : Add(n, pos, items)
       \/ \E start \in Position, stop \in Position \cup {Absent} :
            \/ GetRange(n, start, stop)
            \/ \E head, tail \in BOOLEAN : Remove(n, head, tail, start, stop)
       \/ \E head, tail \in BOOLEAN : Remove(n, head, tail, Absent, Absent)
       \/ SpliceInvalid(n)
       \/ \E src \in Name :
            \/ SpliceNoSource(n, src)
            \/ SpliceBadRange(n, src)
            \/ \E start \in Position, stop, destPos \in Position \cup {Absent} :
                 Splice(n, src, start, stop, destPos)

Spec == Init /\ [][Next]_vars
-----------------------------------------------------------------------------
(* Properties.                                                             *)

TypeOK ==
  /\ process \in {"running", "undefined", "down"}
  /\ lists \in UNION {[names -> List] : names \in SUBSET Name}

Places(held, x) ==
  {p \in (DOMAIN held) \X (1..MaxLen) :
     p[2] <= Len(held[p[1]]) /\ held[p[1]][p[2]] = x}

\* Splicing moves items: whatever the two lists and the range are, also when
\* they are the same list, no item is lost and none is there twice.
SpliceConserves ==
  [][rsp'.cmd = "SPLICE" /\ process' = "running" =>
       \A x \in Item : Cardinality(Places(lists', x)) = Cardinality(Places(lists, x))]_vars

\* The position and the size that ADD answers are those of the items just
\* added, also when the position asked for lies behind the tail.
AddedWhereAnswered ==
  rsp.cmd = "ADD" /\ rsp.st = "Ok" =>
    LET at == rsp.args[1]
        items == rsp.args[2]
        s == lists[rsp.name]
    IN  /\ rsp.size = Len(s)
        /\ at + Len(items) <= Len(s) /\ Part(s, at, at + Len(items)) = items

\* GET_RNG answers items of the list, from the position asked for and no more
\* than the limit, as long as it is not asked to start behind that limit.
RangeIsOfTheList ==
  rsp.cmd = "GET_RNG" /\ rsp.st = "Ok" /\ rsp.args[1] <= MaxRspSize =>
    LET start == rsp.args[1]
        size == Len(rsp.items)
        s == lists[rsp.name]
    IN  /\ size <= MaxRspSize
        /\ \A i \in 1..size :
             start + i <= Len(s) /\ rsp.items[i] = s[start + i]

\* A command that is not answered Ok leaves every item where it was.  It may
\* leave one thing behind: an empty list, made for a SPLICE that then could not
\* read its range.
RefusedKeepsItems ==
  [][process' = "running" /\ rsp'.st # "Ok" =>
       \/ lists' = lists
       \/ /\ rsp'.cmd = "SPLICE" /\ rsp'.st = "Unknown"
          /\ DOMAIN lists' = DOMAIN lists \cup {rsp'.name}
          /\ lists'[rsp'.name] = <<>>
          /\ \A m \in DOMAIN lists : lists'[m] = lists[m]]_vars

\* The tests of the commands keep every step on the nodes of a list but for:
\* a GET_RNG that starts inside the list and behind the limit on a response, a
\* SET_RNG that starts inside the list and has items left at its end, a
\* removal of a head or a tail that is not there, and a SPLICE of a range that
\* ends before it starts or into the range itself.
OnlyKnownDamage ==
  [][rsp'.outside =>
       LET n == rsp'.name
           args == rsp'.args
           size == Len(lists[n])
       IN  \/ rsp'.cmd = "GET_RNG" /\ MaxRspSize < args[1] /\ args[1] < size
           \/ /\ rsp'.cmd = "SET_RNG" /\ args[1] < size
              /\ args[1] + Len(args[2]) > size
           \/ rsp'.cmd = "RMV" /\ args[1] /\ size = 0
           \/ rsp'.cmd = "RMV" /\ args[2] /\ size < (IF args[1] THEN 2 ELSE 1)
           \/ rsp'.cmd = "SPLICE" /\ args[3] # Absent /\ args[2] > args[3]
           \/ /\ rsp'.cmd = "SPLICE" /\ args[1] = n
              /\ args[4] # Absent /\ args[2] <= args[4]]_vars
=============================================================================
