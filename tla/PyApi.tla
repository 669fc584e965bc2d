------------------------------- MODULE PyApi -------------------------------
(***************************************************************************)
(* Clients of the server: the wrappers of the Python API                   *)
(* (apis/python/ndb/kv.py, arrays.py, lists.py, sv.py), NdbClient.sendCmd   *)
(* under them (client.py), and plain websockets.  A client waits for the   *)
(* answer to a call before it makes the next (what happens otherwise is in  *)
(* PyConnection); the server handles one message at a time (Dispatch).     *)
(*                                                                         *)
(* A call is a record of the way it is made - "wrapper", "sendCmd" or      *)
(* "socket" - and the message that is sent.                                *)
(***************************************************************************)
EXTENDS Dispatch

CONSTANT Calls  \* for each client the calls it may make

Client == DOMAIN Calls

VARIABLE call   \* for each client its last call, with its answer and its end

vars == <<prepared, call>>

-----------------------------------------------------------------------------
(* What the wrappers send.                                                 *)

KvBody ==
  [op \in DOMAIN KvParams |->
     CASE op \in {"CLEAR", "COUNT", "KEYS"} -> {{}}
       [] op \in {"SAVE", "LOAD"} -> {{"name"}}
       [] OTHER -> {{"keys"}}]

ArrBody ==
  [CREATE |-> {{"name", "len"}}, DELETE |-> {{"name"}}, DELETE_ALL |-> {{}},
   LEN |-> {{"name"}}, USED |-> {{"name"}}, EXIST |-> {{"name"}},
   CLEAR |-> {{"name", "rng"}}, GET |-> {{"name", "pos"}}, GET_RNG |-> {{"name", "rng"}}]

UnsortedBody ==
  [SET |-> {{"name", "item"}, {"name", "item", "pos"}},
   SET_RNG |-> {{"name", "items"}, {"name", "items", "pos"}},
   SWAP |-> {{"name", "posA", "posB"}}]

SortedBody ==
  [SET |-> {{"name", "item"}}, SET_RNG |-> {{"name", "items"}},
   INTERSECT |-> {{"srcA", "srcB"}}]

\* Sorted arrays of strings have no min() and max().
ExtremeBody == [MIN |-> {{"name", "n"}}, MAX |-> {{"name", "n"}}]

LstBody ==
  [CREATE |-> {{"name"}}, DELETE |-> {{"name"}}, DELETE_ALL |-> {{}},
   EXIST |-> {{"name"}}, LEN |-> {{"name"}},
   RMV |-> {{"name", "rng"}, {"name", "head"}, {"name", "tail"}},
   SPLICE |-> {{"srcName", "destName", "srcRng"},
               {"srcName", "destName", "srcRng", "destPos"}},
   ADD |-> {{"name", "items"}, {"name", "items", "pos"}},
   SET_RNG |-> {{"name", "pos", "items"}},
   GET |-> {{"name"}, {"name", "pos"}},
   GET_RNG |-> {{"name", "rng"}}]

\* The wrappers of each type: the command of each with the members it sends.
\* (Plausible bug: the wrappers of the sorted arrays offer SWAP.)
BodiesSwapping(ident) ==
  CASE ident = "KV" -> KvBody
    [] ident = "OLST" -> LstBody
    [] ident \in Unsorted \cup Sorted -> Both(ArrBody, UnsortedBody)
    [] ident = "SV" -> [INFO |-> {{}}]

Bodies(ident) ==
  CASE ident = "KV" -> KvBody
    [] ident = "OLST" -> LstBody
    [] ident \in Unsorted -> Both(ArrBody, UnsortedBody)
    [] ident = "SIARR" -> Both(Both(ArrBody, SortedBody), ExtremeBody)
    [] ident = "SSTRARR" -> Both(ArrBody, SortedBody)
    [] ident = "SV" -> [INFO |-> {{}}]

\* The values a wrapper lets pass.  Those of the arrays and of KV test no types and
\* no signs; a negative position is an integer, not an unsigned one.
PyValues(cmd, member) ==
  CASE member \in {"len", "n"} -> {"uint"}
    [] member \in {"head", "tail"} -> {"bool"}
    [] member \in {"pos", "posA", "posB"} -> IF IsLst(cmd) THEN {"uint"} ELSE {"uint", "int"}
    [] member = "destPos" -> {"uint"}
    [] member \in {"rng", "srcRng"} ->
         IF IsLst(cmd) THEN {"[1]", "[1,2]"}
         ELSE IF cmd.op = "CLEAR" THEN {"[1]", "[1,2]", "[2,1]", "[odd]"}
         ELSE {"[1]", "[1,2]", "[odd]"}
    [] member = "items" -> {"[]", "[1,2]", "[odd]"} \cup (IF IsLst(cmd) THEN {} ELSE {"object"})
    [] member = "item" -> Scalar
    [] member = "keys" ->
         CASE cmd.op = "GET" -> {"[]", "[1]", "[odd]"}
           [] cmd.op = "RMV" -> {"[1]", "[odd]", "object"}
           [] OTHER -> {"[]", "[1]", "object"}
    [] OTHER -> {"string", "uint"}

Message(form, cmd, body) == [form |-> form, cmd |-> cmd, body |-> body]

\* The bodies with the given members.
BodiesWith(cmd, members) ==
  {body \in [members -> UNION {PyValues(cmd, m) : m \in members}] :
     \A m \in members : body[m] \in PyValues(cmd, m)}

WrapperMessages ==
  UNION {UNION {UNION {
    {Message("command", [ident |-> ident, op |-> op], body) :
       body \in BodiesWith([ident |-> ident, op |-> op], members)} :
    members \in Bodies(ident)[op]} :
    op \in DOMAIN Bodies(ident)} :
    ident \in Idents \cup {"SV"}}

ASSUME CallsAssumption ==
  \A c \in Client : \A k \in Calls[c] :
    /\ k.via \in {"wrapper", "sendCmd", "socket"}
    /\ k.msg.cmd \in [ident : STRING, op : STRING]
    /\ k.via = "wrapper" => k.msg \in WrapperMessages

-----------------------------------------------------------------------------
(* How a call ends.                                                        *)

IsExist(cmd) == ~IsKv(cmd) /\ cmd.op = "EXIST"

\* The status that _raise_if_invalid expects.
Expected(cmd) ==
  CASE IsKv(cmd) /\ cmd.op = "SAVE" -> "SaveComplete"
    [] IsKv(cmd) /\ cmd.op = "LOAD" -> "LoadComplete"
    [] OTHER -> "Ok"

\* Wrappers that read a member of the response.
Reads(cmd) ==
  CASE IsKv(cmd) -> cmd.op \in {"GET", "COUNT", "CONTAINS", "KEYS", "CLEAR", "CLEAR_SET", "LOAD"}
    [] IsArr(cmd) -> cmd.op \in {"LEN", "USED", "GET", "GET_RNG", "MIN", "MAX", "INTERSECT"}
    [] IsLst(cmd) -> cmd.op \in {"LEN", "RMV", "ADD", "GET", "GET_RNG"}
    [] OTHER -> FALSE

\* (Plausible bug: the general error is not looked for.)
RaiseIfInvalidNamed(cmd, a) == a.name = cmd /\ a.st # Expected(cmd)

\* _raise_if_invalid raises a ResponseError.
RaiseIfInvalid(cmd, a) ==
  \/ a.name = cmd /\ a.st # Expected(cmd)
  \/ a.name = Err

\* exist() does not check the status; info() reads with dict.get().
SentOverApi(via, cmd, a) ==
  IF via = "wrapper" /\ IsExist(cmd) THEN IF a.name = cmd THEN "returned" ELSE "KeyError"
  ELSE IF RaiseIfInvalid(cmd, a) THEN "ResponseError"
  ELSE IF via = "wrapper" /\ Reads(cmd) /\ a.name # cmd THEN "KeyError"
  ELSE IF via = "wrapper" /\ cmd = Info /\ a.name # cmd THEN "TypeError"
  ELSE "returned"

NoCall == [phase |-> "idle", via |-> "socket", msg |-> Message("value", NoName, <<>>),
           answer |-> ErrAnswer("CommandSyntax"), end |-> "returned"]

Init ==
  /\ prepared = NoName
  /\ call = [c \in Client |-> NoCall]

Start(c) ==
  /\ call[c].phase = "idle"
  /\ \E k \in Calls[c] :
       call' = [call EXCEPT ![c] = [NoCall EXCEPT !.phase = "sent", !.via = k.via,
                                                  !.msg = k.msg]]
  /\ UNCHANGED prepared

Serve(c) ==
  /\ call[c].phase = "sent"
  /\ Keeps(call[c].msg)
  /\ \E a \in Answers(call[c].msg) :
       call' = [call EXCEPT ![c].phase = "answered", ![c].answer = a]

End(c) ==
  /\ call[c].phase = "answered"
  /\ call' = [call EXCEPT
                ![c].phase = "ended",
                ![c].end = IF call[c].via = "socket" THEN "returned"
                           ELSE SentOverApi(call[c].via, call[c].msg.cmd, call[c].answer)]
  /\ UNCHANGED prepared

\* The caller goes on.
Leave(c) ==
  /\ call[c].phase = "ended"
  /\ call' = [call EXCEPT ![c] = NoCall]
  /\ UNCHANGED prepared

Next == \E c \in Client : Start(c) \/ Serve(c) \/ End(c) \/ Leave(c)

\* The loop handles what has come, and a response that has come is read.
Fairness == \A c \in Client : WF_vars(Serve(c)) /\ WF_vars(End(c))

Spec == Init /\ [][Next]_vars /\ Fairness
-----------------------------------------------------------------------------
(* Properties.                                                             *)

Ended(c, via) == call[c].phase = "ended" /\ call[c].via = via

\* Whether a server that answers a to cmd did what it was asked.
Done(cmd, a) == a = Answer(cmd, Expected(cmd))

\* What is sent with sendCmd does not return as if it were done when the server
\* refused it or failed, but in two cases: the errors of ADD have the name of CREATE,
\* and an unknown command is answered under the name of the first unknown one.
\* Neither name is looked for.
NeverSilent ==
  \A c \in Client :
    Ended(c, "sendCmd") /\ call[c].end = "returned" =>
      LET cmd == call[c].msg.cmd
      IN  \/ Done(cmd, call[c].answer)
          \/ IsLst(cmd) /\ cmd.op = "ADD" /\ call[c].answer.name # cmd
          \/ UnknownType(cmd) /\ prepared # cmd

\* A wrapper whose command is refused raises the documented ResponseError, whatever
\* part of the server refuses it: but add() of a list whose name or items are
\* refused raises KeyError, for it looks under a name that is not CREATE's, and
\* exist() returns, or raises KeyError for want of its response.
RefusedIsResponseError ==
  \A c \in Client :
    Ended(c, "wrapper") /\ ~Done(call[c].msg.cmd, call[c].answer) =>
      LET cmd == call[c].msg.cmd
          end == call[c].end
      IN  \/ end = "ResponseError"
          \/ IsLst(cmd) /\ cmd.op = "ADD" /\ end = "KeyError"
             /\ call[c].answer.st \in {"NotExist", "ValueTypeInvalid"}
          \/ IsExist(cmd) /\ end = (IF call[c].answer.name = cmd THEN "returned"
                                   ELSE "KeyError")

\* Client and server agree on the commands: what a wrapper sends is never refused for
\* its name, for a member it left out, or for its syntax - but for clear() of a
\* range that ends before it starts, which arrays do not refuse either.
WrappersAreKnown ==
  \A c \in Client :
    call[c].phase = "answered" /\ call[c].via = "wrapper" =>
      call[c].answer.st \notin {"CommandNotExist", "CommandSyntax", "ParamMissing", "ValueSize"}

\* Every message gets an answer, so every call ends.
CallEnds == \A c \in Client : call[c].phase = "sent" ~> call[c].phase = "ended"
=============================================================================
