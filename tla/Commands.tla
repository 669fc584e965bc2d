------------------------------ MODULE Commands ------------------------------
(***************************************************************************)
(* The commands the server knows, the parameters it validates them by      *)
(* (core/*/*Commands.h, core/*/*CommandValidate.h, isCmdValid and          *)
(* isArrayCmdValid).                                                       *)
(*                                                                         *)
(* A command is a record of the part of its name before the first          *)
(* underscore and the rest.  A JSON value is what the validators tell      *)
(* apart of it: its type, and of an array its shape.                       *)
(***************************************************************************)
EXTENDS Integers, Sequences, SequencesExt

Unsorted == {"OARR", "IARR", "STRARR"}
Sorted == {"SIARR", "SSTRARR"}

\* The idents for which handleMessage has a handler.
Idents == {"KV", "OLST"} \cup Unsorted \cup Sorted

\* Arrays by shape: empty; one position; two; two, the first behind the second;
\* more than two; and one with an element of a type the command does not take.
Shape == {"[]", "[1]", "[1,2]", "[2,1]", "[1,2,3]", "[odd]"}
Scalar == {"string", "uint", "int", "bool", "object"}

TypeOf(v) == IF v \in Shape THEN "array" ELSE v

-----------------------------------------------------------------------------
(* The parameters of each command, in the order of the std::map that       *)
(* isCmdValid walks.  A command that has no entry is not handled.          *)

Par(member, type, use) == [member |-> member, type |-> type, use |-> use]
Req(member, type) == Par(member, type, "required")
Opt(member, type) == Par(member, type, "optional")

Named == <<Req("name", "string")>>
Keys(type) == <<Req("keys", type)>>

KvParams ==
  [SET |-> Keys("object"), ADD |-> Keys("object"), CLEAR_SET |-> Keys("object"),
   GET |-> Keys("array"), RMV |-> Keys("array"), CONTAINS |-> Keys("array"),
   CLEAR |-> <<>>, COUNT |-> <<>>, KEYS |-> <<>>,
   SAVE |-> Named, LOAD |-> Named]

\* What both kinds of arrays handle.
ArrParams ==
  [CREATE |-> <<Req("len", "uint")>> \o Named,
   DELETE |-> Named, EXIST |-> Named, LEN |-> Named, USED |-> Named,
   DELETE_ALL |-> <<>>,
   GET |-> Named \o <<Req("pos", "uint")>>,
   GET_RNG |-> Named \o <<Req("rng", "array")>>,
   CLEAR |-> Named \o <<Req("rng", "array")>>]

Item == Par("item", "any", "variable")

UnsortedParams ==
  [SET |-> <<Item>> \o Named \o <<Opt("pos", "uint")>>,
   SET_RNG |-> <<Req("items", "array")>> \o Named \o <<Opt("pos", "uint")>>,
   SWAP |-> Named \o <<Req("posA", "uint"), Req("posB", "uint")>>]

SortedParams ==
  [SET |-> <<Item>> \o Named,
   SET_RNG |-> <<Req("items", "array")>> \o Named,
   INTERSECT |-> <<Req("srcA", "string"), Req("srcB", "string")>>,
   MIN |-> <<Req("n", "uint")>> \o Named,
   MAX |-> <<Req("n", "uint")>> \o Named]

LstParams ==
  [CREATE |-> Named, DELETE |-> Named, EXIST |-> Named, LEN |-> Named,
   DELETE_ALL |-> <<>>,
   ADD |-> <<Req("items", "array")>> \o Named \o <<Opt("pos", "uint")>>,
   SET_RNG |-> <<Req("items", "array")>> \o Named \o <<Req("pos", "uint")>>,
   GET |-> Named \o <<Opt("pos", "uint")>>,
   GET_RNG |-> Named \o <<Req("rng", "array")>>,
   RMV |-> <<Opt("head", "bool")>> \o Named \o <<Opt("rng", "array"), Opt("tail", "bool")>>,
   SPLICE |-> <<Req("destName", "string"), Opt("destPos", "uint"),
                Req("srcName", "string"), Req("srcRng", "array")>>]

\* The entries of two tables that have no command in common.
Both(f, g) ==
  [op \in DOMAIN f \cup DOMAIN g |-> IF op \in DOMAIN f THEN f[op] ELSE g[op]]

UnsortedHandler == Both(ArrParams, UnsortedParams)
SortedHandler == Both(ArrParams, SortedParams)

\* The handler of a type of command: the names it handles with their parameters.
\* A name its table has for the other kind of array - SWAP of a sorted one - is
\* answered as one that no table has.
HandlerOf(ident) ==
  CASE ident = "KV" -> KvParams
    [] ident = "OLST" -> LstParams
    [] ident \in Unsorted -> UnsortedHandler
    [] ident \in Sorted -> SortedHandler

IsArr(cmd) == cmd.ident \in Unsorted \cup Sorted
IsLst(cmd) == cmd.ident = "OLST"
IsKv(cmd) == cmd.ident = "KV"

Handled(cmd) == cmd.ident \in Idents /\ cmd.op \in DOMAIN HandlerOf(cmd.ident)

Params(cmd) == HandlerOf(cmd.ident)[cmd.op]

Members(cmd) == {Params(cmd)[i].member : i \in DOMAIN Params(cmd)}

-----------------------------------------------------------------------------
(* Validation.  "throws" stands for an exception that leaves the validator. *)

\* Cmds::isTypeValid
IsTypeValid(ident, v) ==
  CASE ident \in {"OARR", "OLST"} -> v = "object"
    [] ident \in {"IARR", "SIARR"} -> v \in {"uint", "int"}
    [] ident \in {"STRARR", "SSTRARR"} -> v = "string"

\* A parameter of variable type is read without being looked for.
ItemStatus(ident, body, member) ==
  IF member \notin DOMAIN body THEN "throws"
  ELSE IF IsTypeValid(ident, body[member]) THEN "Ok" ELSE "ValueTypeInvalid"

ParamStatus(body, p) ==
  IF p.member \notin DOMAIN body
  THEN IF p.use = "required" THEN "ParamMissing" ELSE "Ok"
  ELSE IF TypeOf(body[p.member]) = p.type THEN "Ok" ELSE "ValueTypeInvalid"

\* checkRng of GET_RNG and, if it has a range, of RMV.
RangeStatus(rng) ==
  CASE rng \in {"[]", "[1,2,3]"} -> "ValueSize"
    [] rng = "[odd]" -> "ValueTypeInvalid"
    [] rng = "[2,1]" -> "CommandSyntax"
    [] OTHER -> "Ok"

\* checkRange of CLEAR does not compare the two.
ClearStatus(rng) ==
  CASE rng \in {"[]", "[1,2,3]"} -> "CommandSyntax"
    [] rng = "[odd]" -> "ValueTypeInvalid"
    [] OTHER -> "Ok"

\* What is checked once the parameters are right: onPostValidate.  The one of
\* SET_RNG of an array is never called.
PostStatus(cmd, body) ==
  CASE IsKv(cmd) /\ cmd.op = "RMV" -> IF body["keys"] = "[]" THEN "ValueSize" ELSE "Ok"
    [] IsArr(cmd) /\ cmd.op = "GET_RNG" -> RangeStatus(body["rng"])
    [] IsArr(cmd) /\ cmd.op = "CLEAR" -> ClearStatus(body["rng"])
    [] IsLst(cmd) /\ cmd.op = "GET_RNG" -> RangeStatus(body["rng"])
    [] IsLst(cmd) /\ cmd.op = "RMV" /\ "rng" \in DOMAIN body -> RangeStatus(body["rng"])
    [] IsLst(cmd) /\ cmd.op \in {"ADD", "SET_RNG"} ->
         IF body["items"] = "[odd]" THEN "ValueTypeInvalid" ELSE "Ok"
    [] OTHER -> "Ok"

\* The first parameter that is wrong decides.
Validate(cmd, body) ==
  LET params == Params(cmd)
      status == [i \in DOMAIN params |->
                   IF params[i].use = "variable"
                   THEN ItemStatus(cmd.ident, body, params[i].member)
                   ELSE ParamStatus(body, params[i])]
      i == SelectInSeq(status, LAMBDA st : st # "Ok")
  IN  IF i # 0 THEN status[i] ELSE PostStatus(cmd, body)
=============================================================================
