------------------------------ MODULE Dispatch ------------------------------
(***************************************************************************)
(* The way of a message through the server: onMessage and handleMessage    *)
(* (core/Server.h), the handler of its type (core/*/*Handler.h) and the    *)
(* statuses that executors answer with (core/*/*Executor.h).  What the     *)
(* commands do to the data is in the modules of the components; here an    *)
(* executor may answer whatever it can answer to some data.                *)
(***************************************************************************)
EXTENDS Commands

CONSTANTS
  PersistEnabled,  \* Settings::persistEnabled
  TypeKept         \* the characters `type' views outlive the temporary they were in

ASSUME DispatchAssumption == PersistEnabled \in BOOLEAN /\ TypeKept \in BOOLEAN

VARIABLE prepared  \* the name in the answer to an unknown command, built once

NoName == [ident |-> "", op |-> ""]

\* The name of an answer that does not name its command.
Err == [ident |-> "ERR", op |-> ""]

Answer(name, st) == [name |-> name, st |-> st]

ErrAnswer(st) == Answer(Err, st)

-----------------------------------------------------------------------------
(* The handlers.                                                           *)

\* (Plausible bug: the name of CREATE is taken for SET_RNG as well.)
ErrorNameOfCreate(cmd) ==
  IF IsLst(cmd) /\ cmd.op \in {"ADD", "SET_RNG"} THEN [cmd EXCEPT !.op = "CREATE"] ELSE cmd

\* The name under which validateAndExecute answers errors: that of CREATE for
\* ADD to a list.
ErrorName(cmd) == IF IsLst(cmd) /\ cmd.op = "ADD" THEN [cmd EXCEPT !.op = "CREATE"] ELSE cmd

\* Commands that look up one array or list and answer NotExist if there is none.
LooksUp(cmd) ==
  CASE IsArr(cmd) -> cmd.op \notin {"CREATE", "DELETE", "DELETE_ALL", "EXIST"}
    [] IsLst(cmd) -> cmd.op \notin {"CREATE", "DELETE_ALL", "EXIST"}
    [] OTHER -> FALSE

KvStatus(op) ==
  CASE op = "SAVE" -> {"SaveComplete", "SaveError", "SaveDirWriteFail"}
    [] op = "LOAD" -> {"LoadComplete", "LoadError", "Loading"}
    [] OTHER -> {"Ok"}

ArrStatus(op) ==
  CASE op = "CREATE" -> {"Ok", "Duplicate", "Bounds"}
    [] op = "EXIST" -> {"Ok", "NotExist"}
    [] op = "INTERSECT" -> {"Ok", "Duplicate"}
    [] op \in {"DELETE", "DELETE_ALL", "LEN", "USED"} -> {"Ok"}
    [] OTHER -> {"Ok", "Bounds"}

LstStatus(op) ==
  CASE op = "CREATE" -> {"Ok", "Duplicate"}
    [] op = "EXIST" -> {"Ok", "NotExist"}
    [] op \in {"SET_RNG", "GET"} -> {"Ok", "Bounds"}
    [] OTHER -> {"Ok"}

\* The statuses of a command that runs to its end.
Status(cmd) ==
  IF IsKv(cmd) THEN KvStatus(cmd.op)
  ELSE IF IsLst(cmd) THEN LstStatus(cmd.op) ELSE ArrStatus(cmd.op)

\* Executors and local handlers that catch their own exceptions and answer Unknown
\* under their name.  The others leave it to handle() or to onMessage.
Guarded(cmd) ==
  CASE IsKv(cmd) -> cmd.op \in {"SET", "GET", "ADD", "RMV", "CLEAR_SET"}
    [] IsArr(cmd) -> cmd.op \notin {"GET", "GET_RNG", "LEN", "USED", "EXIST"}
    [] IsLst(cmd) -> cmd.op # "EXIST"

\* An exception: memory, a conversion of an item, the size of a range.
Thrown(cmd) == IF Guarded(cmd) THEN Answer(cmd, "Unknown") ELSE ErrAnswer("Unknown")

Executed(cmd) ==
  {Answer(cmd, st) : st \in Status(cmd)} \cup {Thrown(cmd)}
    \cup (IF LooksUp(cmd) THEN {Answer(ErrorName(cmd), "NotExist")} ELSE {})

ValidateAndExecute(cmd, body) ==
  CASE Validate(cmd, body) = "Ok" -> Executed(cmd)
    [] Validate(cmd, body) = "throws" -> {ErrAnswer("Unknown")}
    [] OTHER -> {Answer(ErrorName(cmd), Validate(cmd, body))}

\* SPLICE reads its names before it validates them; SAVE is refused first.
Handle(cmd, body) ==
  CASE ~Handled(cmd) -> {ErrAnswer("CommandNotExist")}
    [] IsLst(cmd) /\ cmd.op = "SPLICE" /\ ~({"srcName", "destName"} \subseteq DOMAIN body) ->
         {ErrAnswer("Unknown")}
    [] IsKv(cmd) /\ cmd.op = "SAVE" /\ ~PersistEnabled ->
         {Answer(cmd, "CommandDisabled")}
    [] OTHER -> ValidateAndExecute(cmd, body)

-----------------------------------------------------------------------------
(* The server.  A message is a record of its form, the command and the     *)
(* body: "binary"; "text" that is no JSON; "value", JSON that is not an    *)
(* object of one member; "bare", a command whose body is not an object;    *)
(* and "command".                                                          *)

Info == [ident |-> "SV", op |-> "INFO"]

\* A command without an underscore has no op.
NoOp == ""

\* Commands of a type no handler has.
UnknownType(cmd) == cmd.ident \notin Idents

\* What is answered to a message whose type is known, or which does not get as
\* far as its type.
KnownAnswers(m) ==
  CASE m.form = "binary" -> {ErrAnswer("OpCodeInvalid")}
    [] m.form = "text" -> {ErrAnswer("JsonInvalid")}
    [] m.form = "value" -> {ErrAnswer("CommandSyntax")}
    [] m.form = "bare" \/ (m.form = "command" /\ m.cmd.op = NoOp) ->
         {Answer(m.cmd, "CommandSyntax")}
    [] m.form = "command" /\ m.cmd = Info -> {Answer(Info, "Ok")}
    [] OTHER -> Handle(m.cmd, m.body)

\* The comparison of the type fails for a command it does not know, and for any
\* if the viewed characters are gone.
TypeMissed(m) ==
  /\ m.form = "command" /\ m.cmd.op # NoOp /\ m.cmd # Info
  /\ UnknownType(m.cmd) \/ ~TypeKept

\* (Plausible bug: an exception of a handler reaches nobody.)
AnswersUncaught(m) ==
  IF TypeMissed(m) THEN {Answer(m.cmd, "CommandNotExist")}
  ELSE KnownAnswers(m) \ {ErrAnswer("Unknown")}

\* The answer to the first unknown command is kept and sent for every later one.
Answers(m) ==
  IF TypeMissed(m)
  THEN {Answer(IF prepared = NoName THEN m.cmd ELSE prepared, "CommandNotExist")}
  ELSE KnownAnswers(m)

\* What answering m keeps.
Keeps(m) == prepared' = IF TypeMissed(m) /\ prepared = NoName THEN m.cmd ELSE prepared
=============================================================================
