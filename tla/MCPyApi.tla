------------------------------ MODULE MCPyApi ------------------------------
(* Two clients: one makes every call there is, one knows an unknown        *)
(* command only and so may set the answer that the server keeps.           *)
EXTENDS PyApi

CONSTANTS c1, c2

\* For each type a parameter may have, a value of it and one of another type.
\* Of the arrays, those of one position fare as those of two.  (The empty range of
\* SPLICE is left out: reading it is undefined.)
ValuesFor(cmd, p) ==
  CASE p.type = "array" /\ p.member = "srcRng" -> {"[1,2]", "string"}
    [] p.type = "array" -> (Shape \ {"[1]"}) \cup {"string"}
    [] p.type = "any" -> {"string", "uint", "object"}
    [] OTHER -> {p.type, "int"}

\* Every choice of members and values.
RawBodies(cmd) ==
  LET value(m) == UNION {ValuesFor(cmd, p) : p \in {q \in ToSet(Params(cmd)) : q.member = m}}
  IN  UNION {{body \in [ms -> UNION {value(m) : m \in ms}] : \A m \in ms : body[m] \in value(m)} :
               ms \in SUBSET Members(cmd)}

Cmd(ident, op) == [ident |-> ident, op |-> op]

\* The commands of the other kinds of arrays have the same handlers and the same
\* parameters; only the type of their items differs.
RawCommands ==
  UNION {{Cmd(ident, op) : op \in DOMAIN HandlerOf(ident)} :
           ident \in {"KV", "OLST", "OARR", "SIARR"}}
    \cup {Cmd(ident, "SET") : ident \in {"IARR", "STRARR", "SSTRARR"}}

RawMessages ==
  UNION {{Message("command", cmd, body) : body \in RawBodies(cmd)} : cmd \in RawCommands}

\* Names that reach some part of the dispatch and no handler of theirs.
OddCommands ==
  {Cmd("GET", "X"), Cmd("KV", "SETQ"), Cmd("SIARR", "SWAP"), Cmd("IARR", "MIN"), Cmd("PING", NoOp)}

OddMessages ==
  {Message("command", cmd, <<>>) : cmd \in OddCommands}
    \cup {Message("bare", cmd, <<>>) : cmd \in {Cmd("KV", "SET"), Cmd("SET", "X")}}

SocketMessages == {Message(form, NoName, <<>>) : form \in {"binary", "text", "value"}}

By(via, messages) == {[via |-> via, msg |-> m] : m \in messages}

EveryCall ==
  c1 :> (By("wrapper", WrapperMessages) \cup By("sendCmd", RawMessages \cup OddMessages)
           \cup By("socket", SocketMessages))
  @@ c2 :> By("sendCmd", {Message("command", Cmd("SV", "STATUS"), <<>>)})
=============================================================================
