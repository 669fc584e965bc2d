---------------------------- MODULE PyApi_proofs ----------------------------
(***************************************************************************)
(* Theorems about PyApi, for any number of clients and any calls of them.  *)
(***************************************************************************)
EXTENDS PyApi, SequenceTheorems, WellFoundedInduction, TLAPS

\* What the server may have answered to m.
Given(m, a) ==
  IF TypeMissed(m)
  THEN prepared # NoName /\ a = Answer(prepared, "CommandNotExist")
  ELSE a \in KnownAnswers(m)

CallInv(c) ==
  LET k == call[c]
  IN  /\ k = [phase |-> k.phase, via |-> k.via, msg |-> k.msg,
              answer |-> k.answer, end |-> k.end]
      /\ k.phase \in {"idle", "sent", "answered", "ended"}
      /\ k.phase # "idle" => \E q \in Calls[c] : k.via = q.via /\ k.msg = q.msg
      /\ k.phase \in {"answered", "ended"} => Given(k.msg, k.answer)
      /\ k.phase = "ended" =>
           k.end = IF k.via = "socket" THEN "returned"
                   ELSE SentOverApi(k.via, k.msg.cmd, k.answer)

IInv ==
  /\ call = [c \in Client |-> call[c]]
  /\ \A c \in Client : CallInv(c)

\* Once prepared, the answer to unknown commands stays what it is.
LEMMA StaysGiven ==
  ASSUME NEW m, NEW a, Given(m, a), prepared # NoName => UNCHANGED prepared
  PROVE  Given(m, a)'
  BY DEF Given, TypeMissed, KnownAnswers

\* A call that the step does not touch.
LEMMA OthersKeep ==
  ASSUME NEW c, CallInv(c), call'[c] = call[c], prepared # NoName => UNCHANGED prepared
  PROVE  CallInv(c)'
<1>1. Given(call[c].msg, call[c].answer) => Given(call[c].msg, call[c].answer)'
  BY StaysGiven
<1>. QED  BY <1>1 DEF CallInv, Given, TypeMissed, KnownAnswers

\* What is answered is kept, if it has to be.
LEMMA ServedIsGiven ==
  ASSUME NEW m, NEW a \in Answers(m), Keeps(m)
  PROVE  /\ Given(m, a)'
         /\ prepared # NoName => UNCHANGED prepared
<1>1. CASE TypeMissed(m)
  <2>1. m.cmd # NoName
    <3>1. m.cmd.op # "" /\ NoName.op = ""
      BY <1>1 DEF TypeMissed, NoName, NoOp
    <3>. QED  BY <3>1
  <2>2. a = Answer(prepared', "CommandNotExist") /\ prepared' # NoName
    BY <1>1, <2>1 DEF Answers, Keeps
  <2>. QED  BY <1>1, <2>2 DEF Given, TypeMissed, Keeps
<1>2. CASE ~TypeMissed(m)
  BY <1>2 DEF Answers, Keeps, Given
<1>. QED  BY <1>1, <1>2

\* A call record with another phase and another end.
LEMMA EndReplaced ==
  ASSUME NEW k, NEW p, NEW v, NEW new,
         k = [phase |-> k.phase, via |-> k.via, msg |-> k.msg,
              answer |-> k.answer, end |-> k.end],
         new = [phase |-> p, via |-> k.via, msg |-> k.msg, answer |-> k.answer, end |-> v]
  PROVE  [[k EXCEPT !.phase = p] EXCEPT !.end = v] = new
<1>1. PICK l : l = [k EXCEPT !.phase = p]
  OBVIOUS
<1>2. l = [phase |-> p, via |-> k.via, msg |-> k.msg, answer |-> k.answer, end |-> k.end]
  BY <1>1
<1>3. [l EXCEPT !.end = v] = new
  BY <1>2
<1>. QED  BY <1>1, <1>3, Zenon

LEMMA InitInv == Init => IInv
<1>. SUFFICES ASSUME Init PROVE IInv
  OBVIOUS
<1>1. call = [c \in Client |-> NoCall]
  BY DEF Init
<1>2. \A c \in Client : call[c] = NoCall
  BY <1>1
<1>3. \A c \in Client : CallInv(c)
  BY <1>2 DEF CallInv, NoCall
<1>. QED  BY <1>1, <1>2, <1>3 DEF IInv

\* Every step keeps the invariant.
LEMMA StepInv ==
  ASSUME IInv, NEW c \in Client, Start(c) \/ Serve(c) \/ End(c) \/ Leave(c)
  PROVE  IInv'
<1>. DEFINE k == call[c]
<1>1. /\ CallInv(c)
      /\ k = [phase |-> k.phase, via |-> k.via, msg |-> k.msg,
              answer |-> k.answer, end |-> k.end]
  BY DEF IInv, CallInv
<1>2. ASSUME NEW new, call' = [call EXCEPT ![c] = new],
             prepared # NoName => UNCHANGED prepared,
             call'[c] = new => CallInv(c)'
      PROVE  IInv'
  <2>1. call' = [d \in Client |-> call'[d]] /\ call'[c] = new
    BY <1>2 DEF IInv
  <2>2. ASSUME NEW d \in Client PROVE CallInv(d)'
    <3>1. CASE d = c
      BY <1>2, <2>1, <3>1
    <3>2. CASE d # c
      <4>1. call'[d] = call[d] /\ CallInv(d)
        BY <1>2, <3>2 DEF IInv
      <4>. QED  BY <1>2, <4>1, OthersKeep
    <3>. QED  BY <3>1, <3>2
  <2>. QED  BY <2>1, <2>2 DEF IInv
<1>3. CASE Start(c)
  <2>1. PICK q \in Calls[c] :
          call' = [call EXCEPT ![c] = [NoCall EXCEPT !.phase = "sent", !.via = q.via,
                                                     !.msg = q.msg]]
    BY <1>3 DEF Start
  <2>2. PICK new : /\ new = [phase |-> "sent", via |-> q.via, msg |-> q.msg,
                             answer |-> NoCall.answer, end |-> NoCall.end]
                   /\ call' = [call EXCEPT ![c] = new]
    <3>1. PICK o : o = NoCall
      OBVIOUS
    <3>2. PICK s : s = [o EXCEPT !.phase = "sent"]
      OBVIOUS
    <3>3. PICK v : v = [s EXCEPT !.via = q.via]
      OBVIOUS
    <3>4. PICK new : new = [v EXCEPT !.msg = q.msg]
      OBVIOUS
    <3>5. o = [phase |-> o.phase, via |-> o.via, msg |-> o.msg,
               answer |-> o.answer, end |-> o.end]
      BY <3>1 DEF NoCall
    <3>6. s = [phase |-> "sent", via |-> o.via, msg |-> o.msg,
               answer |-> o.answer, end |-> o.end]
      BY <3>2, <3>5
    <3>7. v = [phase |-> "sent", via |-> q.via, msg |-> o.msg,
               answer |-> o.answer, end |-> o.end]
      BY <3>3, <3>6
    <3>8. new = [phase |-> "sent", via |-> q.via, msg |-> q.msg,
                 answer |-> o.answer, end |-> o.end]
      BY <3>4, <3>7
    <3>9. call' = [call EXCEPT ![c] = new]
      BY <2>1, <3>1, <3>2, <3>3, <3>4
    <3>. QED  BY <3>1, <3>8, <3>9
  <2>3. call'[c] = new => CallInv(c)'
    BY <2>2 DEF CallInv
  <2>4. UNCHANGED prepared
    BY <1>3 DEF Start
  <2>. QED  BY <1>2, <2>2, <2>3, <2>4
<1>4. CASE Serve(c)
  <2>1. PICK a \in Answers(k.msg) :
          call' = [call EXCEPT ![c].phase = "answered", ![c].answer = a]
    BY <1>4 DEF Serve
  <2>2. PICK new : /\ new = [phase |-> "answered", via |-> k.via, msg |-> k.msg,
                             answer |-> a, end |-> k.end]
                   /\ call' = [call EXCEPT ![c] = new]
    <3>1. PICK new : new = [phase |-> "answered", via |-> k.via, msg |-> k.msg,
                            answer |-> a, end |-> k.end]
      OBVIOUS
    <3>2. [[k EXCEPT !.phase = "answered"] EXCEPT !.answer = a] = new
      <4>1. PICK l, p, b : l = k /\ p = "answered" /\ b = a
        OBVIOUS
      <4>2. /\ l = [phase |-> l.phase, via |-> l.via, msg |-> l.msg,
                    answer |-> l.answer, end |-> l.end]
            /\ new = [phase |-> p, via |-> l.via, msg |-> l.msg,
                      answer |-> b, end |-> l.end]
        BY <1>1, <3>1, <4>1
      <4>3. PICK o : o = [l EXCEPT !.phase = p]
        OBVIOUS
      <4>4. o = [phase |-> p, via |-> l.via, msg |-> l.msg,
                 answer |-> l.answer, end |-> l.end]
        BY ONLY <4>2, <4>3
      <4>5. [o EXCEPT !.answer = b] = new
        BY ONLY <4>2, <4>4
      <4>. QED  BY <4>1, <4>3, <4>5, Zenon
    <3>. QED  BY <2>1, <3>1, <3>2 DEF IInv
  <2>b. PICK m : m = k.msg
    OBVIOUS
  <2>3. Given(m, a)' /\ (prepared # NoName => UNCHANGED prepared)
    <3>1. a \in Answers(m) /\ Keeps(m)
      BY <1>4, <2>1, <2>b DEF Serve
    <3>. QED  BY <3>1, ServedIsGiven
  <2>4. k.phase = "sent"
    BY <1>4 DEF Serve
  <2>5. \E q \in Calls[c] : k.via = q.via /\ k.msg = q.msg
    BY <1>1, <2>4 DEF CallInv
  <2>6. call'[c] = new => CallInv(c)'
    BY <2>2, <2>3, <2>b, <2>5 DEF CallInv, Given, TypeMissed, KnownAnswers
  <2>. QED  BY <1>2, <2>2, <2>3, <2>6
<1>5. CASE End(c)
  <2>1. PICK end : end = IF k.via = "socket" THEN "returned"
                         ELSE SentOverApi(k.via, k.msg.cmd, k.answer)
    OBVIOUS
  <2>2. PICK new : /\ new = [phase |-> "ended", via |-> k.via, msg |-> k.msg,
                             answer |-> k.answer, end |-> end]
                   /\ call' = [call EXCEPT ![c] = new]
    <3>1. PICK new : new = [phase |-> "ended", via |-> k.via, msg |-> k.msg,
                            answer |-> k.answer, end |-> end]
      OBVIOUS
    <3>2. call' = [call EXCEPT ![c].phase = "ended", ![c].end = end]
      BY <1>5, <2>1 DEF End
    <3>3. [[k EXCEPT !.phase = "ended"] EXCEPT !.end = end] = new
      <4>1. PICK l : l = k
        OBVIOUS
      <4>2. /\ l = [phase |-> l.phase, via |-> l.via, msg |-> l.msg,
                    answer |-> l.answer, end |-> l.end]
            /\ new = [phase |-> "ended", via |-> l.via, msg |-> l.msg,
                      answer |-> l.answer, end |-> end]
        BY <1>1, <3>1, <4>1
      <4>3. [[l EXCEPT !.phase = "ended"] EXCEPT !.end = end] = new
        BY ONLY <4>2, EndReplaced
      <4>. QED  BY <4>1, <4>3
    <3>. QED  BY <3>1, <3>2, <3>3 DEF IInv
  <2>3. k.phase = "answered" /\ UNCHANGED prepared
    BY <1>5 DEF End
  <2>b. PICK m, a : m = k.msg /\ a = k.answer
    OBVIOUS
  <2>4. /\ \E q \in Calls[c] : k.via = q.via /\ k.msg = q.msg
        /\ Given(m, a)
    BY <1>1, <2>3, <2>b DEF CallInv
  <2>5. Given(m, a)'
    BY <2>3, <2>4, StaysGiven
  <2>6. call'[c] = new => CallInv(c)'
    BY <2>1, <2>2, <2>b, <2>4, <2>5 DEF CallInv, Given, TypeMissed, KnownAnswers
  <2>. QED  BY <1>2, <2>2, <2>3, <2>6
<1>6. CASE Leave(c)
  <2>1. call' = [call EXCEPT ![c] = NoCall] /\ UNCHANGED prepared
    BY <1>6 DEF Leave
  <2>2. call'[c] = NoCall => CallInv(c)'
    BY DEF CallInv, NoCall
  <2>. QED  BY <1>2, <2>1, <2>2
<1>. QED  BY <1>3, <1>4, <1>5, <1>6

LEMMA Invariance == Spec => []IInv
<1>1. IInv /\ [Next]_vars => IInv'
  <2>1. IInv /\ Next => IInv'
    BY StepInv DEF Next
  <2>2. IInv /\ UNCHANGED vars => IInv'
    BY OthersKeep DEF vars, IInv
  <2>. QED  BY <2>1, <2>2
<1>. QED  BY <1>1, InitInv, PTL DEF Spec

-----------------------------------------------------------------------------
(* Under which names the server answers.                                   *)

\* a has the name n.
Under(n, a) == \E st : a = Answer(n, st)

\* Answers of a handler have the name of the command, or no name, or are errors
\* of ADD.
OfCommand(cmd, a) ==
  \/ Under(cmd, a)
  \/ Under(Err, a)
  \/ IsLst(cmd) /\ cmd.op = "ADD" /\ Under(ErrorName(cmd), a)

LEMMA NamesTold ==
  ASSUME NEW n, NEW a, Under(n, a)
  PROVE  a.name = n /\ a = Answer(n, a.st)
  BY DEF Under, Answer

\* The name of an error is the name of the command, of any but ADD.
LEMMA ErrorsNamed ==
  ASSUME NEW cmd, NEW st
  PROVE  OfCommand(cmd, Answer(ErrorName(cmd), st))
  BY DEF OfCommand, Under, ErrorName

LEMMA ExecutedNamed ==
  ASSUME NEW cmd, NEW a \in Executed(cmd)
  PROVE  OfCommand(cmd, a)
<1>1. CASE \E st : a = Answer(cmd, st)
  BY <1>1 DEF OfCommand, Under
<1>2. CASE a = Thrown(cmd)
  BY <1>2 DEF Thrown, ErrAnswer, OfCommand, Under
<1>3. CASE a = Answer(ErrorName(cmd), "NotExist")
  BY <1>3, ErrorsNamed
<1>. QED  BY <1>1, <1>2, <1>3 DEF Executed

LEMMA HandledNamed ==
  ASSUME NEW cmd, NEW body, NEW a \in Handle(cmd, body)
  PROVE  OfCommand(cmd, a)
<1>1. CASE a \in Executed(cmd)
  BY <1>1, ExecutedNamed
<1>2. CASE \E st : a = ErrAnswer(st)
  BY <1>2 DEF ErrAnswer, OfCommand, Under
<1>3. CASE \E st : a = Answer(ErrorName(cmd), st)
  BY <1>3, ErrorsNamed
<1>4. CASE \E st : a = Answer(cmd, st)
  BY <1>4 DEF OfCommand, Under
<1>5. a \in ValidateAndExecute(cmd, body) =>
        \/ a \in Executed(cmd)
        \/ \E st : a = ErrAnswer(st)
        \/ \E st : a = Answer(ErrorName(cmd), st)
  BY DEF ValidateAndExecute
<1>. QED  BY <1>1, <1>2, <1>3, <1>4, <1>5 DEF Handle

LEMMA KnownNamed ==
  ASSUME NEW m, NEW a \in KnownAnswers(m)
  PROVE  OfCommand(m.cmd, a)
<1>1. CASE \E st : a = ErrAnswer(st)
  BY <1>1 DEF ErrAnswer, OfCommand, Under
<1>2. CASE \E st : a = Answer(m.cmd, st)
  BY <1>2 DEF OfCommand, Under
<1>3. CASE a \in Handle(m.cmd, m.body)
  BY <1>3, HandledNamed
<1>. QED  BY <1>1, <1>2, <1>3 DEF KnownAnswers

\* What a client may be given, for a call of any kind.
LEMMA GivenNamed ==
  ASSUME TypeKept, IInv, NEW c \in Client, call[c].phase \in {"answered", "ended"}
  PROVE  LET cmd == call[c].msg.cmd
             a == call[c].answer
         IN  \/ UnknownType(cmd) /\ TypeMissed(call[c].msg)
                /\ a = Answer(prepared, "CommandNotExist")
             \/ ~TypeMissed(call[c].msg) /\ a \in KnownAnswers(call[c].msg)
                /\ (Under(cmd, a) \/ Under(Err, a))
             \/ ~TypeMissed(call[c].msg) /\ a \in KnownAnswers(call[c].msg)
                /\ IsLst(cmd) /\ cmd.op = "ADD" /\ Under(ErrorName(cmd), a)
                /\ ErrorName(cmd) # cmd
<1>1. Given(call[c].msg, call[c].answer)
      /\ \E q \in Calls[c] : call[c].via = q.via /\ call[c].msg = q.msg
  BY DEF IInv, CallInv
<1>2. CASE TypeMissed(call[c].msg)
  BY <1>1, <1>2 DEF Given, TypeMissed
<1>3. CASE ~TypeMissed(call[c].msg)
  <2>1. call[c].answer \in KnownAnswers(call[c].msg)
        /\ OfCommand(call[c].msg.cmd, call[c].answer)
    BY <1>1, <1>3, KnownNamed DEF Given
  <2>2. PICK cmd : cmd = call[c].msg.cmd
    OBVIOUS
  <2>3. cmd \in [ident : STRING, op : STRING]
    BY <1>1, <2>2, CallsAssumption
  <2>4. IsLst(cmd) /\ cmd.op = "ADD" => ErrorName(cmd) # cmd
    BY <2>3 DEF ErrorName
  <2>. QED  BY <1>3, <2>1, <2>2, <2>4 DEF OfCommand
<1>. QED  BY <1>2, <1>3

LEMMA NotSilent ==
  ASSUME TypeKept, IInv
  PROVE  NeverSilent
<1>1. SUFFICES ASSUME NEW c \in Client, Ended(c, "sendCmd"), call[c].end = "returned"
               PROVE  LET cmd == call[c].msg.cmd
                      IN  \/ Done(cmd, call[c].answer)
                          \/ IsLst(cmd) /\ cmd.op = "ADD" /\ call[c].answer.name # cmd
                          \/ UnknownType(cmd) /\ prepared # cmd
  BY DEF NeverSilent
<1>2. PICK cmd, a : cmd = call[c].msg.cmd /\ a = call[c].answer
  OBVIOUS
<1>3. ~RaiseIfInvalid(cmd, a)
  <2>1. "returned" = SentOverApi("sendCmd", cmd, a)
    BY <1>1, <1>2 DEF IInv, CallInv, Ended
  <2>. QED  BY <2>1 DEF SentOverApi
<1>4. call[c].phase \in {"answered", "ended"}
  BY <1>1 DEF Ended
<1>5. CASE UnknownType(cmd) /\ a = Answer(prepared, "CommandNotExist")
  <2>1. "CommandNotExist" # Expected(cmd)
    BY DEF Expected
  <2>2. prepared # cmd
    BY <1>3, <1>5, <2>1 DEF RaiseIfInvalid, Answer
  <2>. QED  BY <1>2, <1>5, <2>2
<1>6. CASE Under(cmd, a)
  <2>1. a.name = cmd /\ a = Answer(cmd, a.st)
    BY <1>6, NamesTold
  <2>2. Done(cmd, a)
    BY <1>3, <2>1 DEF RaiseIfInvalid, Done
  <2>. QED  BY <1>2, <2>2
<1>7. CASE Under(Err, a)
  BY <1>3, <1>7, NamesTold DEF RaiseIfInvalid
<1>8. CASE IsLst(cmd) /\ cmd.op = "ADD" /\ Under(ErrorName(cmd), a) /\ ErrorName(cmd) # cmd
  <2>1. a.name = ErrorName(cmd)
    BY <1>8, NamesTold
  <2>. QED  BY <1>2, <1>8, <2>1
<1>. QED  BY <1>2, <1>4, <1>5, <1>6, <1>7, <1>8, GivenNamed

\* sendCmd does not return as if what it sent were done when the server refused
\* it or failed, for any number of clients and any calls of theirs, but in the
\* two cases NeverSilent names (_raise_if_invalid; LstHandler's errors of ADD;
\* the answer to unknown commands that Server builds once).
THEOREM RefusalsRaise ==
  ASSUME TypeKept
  PROVE  Spec => []NeverSilent
<1>1. IInv => NeverSilent
  BY NotSilent
<1>. QED  BY <1>1, Invariance, PTL

-----------------------------------------------------------------------------
(* What a handler says of the parameters.                                  *)

\* What is wrong with one parameter.
Judged(cmd, body, p) ==
  IF p.use = "variable" THEN ItemStatus(cmd.ident, body, p.member)
  ELSE ParamStatus(body, p)

\* A set of natural numbers has a least one.
LEMMA LeastExists ==
  ASSUME NEW I, I \subseteq Nat, I # {}
  PROVE  \E i \in I : \A j \in I : i <= j
<1>1. PICK below : below = OpToRel(<, Nat)
  OBVIOUS
<1>2. IsWellFoundedOn(below, Nat)
  BY <1>1, NatLessThanWellFounded, Zenon
<1>3. PICK i \in I : \A j \in I : ~ (<<j, i>> \in below)
  BY <1>2, WFMin, Zenon
<1>4. ASSUME NEW j \in I, j < i PROVE FALSE
  <2>1. <<j, i>> \in Nat \X Nat
    BY <1>4
  <2>2. <<j, i>> \in OpToRel(<, Nat)
    BY <1>4, <2>1 DEF OpToRel
  <2>. QED  BY <1>1, <1>3, <2>2, Zenon
<1>. QED  BY <1>3, <1>4

\* A command is refused for one of its parameters, or for what is checked once
\* they are right.
LEMMA ValidateEnds ==
  ASSUME NEW cmd, NEW body, NEW S, Params(cmd) \in Seq(S)
  PROVE  \/ Validate(cmd, body) = PostStatus(cmd, body)
         \/ \E p \in S : Validate(cmd, body) = Judged(cmd, body, p)
<1>1. PICK params \in Seq(S), n \in Nat :
        params = Params(cmd) /\ n = Len(params) /\ DOMAIN params = 1..n
  BY LenProperties
<1>2. PICK status : status = [i \in DOMAIN params |-> Judged(cmd, body, params[i])]
  OBVIOUS
<1>3. Len(status) = n
  <2>1. status \in Seq({Judged(cmd, body, params[i]) : i \in DOMAIN params})
    BY <1>1, <1>2, SeqDef
  <2>. QED  BY <1>1, <1>2, <2>1, LenProperties
<1>4. PICK I : I = {i \in 1..n : status[i] # "Ok"}
  OBVIOUS
<1>5. Validate(cmd, body) = IF (IF I # {} THEN Min(I) ELSE 0) # 0
                            THEN status[IF I # {} THEN Min(I) ELSE 0]
                            ELSE PostStatus(cmd, body)
  <2>1. SelectInSeq(status, LAMBDA st : st # "Ok") = IF I # {} THEN Min(I) ELSE 0
    BY <1>3, <1>4 DEF SelectInSeq
  <2>2. status = [i \in DOMAIN Params(cmd) |->
                    IF Params(cmd)[i].use = "variable"
                    THEN ItemStatus(cmd.ident, body, Params(cmd)[i].member)
                    ELSE ParamStatus(body, Params(cmd)[i])]
    BY <1>1, <1>2 DEF Judged
  <2>. QED  BY <2>1, <2>2 DEF Validate
<1>6. I # {} => Min(I) \in 1..n
  <2>. SUFFICES ASSUME I # {} PROVE Min(I) \in 1..n
    OBVIOUS
  <2>1. I \subseteq Nat
    BY <1>4
  <2>2. \E i \in I : \A j \in I : i <= j
    BY <2>1, LeastExists
  <2>3. Min(I) \in I
    BY <2>2 DEF Min
  <2>. QED  BY <1>4, <2>3
<1>7. \A i \in 1..n : \E p \in S : status[i] = Judged(cmd, body, p)
  BY <1>1, <1>2, ElementOfSeq
<1>. QED  BY <1>5, <1>6, <1>7

\* ADD to a list with a name and items is refused for their types only.
LEMMA AddValidated ==
  ASSUME NEW cmd, IsLst(cmd), cmd.op = "ADD", NEW body, {"name", "items"} \subseteq DOMAIN body
  PROVE  Validate(cmd, body) \in {"Ok", "ValueTypeInvalid"}
<1>. DEFINE S == {Req("items", "array"), Req("name", "string"), Opt("pos", "uint")}
<1>1. Params(cmd) \in Seq(S)
  <2>1. Params(cmd) = <<Req("items", "array")>> \o Named \o <<Opt("pos", "uint")>>
    BY DEF Params, HandlerOf, LstParams, IsLst, Unsorted, Sorted
  <2>2. /\ <<Req("items", "array")>> \in Seq(S) /\ <<Req("name", "string")>> \in Seq(S)
        /\ <<Opt("pos", "uint")>> \in Seq(S)
    OBVIOUS
  <2>. QED  BY <2>1, <2>2, ConcatProperties DEF Named
<1>2. \A p \in S : Judged(cmd, body, p) \in {"Ok", "ValueTypeInvalid"}
  BY DEF Judged, ParamStatus, Req, Opt, Par
<1>3. PostStatus(cmd, body) \in {"Ok", "ValueTypeInvalid"}
  BY DEF PostStatus, IsLst, IsKv, IsArr, Unsorted, Sorted
<1>. QED  BY <1>1, <1>2, <1>3, ValidateEnds

\* What a wrapper sends.
LEMMA WrapperSends ==
  ASSUME NEW m \in WrapperMessages
  PROVE  /\ m.form = "command"
         /\ \A member \in DOMAIN m.body : m.body[member] \in PyValues(m.cmd, member)
         /\ \E ident \in Idents \cup {"SV"} : \E op \in DOMAIN Bodies(ident) :
              /\ m.cmd = [ident |-> ident, op |-> op]
              /\ DOMAIN m.body \in Bodies(ident)[op]
<1>1. PICK ident \in Idents \cup {"SV"} :
        m \in UNION {UNION {
          {Message("command", [ident |-> ident, op |-> op], body) :
             body \in BodiesWith([ident |-> ident, op |-> op], members)} :
          members \in Bodies(ident)[op]} : op \in DOMAIN Bodies(ident)}
  BY DEF WrapperMessages
<1>2. PICK op \in DOMAIN Bodies(ident) :
        m \in UNION {
          {Message("command", [ident |-> ident, op |-> op], body) :
             body \in BodiesWith([ident |-> ident, op |-> op], members)} :
          members \in Bodies(ident)[op]}
  BY <1>1
<1>3. PICK members \in Bodies(ident)[op] :
        m \in {Message("command", [ident |-> ident, op |-> op], body) :
                 body \in BodiesWith([ident |-> ident, op |-> op], members)}
  BY <1>2
<1>4. PICK body \in BodiesWith([ident |-> ident, op |-> op], members) :
        m = Message("command", [ident |-> ident, op |-> op], body)
  BY <1>3
<1>5. /\ DOMAIN body = members
      /\ \A member \in members :
           body[member] \in PyValues([ident |-> ident, op |-> op], member)
  BY <1>4 DEF BodiesWith
<1>6. m.form = "command" /\ m.cmd = [ident |-> ident, op |-> op] /\ m.body = body
  BY <1>4 DEF Message
<1>. QED  BY <1>3, <1>5, <1>6

\* Errors of ADD that do not have its name.
LEMMA AddAnswered ==
  ASSUME NEW m, m.form = "command", IsLst(m.cmd), m.cmd.op = "ADD",
         {"name", "items"} \subseteq DOMAIN m.body,
         NEW a \in KnownAnswers(m), ~Under(m.cmd, a), ~Under(Err, a)
  PROVE  a.st \in {"NotExist", "ValueTypeInvalid"}
<1>1. a \in Handle(m.cmd, m.body)
  <2>1. m.cmd.op # NoOp /\ m.cmd # Info
    BY DEF NoOp, Info, IsLst
  <2>. QED  BY <2>1 DEF KnownAnswers
<1>2. Handled(m.cmd)
  BY DEF Handled, Idents, HandlerOf, LstParams, IsLst, Unsorted, Sorted
<1>3. a \in ValidateAndExecute(m.cmd, m.body)
  BY <1>1, <1>2 DEF Handle, IsLst, IsKv
<1>4. Validate(m.cmd, m.body) \in {"Ok", "ValueTypeInvalid"}
  BY AddValidated
<1>5. CASE Validate(m.cmd, m.body) = "Ok"
  <2>1. a \in Executed(m.cmd)
    BY <1>3, <1>5 DEF ValidateAndExecute
  <2>2. a # Thrown(m.cmd) /\ \A st : a # Answer(m.cmd, st)
    BY DEF Thrown, ErrAnswer, Under
  <2>3. a = Answer(ErrorName(m.cmd), "NotExist")
    BY <2>1, <2>2 DEF Executed
  <2>. QED  BY <2>3 DEF Answer
<1>6. CASE Validate(m.cmd, m.body) = "ValueTypeInvalid"
  <2>1. a = Answer(ErrorName(m.cmd), "ValueTypeInvalid")
    BY <1>3, <1>6 DEF ValidateAndExecute
  <2>. QED  BY <2>1 DEF Answer
<1>. QED  BY <1>4, <1>5, <1>6

LEMMA RefusedRaises ==
  ASSUME TypeKept, IInv
  PROVE  RefusedIsResponseError
<1>1. SUFFICES ASSUME NEW c \in Client, Ended(c, "wrapper"),
                      ~Done(call[c].msg.cmd, call[c].answer)
               PROVE  LET cmd == call[c].msg.cmd
                          end == call[c].end
                      IN  \/ end = "ResponseError"
                          \/ IsLst(cmd) /\ cmd.op = "ADD" /\ end = "KeyError"
                             /\ call[c].answer.st \in {"NotExist", "ValueTypeInvalid"}
                          \/ IsExist(cmd) /\ end = (IF call[c].answer.name = cmd
                                                   THEN "returned" ELSE "KeyError")
  BY DEF RefusedIsResponseError
<1>2. PICK m, cmd, a : m = call[c].msg /\ cmd = call[c].msg.cmd /\ a = call[c].answer
  OBVIOUS
<1>3. /\ call[c].end = SentOverApi("wrapper", cmd, a)
      /\ \E q \in Calls[c] : call[c].via = q.via /\ call[c].msg = q.msg
      /\ call[c].via = "wrapper"
      /\ call[c].phase \in {"answered", "ended"}
  BY <1>1, <1>2 DEF IInv, CallInv, Ended
<1>4. CASE IsExist(cmd)
  BY <1>2, <1>3, <1>4 DEF SentOverApi
<1>5. CASE ~IsExist(cmd) /\ RaiseIfInvalid(cmd, a)
  BY <1>2, <1>3, <1>5 DEF SentOverApi
<1>6. CASE ~IsExist(cmd) /\ ~RaiseIfInvalid(cmd, a)
  <2>1. m \in WrapperMessages
    BY <1>2, <1>3, CallsAssumption
  <2>0. PICK ident \in Idents \cup {"SV"} :
          \E op \in DOMAIN Bodies(ident) :
            /\ cmd = [ident |-> ident, op |-> op]
            /\ DOMAIN m.body \in Bodies(ident)[op]
    BY <1>2, <2>1, WrapperSends
  <2>2. PICK op \in DOMAIN Bodies(ident) :
          /\ cmd = [ident |-> ident, op |-> op]
          /\ DOMAIN m.body \in Bodies(ident)[op]
    BY <2>0
  <2>3. m.form = "command"
    BY <2>1, WrapperSends
  <2>4. ~Under(cmd, a)
    <3>. SUFFICES ASSUME Under(cmd, a) PROVE FALSE
      OBVIOUS
    <3>1. a.name = cmd /\ a = Answer(cmd, a.st)
      BY NamesTold
    <3>. QED  BY <1>1, <1>2, <1>6, <3>1 DEF RaiseIfInvalid, Done
  <2>5. ~Under(Err, a)
    BY <1>6, NamesTold DEF RaiseIfInvalid
  <2>6. ~(UnknownType(cmd) /\ TypeMissed(m))
    <3>. SUFFICES ASSUME UnknownType(cmd), TypeMissed(m) PROVE FALSE
      OBVIOUS
    <3>1. ident = "SV"
      BY <2>2 DEF UnknownType
    <3>2. Bodies(ident) = [INFO |-> {{}}]
      BY <3>1 DEF Bodies, Unsorted, Sorted
    <3>3. op = "INFO"
      BY <2>2, <3>2
    <3>. QED  BY <1>2, <2>2, <3>1, <3>3 DEF TypeMissed, Info
  <2>7. /\ IsLst(cmd) /\ cmd.op = "ADD" /\ a \in KnownAnswers(m)
        /\ Under(ErrorName(cmd), a) /\ ErrorName(cmd) # cmd
    BY <1>2, <1>3, <2>4, <2>5, <2>6, GivenNamed
  <2>8. {"name", "items"} \subseteq DOMAIN m.body
    <3>1. ident = "OLST" /\ op = "ADD"
      BY <2>2, <2>7 DEF IsLst
    <3>2. Bodies(ident)[op] = {{"name", "items"}, {"name", "items", "pos"}}
      BY <3>1 DEF Bodies, LstBody, Unsorted, Sorted
    <3>. QED  BY <2>2, <3>2
  <2>9. a.st \in {"NotExist", "ValueTypeInvalid"}
    BY <1>2, <2>3, <2>4, <2>5, <2>7, <2>8, AddAnswered
  <2>10. a.name # cmd /\ Reads(cmd)
    BY <2>7, NamesTold DEF Reads, IsLst, IsKv, IsArr, Unsorted, Sorted
  <2>11. call[c].end = "KeyError"
    BY <1>3, <1>6, <2>10 DEF SentOverApi
  <2>. QED  BY <1>2, <2>7, <2>9, <2>11
<1>. QED  BY <1>4, <1>5, <1>6

\* A wrapper whose command is refused raises ResponseError, whatever part of the
\* server refuses it and whatever the other clients do, but for add() of a list
\* and exist() (_raise_if_invalid and the wrappers that read the response).
THEOREM WrappersRaise ==
  ASSUME TypeKept
  PROVE  Spec => []RefusedIsResponseError
<1>1. IInv => RefusedIsResponseError
  BY RefusedRaises
<1>. QED  BY <1>1, Invariance, PTL

-----------------------------------------------------------------------------
(* The wrappers and the tables of the handlers.                            *)

ParamType == {"uint", "string", "array", "object", "bool"}

\* Parameters that a body with the members ms does not lack.
Fitting(ms) ==
  {Req(member, type) : member \in ms, type \in ParamType}
    \cup {Opt(member, type) : member \in {"pos", "destPos", "head", "rng", "tail"},
                              type \in ParamType}
    \cup {Item}

\* A body with the members ms lacks none of the parameters.
Fits(params, ms) == params \in Seq(Fitting(ms))

LEMMA NoneFits ==
  ASSUME NEW ms
  PROVE  Fits(<<>>, ms)
  BY DEF Fits

LEMMA OneFits ==
  ASSUME NEW ms, NEW p \in Fitting(ms)
  PROVE  Fits(<<p>>, ms)
  BY DEF Fits

LEMMA TwoFit ==
  ASSUME NEW ms, NEW p \in Fitting(ms), NEW q \in Fitting(ms)
  PROVE  Fits(<<p, q>>, ms)
  BY DEF Fits

LEMMA ReqFits ==
  ASSUME NEW ms, NEW member \in ms, NEW type \in ParamType
  PROVE  Req(member, type) \in Fitting(ms) /\ Fits(<<Req(member, type)>>, ms)
<1>1. Req(member, type) \in Fitting(ms)
  BY DEF Fitting
<1>. QED  BY <1>1, OneFits

LEMMA OptFits ==
  ASSUME NEW ms, NEW member \in {"pos", "destPos", "head", "rng", "tail"}, NEW type \in ParamType
  PROVE  Opt(member, type) \in Fitting(ms) /\ Fits(<<Opt(member, type)>>, ms)
<1>1. Opt(member, type) \in Fitting(ms)
  BY DEF Fitting
<1>. QED  BY <1>1, OneFits

LEMMA ItemFits ==
  ASSUME NEW ms
  PROVE  Fits(<<Item>>, ms)
<1>1. Item \in Fitting(ms)
  BY DEF Fitting
<1>. QED  BY <1>1, OneFits

LEMMA BothFit ==
  ASSUME NEW ms, NEW s, NEW t, Fits(s, ms), Fits(t, ms)
  PROVE  Fits(s \o t, ms)
  BY ConcatProperties DEF Fits

\* What each wrapper sends has the parameters of its command.
LEMMA KvFits ==
  /\ DOMAIN KvBody = DOMAIN KvParams
  /\ \A op \in DOMAIN KvBody : \A ms \in KvBody[op] : Fits(KvParams[op], ms)
<1>1. DOMAIN KvBody = DOMAIN KvParams
  BY DEF KvBody
<1>2. ASSUME NEW op \in {"SET", "ADD", "CLEAR_SET"}, NEW ms \in KvBody[op]
      PROVE  Fits(KvParams[op], ms)
  <2>1. KvParams[op] = <<Req("keys", "object")>> /\ ms = {"keys"}
    BY <1>2 DEF KvParams, KvBody, Keys
  <2>. QED  BY <2>1, ReqFits DEF ParamType
<1>3. ASSUME NEW op \in {"GET", "RMV", "CONTAINS"}, NEW ms \in KvBody[op]
      PROVE  Fits(KvParams[op], ms)
  <2>1. KvParams[op] = <<Req("keys", "array")>> /\ ms = {"keys"}
    BY <1>3 DEF KvParams, KvBody, Keys
  <2>. QED  BY <2>1, ReqFits DEF ParamType
<1>4. ASSUME NEW op \in {"CLEAR", "COUNT", "KEYS"}, NEW ms \in KvBody[op]
      PROVE  Fits(KvParams[op], ms)
  <2>1. KvParams[op] = <<>>
    BY <1>4 DEF KvParams
  <2>. QED  BY <2>1, NoneFits
<1>5. ASSUME NEW op \in {"SAVE", "LOAD"}, NEW ms \in KvBody[op]
      PROVE  Fits(KvParams[op], ms)
  <2>1. KvParams[op] = <<Req("name", "string")>> /\ ms = {"name"}
    BY <1>5 DEF KvParams, KvBody, Named
  <2>. QED  BY <2>1, ReqFits DEF ParamType
<1>6. DOMAIN KvParams = {"SET", "ADD", "CLEAR_SET", "GET", "RMV", "CONTAINS",
                         "CLEAR", "COUNT", "KEYS", "SAVE", "LOAD"}
  BY DEF KvParams
<1>. QED  BY <1>1, <1>2, <1>3, <1>4, <1>5, <1>6

LEMMA NamedFits ==
  ASSUME NEW ms, "name" \in ms
  PROVE  Fits(Named, ms)
  BY ReqFits DEF Named, ParamType

LEMMA ArrFits ==
  /\ DOMAIN ArrBody = DOMAIN ArrParams
  /\ \A op \in DOMAIN ArrBody : \A ms \in ArrBody[op] : Fits(ArrParams[op], ms)
<1>1. DOMAIN ArrBody = {"CREATE", "DELETE", "EXIST", "LEN", "USED", "DELETE_ALL",
                        "GET", "GET_RNG", "CLEAR"}
      /\ DOMAIN ArrParams = DOMAIN ArrBody
  BY DEF ArrBody, ArrParams
<1>2. ASSUME NEW op \in {"DELETE", "EXIST", "LEN", "USED"}, NEW ms \in ArrBody[op]
      PROVE  Fits(ArrParams[op], ms)
  <2>1. ArrParams[op] = Named /\ ms = {"name"}
    BY <1>2 DEF ArrParams, ArrBody
  <2>. QED  BY <2>1, NamedFits
<1>3. ASSUME NEW ms \in ArrBody["DELETE_ALL"] PROVE Fits(ArrParams["DELETE_ALL"], ms)
  <2>1. ArrParams["DELETE_ALL"] = <<>>
    BY DEF ArrParams
  <2>. QED  BY <2>1, NoneFits
<1>4. ASSUME NEW ms \in ArrBody["CREATE"] PROVE Fits(ArrParams["CREATE"], ms)
  <2>1. ArrParams["CREATE"] = <<Req("len", "uint")>> \o Named /\ ms = {"name", "len"}
    BY <1>4 DEF ArrParams, ArrBody
  <2>2. Fits(Named, ms) /\ Fits(<<Req("len", "uint")>>, ms)
    BY <2>1, NamedFits, ReqFits DEF ParamType
  <2>. QED  BY <2>1, <2>2, BothFit
<1>5. ASSUME NEW ms \in ArrBody["GET"] PROVE Fits(ArrParams["GET"], ms)
  <2>1. ArrParams["GET"] = Named \o <<Req("pos", "uint")>> /\ ms = {"name", "pos"}
    BY <1>5 DEF ArrParams, ArrBody
  <2>2. Fits(Named, ms) /\ Fits(<<Req("pos", "uint")>>, ms)
    BY <2>1, NamedFits, ReqFits DEF ParamType
  <2>. QED  BY <2>1, <2>2, BothFit
<1>6. ASSUME NEW op \in {"GET_RNG", "CLEAR"}, NEW ms \in ArrBody[op]
      PROVE  Fits(ArrParams[op], ms)
  <2>1. ArrParams[op] = Named \o <<Req("rng", "array")>> /\ ms = {"name", "rng"}
    BY <1>6 DEF ArrParams, ArrBody
  <2>2. Fits(Named, ms) /\ Fits(<<Req("rng", "array")>>, ms)
    BY <2>1, NamedFits, ReqFits DEF ParamType
  <2>. QED  BY <2>1, <2>2, BothFit
<1>. QED  BY <1>1, <1>2, <1>3, <1>4, <1>5, <1>6

LEMMA UnsortedFits ==
  /\ DOMAIN UnsortedBody = DOMAIN UnsortedParams
  /\ DOMAIN UnsortedParams \cap DOMAIN ArrParams = {}
  /\ \A op \in DOMAIN UnsortedBody : \A ms \in UnsortedBody[op] : Fits(UnsortedParams[op], ms)
<1>1. DOMAIN UnsortedBody = {"SET", "SET_RNG", "SWAP"}
      /\ DOMAIN UnsortedParams = DOMAIN UnsortedBody
      /\ DOMAIN UnsortedParams \cap DOMAIN ArrParams = {}
  BY DEF UnsortedBody, UnsortedParams, ArrParams
<1>2. ASSUME NEW ms \in UnsortedBody["SET"] PROVE Fits(UnsortedParams["SET"], ms)
  <2>1. UnsortedParams["SET"] = <<Item>> \o Named \o <<Opt("pos", "uint")>> /\ "name" \in ms
    BY <1>2 DEF UnsortedParams, UnsortedBody
  <2>2. Fits(<<Item>> \o Named, ms)
    BY <2>1, ItemFits, NamedFits, BothFit
  <2>. QED  BY <2>1, <2>2, OptFits, BothFit DEF ParamType
<1>3. ASSUME NEW ms \in UnsortedBody["SET_RNG"] PROVE Fits(UnsortedParams["SET_RNG"], ms)
  <2>1. UnsortedParams["SET_RNG"] = <<Req("items", "array")>> \o Named \o <<Opt("pos", "uint")>>
        /\ "name" \in ms /\ "items" \in ms
    BY <1>3 DEF UnsortedParams, UnsortedBody
  <2>2. Fits(<<Req("items", "array")>> \o Named, ms)
    BY <2>1, ReqFits, NamedFits, BothFit DEF ParamType
  <2>. QED  BY <2>1, <2>2, OptFits, BothFit DEF ParamType
<1>4. ASSUME NEW ms \in UnsortedBody["SWAP"] PROVE Fits(UnsortedParams["SWAP"], ms)
  <2>1. UnsortedParams["SWAP"] = Named \o <<Req("posA", "uint"), Req("posB", "uint")>>
        /\ "name" \in ms /\ "posA" \in ms /\ "posB" \in ms
    BY <1>4 DEF UnsortedParams, UnsortedBody
  <2>2. Fits(<<Req("posA", "uint"), Req("posB", "uint")>>, ms)
    BY <2>1, ReqFits, TwoFit DEF ParamType
  <2>. QED  BY <2>1, <2>2, NamedFits, BothFit
<1>. QED  BY <1>1, <1>2, <1>3, <1>4

LEMMA SortedFits ==
  /\ DOMAIN SortedBody \cup DOMAIN ExtremeBody = DOMAIN SortedParams
  /\ DOMAIN SortedBody \cap DOMAIN ExtremeBody = {}
  /\ DOMAIN SortedParams \cap DOMAIN ArrParams = {}
  /\ \A op \in DOMAIN SortedBody : \A ms \in SortedBody[op] : Fits(SortedParams[op], ms)
  /\ \A op \in DOMAIN ExtremeBody : \A ms \in ExtremeBody[op] : Fits(SortedParams[op], ms)
<1>1. /\ DOMAIN SortedBody = {"SET", "SET_RNG", "INTERSECT"}
      /\ DOMAIN ExtremeBody = {"MIN", "MAX"}
      /\ DOMAIN SortedParams = {"SET", "SET_RNG", "INTERSECT", "MIN", "MAX"}
      /\ DOMAIN SortedParams \cap DOMAIN ArrParams = {}
  BY DEF SortedBody, ExtremeBody, SortedParams, ArrParams
<1>2. ASSUME NEW ms \in SortedBody["SET"] PROVE Fits(SortedParams["SET"], ms)
  <2>1. SortedParams["SET"] = <<Item>> \o Named /\ "name" \in ms
    BY <1>2 DEF SortedParams, SortedBody
  <2>. QED  BY <2>1, ItemFits, NamedFits, BothFit
<1>3. ASSUME NEW ms \in SortedBody["SET_RNG"] PROVE Fits(SortedParams["SET_RNG"], ms)
  <2>1. SortedParams["SET_RNG"] = <<Req("items", "array")>> \o Named
        /\ "name" \in ms /\ "items" \in ms
    BY <1>3 DEF SortedParams, SortedBody
  <2>2. Fits(Named, ms) /\ Fits(<<Req("items", "array")>>, ms)
    BY <2>1, NamedFits, ReqFits DEF ParamType
  <2>. QED  BY <2>1, <2>2, BothFit
<1>4. ASSUME NEW ms \in SortedBody["INTERSECT"] PROVE Fits(SortedParams["INTERSECT"], ms)
  <2>1. SortedParams["INTERSECT"] = <<Req("srcA", "string"), Req("srcB", "string")>>
        /\ "srcA" \in ms /\ "srcB" \in ms
    BY <1>4 DEF SortedParams, SortedBody
  <2>. QED  BY <2>1, ReqFits, TwoFit DEF ParamType
<1>5. ASSUME NEW op \in {"MIN", "MAX"}, NEW ms \in ExtremeBody[op]
      PROVE  Fits(SortedParams[op], ms)
  <2>1. SortedParams[op] = <<Req("n", "uint")>> \o Named /\ "name" \in ms /\ "n" \in ms
    BY <1>5 DEF SortedParams, ExtremeBody
  <2>2. Fits(Named, ms) /\ Fits(<<Req("n", "uint")>>, ms)
    BY <2>1, NamedFits, ReqFits DEF ParamType
  <2>. QED  BY <2>1, <2>2, BothFit
<1>. QED  BY <1>1, <1>2, <1>3, <1>4, <1>5

LEMMA LstFits ==
  /\ DOMAIN LstBody = DOMAIN LstParams
  /\ \A op \in DOMAIN LstBody : \A ms \in LstBody[op] : Fits(LstParams[op], ms)
<1>1. DOMAIN LstBody = {"CREATE", "DELETE", "EXIST", "LEN", "DELETE_ALL", "ADD", "SET_RNG",
                        "GET", "GET_RNG", "RMV", "SPLICE"}
      /\ DOMAIN LstParams = DOMAIN LstBody
  BY DEF LstBody, LstParams
<1>2. ASSUME NEW op \in {"CREATE", "DELETE", "EXIST", "LEN"}, NEW ms \in LstBody[op]
      PROVE  Fits(LstParams[op], ms)
  <2>1. LstParams[op] = Named /\ ms = {"name"}
    BY <1>2 DEF LstParams, LstBody
  <2>. QED  BY <2>1, NamedFits
<1>3. ASSUME NEW ms \in LstBody["DELETE_ALL"] PROVE Fits(LstParams["DELETE_ALL"], ms)
  <2>1. LstParams["DELETE_ALL"] = <<>>
    BY DEF LstParams
  <2>. QED  BY <2>1, NoneFits
<1>4. ASSUME NEW ms \in LstBody["ADD"] PROVE Fits(LstParams["ADD"], ms)
  <2>1. LstParams["ADD"] = <<Req("items", "array")>> \o Named \o <<Opt("pos", "uint")>>
        /\ "name" \in ms /\ "items" \in ms
    BY <1>4 DEF LstParams, LstBody
  <2>2. Fits(<<Req("items", "array")>> \o Named, ms)
    BY <2>1, ReqFits, NamedFits, BothFit DEF ParamType
  <2>. QED  BY <2>1, <2>2, OptFits, BothFit DEF ParamType
<1>5. ASSUME NEW ms \in LstBody["SET_RNG"] PROVE Fits(LstParams["SET_RNG"], ms)
  <2>1. LstParams["SET_RNG"] = <<Req("items", "array")>> \o Named \o <<Req("pos", "uint")>>
        /\ "name" \in ms /\ "items" \in ms /\ "pos" \in ms
    BY <1>5 DEF LstParams, LstBody
  <2>2. Fits(<<Req("items", "array")>> \o Named, ms)
    BY <2>1, ReqFits, NamedFits, BothFit DEF ParamType
  <2>3. Fits(<<Req("pos", "uint")>>, ms)
    BY <2>1, ReqFits DEF ParamType
  <2>. QED  BY <2>1, <2>2, <2>3, BothFit
<1>6. ASSUME NEW ms \in LstBody["GET"] PROVE Fits(LstParams["GET"], ms)
  <2>1. LstParams["GET"] = Named \o <<Opt("pos", "uint")>> /\ "name" \in ms
    BY <1>6 DEF LstParams, LstBody
  <2>. QED  BY <2>1, OptFits, NamedFits, BothFit DEF ParamType
<1>7. ASSUME NEW ms \in LstBody["GET_RNG"] PROVE Fits(LstParams["GET_RNG"], ms)
  <2>1. LstParams["GET_RNG"] = Named \o <<Req("rng", "array")>> /\ "name" \in ms /\ "rng" \in ms
    BY <1>7 DEF LstParams, LstBody
  <2>2. Fits(Named, ms) /\ Fits(<<Req("rng", "array")>>, ms)
    BY <2>1, NamedFits, ReqFits DEF ParamType
  <2>. QED  BY <2>1, <2>2, BothFit
<1>8. ASSUME NEW ms \in LstBody["RMV"] PROVE Fits(LstParams["RMV"], ms)
  <2>1. LstParams["RMV"] = <<Opt("head", "bool")>> \o Named
                             \o <<Opt("rng", "array"), Opt("tail", "bool")>>
        /\ "name" \in ms
    BY <1>8 DEF LstParams, LstBody
  <2>2. Fits(<<Opt("rng", "array"), Opt("tail", "bool")>>, ms)
    BY OptFits, TwoFit DEF ParamType
  <2>3. Fits(<<Opt("head", "bool")>> \o Named, ms)
    BY <2>1, OptFits, NamedFits, BothFit DEF ParamType
  <2>. QED  BY <2>1, <2>2, <2>3, BothFit
<1>9. ASSUME NEW ms \in LstBody["SPLICE"] PROVE Fits(LstParams["SPLICE"], ms)
  <2>1. LstParams["SPLICE"] = <<Req("destName", "string"), Opt("destPos", "uint"),
                                Req("srcName", "string"), Req("srcRng", "array")>>
        /\ "destName" \in ms /\ "srcName" \in ms /\ "srcRng" \in ms
    BY <1>9 DEF LstParams, LstBody
  <2>2. {Req("destName", "string"), Opt("destPos", "uint"),
         Req("srcName", "string"), Req("srcRng", "array")} \subseteq Fitting(ms)
    BY <2>1, ReqFits, OptFits DEF ParamType
  <2>. QED  BY <2>1, <2>2 DEF Fits
<1>. QED  BY <1>1, <1>2, <1>3, <1>4, <1>5, <1>6, <1>7, <1>8, <1>9

\* A wrapper sends the name and the parameters of a command that has a handler.
LEMMA WrapperFits ==
  ASSUME NEW ident \in Idents, NEW op \in DOMAIN Bodies(ident), NEW ms \in Bodies(ident)[op]
  PROVE  op \in DOMAIN HandlerOf(ident) /\ Fits(HandlerOf(ident)[op], ms)
<1>1. CASE ident = "KV"
  <2>1. Bodies(ident) = KvBody /\ HandlerOf(ident) = KvParams
    BY <1>1 DEF Bodies, HandlerOf, Unsorted, Sorted
  <2>. QED  BY <2>1, KvFits
<1>2. CASE ident = "OLST"
  <2>1. Bodies(ident) = LstBody /\ HandlerOf(ident) = LstParams
    BY <1>2 DEF Bodies, HandlerOf, Unsorted, Sorted
  <2>. QED  BY <2>1, LstFits
<1>3. CASE ident \in Unsorted
  <2>1. Bodies(ident) = Both(ArrBody, UnsortedBody)
        /\ HandlerOf(ident) = Both(ArrParams, UnsortedParams)
    BY <1>3 DEF Bodies, HandlerOf, UnsortedHandler, Unsorted, Sorted
  <2>. QED  BY <2>1, ArrFits, UnsortedFits DEF Both
<1>4. CASE ident = "SIARR"
  <2>1. Bodies(ident) = Both(Both(ArrBody, SortedBody), ExtremeBody)
        /\ HandlerOf(ident) = Both(ArrParams, SortedParams)
    BY <1>4 DEF Bodies, HandlerOf, SortedHandler, Unsorted, Sorted
  <2>. QED  BY <2>1, ArrFits, SortedFits DEF Both
<1>5. CASE ident = "SSTRARR"
  <2>1. Bodies(ident) = Both(ArrBody, SortedBody)
        /\ HandlerOf(ident) = Both(ArrParams, SortedParams)
    BY <1>5 DEF Bodies, HandlerOf, SortedHandler, Unsorted, Sorted
  <2>. QED  BY <2>1, ArrFits, SortedFits DEF Both
<1>. QED  BY <1>1, <1>2, <1>3, <1>4, <1>5 DEF Idents, Unsorted, Sorted

\* The statuses of a command that is not known, or not sent the way it has to be.
Unlike == {"CommandNotExist", "CommandSyntax", "ParamMissing", "ValueSize"}

\* A parameter that is there, or may be missing, is refused for its type only.
LEMMA FittingJudged ==
  ASSUME NEW cmd, NEW body, NEW p \in Fitting(DOMAIN body)
  PROVE  Judged(cmd, body, p) \in {"Ok", "ValueTypeInvalid", "throws"}
  BY DEF Fitting, Judged, ItemStatus, ParamStatus, Item, Req, Opt, Par

\* The values of the range and of the keys that a wrapper lets pass are of the
\* right size and in the order the handler checks.
LEMMA ValuesPass ==
  ASSUME NEW cmd, cmd.ident \in Idents, NEW body,
         \A member \in DOMAIN body : body[member] \in PyValues(cmd, member),
         IsKv(cmd) /\ cmd.op = "RMV" => "keys" \in DOMAIN body,
         IsArr(cmd) /\ cmd.op \in {"GET_RNG", "CLEAR"} => "rng" \in DOMAIN body,
         IsLst(cmd) /\ cmd.op = "GET_RNG" => "rng" \in DOMAIN body
  PROVE  PostStatus(cmd, body) \in {"Ok", "ValueTypeInvalid"}
<1>1. CASE IsKv(cmd) /\ cmd.op = "RMV"
  <2>1. body["keys"] \in {"[1]", "[odd]", "object"}
    BY <1>1 DEF PyValues
  <2>. QED  BY <1>1, <2>1 DEF PostStatus, IsArr, IsKv, IsLst, Unsorted, Sorted
<1>2. CASE IsArr(cmd) /\ cmd.op = "GET_RNG"
  <2>1. body["rng"] \in {"[1]", "[1,2]", "[odd]"}
    BY <1>2 DEF PyValues, IsArr, IsLst, Unsorted, Sorted
  <2>2. PostStatus(cmd, body) = RangeStatus(body["rng"])
    BY <1>2 DEF PostStatus, IsArr, IsKv, Unsorted, Sorted
  <2>. QED  BY <2>1, <2>2 DEF RangeStatus
<1>3. CASE IsArr(cmd) /\ cmd.op = "CLEAR"
  <2>1. body["rng"] \in {"[1]", "[1,2]", "[2,1]", "[odd]"}
    BY <1>3 DEF PyValues, IsArr, IsLst, Unsorted, Sorted
  <2>2. PostStatus(cmd, body) = ClearStatus(body["rng"])
    BY <1>3 DEF PostStatus, IsArr, IsKv, Unsorted, Sorted
  <2>. QED  BY <2>1, <2>2 DEF ClearStatus
<1>4. CASE IsLst(cmd) /\ (cmd.op = "GET_RNG" \/ (cmd.op = "RMV" /\ "rng" \in DOMAIN body))
  <2>1. body["rng"] \in {"[1]", "[1,2]"}
    BY <1>4 DEF PyValues
  <2>2. PostStatus(cmd, body) = RangeStatus(body["rng"])
    BY <1>4 DEF PostStatus, IsArr, IsKv, IsLst, Unsorted, Sorted
  <2>. QED  BY <2>1, <2>2 DEF RangeStatus
<1>5. CASE IsLst(cmd) /\ cmd.op \in {"ADD", "SET_RNG"}
  BY <1>5 DEF PostStatus, IsArr, IsKv, IsLst, Unsorted, Sorted
<1>. QED  BY <1>1, <1>2, <1>3, <1>4, <1>5 DEF PostStatus

\* What a wrapper sends is known to the handler and passes its validation, or is
\* refused for the type of a value.
LEMMA WrapperValidated ==
  ASSUME NEW ident \in Idents, NEW op \in DOMAIN Bodies(ident), NEW cmd, NEW body,
         cmd = [ident |-> ident, op |-> op], DOMAIN body \in Bodies(ident)[op],
         \A member \in DOMAIN body : body[member] \in PyValues(cmd, member)
  PROVE  /\ Handled(cmd)
         /\ Validate(cmd, body) \in {"Ok", "ValueTypeInvalid", "throws"}
<1>1. cmd.ident = ident /\ cmd.op = op
  OBVIOUS
<1>2. op \in DOMAIN HandlerOf(ident) /\ Fits(HandlerOf(ident)[op], DOMAIN body)
  BY WrapperFits
<1>3. Handled(cmd) /\ Params(cmd) \in Seq(Fitting(DOMAIN body))
  BY <1>1, <1>2 DEF Handled, Params, Fits
<1>4. IsKv(cmd) /\ op = "RMV" => "keys" \in DOMAIN body
  BY <1>1 DEF IsKv, Bodies, KvBody, KvParams, Unsorted, Sorted
<1>5. IsArr(cmd) /\ op \in {"GET_RNG", "CLEAR"} => "rng" \in DOMAIN body
  <2>. SUFFICES ASSUME IsArr(cmd), op \in {"GET_RNG", "CLEAR"} PROVE "rng" \in DOMAIN body
    OBVIOUS
  <2>1. \/ Bodies(ident) = Both(ArrBody, UnsortedBody)
        \/ Bodies(ident) = Both(Both(ArrBody, SortedBody), ExtremeBody)
        \/ Bodies(ident) = Both(ArrBody, SortedBody)
    BY <1>1 DEF IsArr, Bodies, Unsorted, Sorted
  <2>2. op \in DOMAIN ArrBody /\ ArrBody[op] = {{"name", "rng"}}
    BY DEF ArrBody
  <2>3. Bodies(ident)[op] = ArrBody[op]
    BY <2>1, <2>2 DEF Both
  <2>. QED  BY <2>2, <2>3
<1>6. IsLst(cmd) /\ op = "GET_RNG" => "rng" \in DOMAIN body
  BY <1>1 DEF IsLst, Bodies, LstBody, Unsorted, Sorted
<1>7. PostStatus(cmd, body) \in {"Ok", "ValueTypeInvalid"}
  BY <1>1, <1>4, <1>5, <1>6, ValuesPass
<1>. QED  BY <1>3, <1>7, ValidateEnds, FittingJudged

\* Every command of a table has an op.
LEMMA NoneUnnamed ==
  ASSUME NEW ident \in Idents
  PROVE  NoOp \notin DOMAIN HandlerOf(ident)
<1>1. /\ NoOp \notin DOMAIN KvParams /\ NoOp \notin DOMAIN LstParams
      /\ NoOp \notin DOMAIN ArrParams
      /\ NoOp \notin DOMAIN UnsortedParams /\ NoOp \notin DOMAIN SortedParams
  BY DEF NoOp, KvParams, LstParams, ArrParams, UnsortedParams, SortedParams
<1>2. HandlerOf(ident) \in {KvParams, LstParams, Both(ArrParams, UnsortedParams),
                            Both(ArrParams, SortedParams)}
  BY DEF HandlerOf, UnsortedHandler, SortedHandler, Idents, Unsorted, Sorted
<1>. QED  BY <1>1, <1>2 DEF Both

\* A command that is executed is not answered as if it were unknown.
LEMMA ExecutedStatus ==
  ASSUME NEW cmd, NEW a \in Executed(cmd)
  PROVE  a.st \notin Unlike
<1>1. CASE \E st \in Status(cmd) : a = Answer(cmd, st)
  <2>1. PICK st \in Status(cmd) : a = Answer(cmd, st)
    BY <1>1
  <2>2. Status(cmd) \cap Unlike = {}
    BY DEF Status, KvStatus, LstStatus, ArrStatus, Unlike
  <2>. QED  BY <2>1, <2>2 DEF Answer
<1>2. CASE a = Thrown(cmd)
  BY <1>2 DEF Thrown, ErrAnswer, Answer, Unlike
<1>3. CASE a = Answer(ErrorName(cmd), "NotExist")
  BY <1>3 DEF Answer, Unlike
<1>. QED  BY <1>1, <1>2, <1>3 DEF Executed

LEMMA KnownWrappers ==
  ASSUME TypeKept, IInv
  PROVE  WrappersAreKnown
<1>1. SUFFICES ASSUME NEW c \in Client, call[c].phase = "answered", call[c].via = "wrapper"
               PROVE  call[c].answer.st \notin Unlike
  BY DEF WrappersAreKnown, Unlike
<1>2. PICK m, a : m = call[c].msg /\ a = call[c].answer
  OBVIOUS
<1>3. Given(m, a) /\ m \in WrapperMessages
  BY <1>1, <1>2, CallsAssumption DEF IInv, CallInv
<1>4. PICK ident \in Idents \cup {"SV"} :
        \E op \in DOMAIN Bodies(ident) :
          /\ m.cmd = [ident |-> ident, op |-> op]
          /\ DOMAIN m.body \in Bodies(ident)[op]
  BY <1>3, WrapperSends
<1>5. PICK op \in DOMAIN Bodies(ident) :
        /\ m.cmd = [ident |-> ident, op |-> op]
        /\ DOMAIN m.body \in Bodies(ident)[op]
  BY <1>4
<1>6. m.form = "command" /\ \A member \in DOMAIN m.body : m.body[member] \in PyValues(m.cmd, member)
  BY <1>3, WrapperSends
<1>7. CASE ident = "SV"
  <2>1. Bodies(ident) = [INFO |-> {{}}]
    BY <1>7 DEF Bodies, Unsorted, Sorted
  <2>2. m.cmd = Info
    BY <1>5, <1>7, <2>1 DEF Info
  <2>3. a = Answer(Info, "Ok")
    BY <1>3, <1>6, <2>2 DEF Given, TypeMissed, KnownAnswers, NoOp, Info
  <2>. QED  BY <1>2, <2>3 DEF Answer, Unlike
<1>8. CASE ident \in Idents
  <2>1. Handled(m.cmd) /\ Validate(m.cmd, m.body) \in {"Ok", "ValueTypeInvalid", "throws"}
    BY <1>5, <1>6, <1>8, WrapperValidated
  <2>2. m.cmd.op # NoOp /\ m.cmd # Info /\ ~UnknownType(m.cmd)
    <3>1. m.cmd.ident = ident /\ m.cmd.op = op
      BY <1>5
    <3>2. op # ""
      BY <2>1, <3>1, NoneUnnamed DEF Handled, NoOp
    <3>3. Info.ident = "SV" /\ ident # "SV"
      BY <1>8 DEF Info, Idents, Unsorted, Sorted
    <3>4. m.cmd # Info
      BY <3>1, <3>3
    <3>. QED  BY <1>8, <3>1, <3>2, <3>4 DEF NoOp, UnknownType
  <2>3. a \in Handle(m.cmd, m.body)
    BY <1>3, <1>6, <2>2 DEF Given, TypeMissed, KnownAnswers
  <2>4. \/ a \in Executed(m.cmd)
        \/ a \in {ErrAnswer("Unknown"), Answer(m.cmd, "CommandDisabled"),
                  Answer(ErrorName(m.cmd), "ValueTypeInvalid")}
    BY <2>1, <2>3 DEF Handle, ValidateAndExecute
  <2>. QED  BY <1>2, <2>4, ExecutedStatus DEF Answer, ErrAnswer, Unlike
<1>. QED  BY <1>7, <1>8

\* Client and server agree on the commands, whatever the settings and whatever the
\* clients do: no wrapper of the Python API sends a name, a set of members or a
\* range that the server refuses as unknown, missing or out of shape.
THEOREM WrappersKnown ==
  ASSUME TypeKept
  PROVE  Spec => []WrappersAreKnown
<1>1. IInv => WrappersAreKnown
  BY KnownWrappers
<1>. QED  BY <1>1, Invariance, PTL
=============================================================================
