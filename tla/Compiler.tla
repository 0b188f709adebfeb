------------------------------ MODULE Compiler ------------------------------
(***************************************************************************)
(* From the syntax tree to instructions: the drive methods of vm/ast.cpp   *)
(* and ast::State, which collects the instruction bytes, the tables they   *)
(* refer to and the line table.  Drive(S, n, p, t) appends to S the code   *)
(* that leaves the value of node n (of path p) in register t.              *)
(***************************************************************************)
EXTENDS ScopeTracker

-----------------------------------------------------------------------------
(* ast::State                                                              *)
StateFor(lm, lambda) ==
  [buf |-> <<>>, strings |-> <<>>, codes |-> <<>>, keywords |-> <<>>,
   lines |-> <<>>, cur_line |-> 0, lm |-> lm, lambda |-> lambda]

\* Instruction is a byte: what is pushed is narrowed to it.
Byte(x) == x % 256
Push(S, xs) == [S EXCEPT !.buf = @ \o [i \in DOMAIN xs |-> Byte(xs[i])]]
PosOf(S) == Len(S.buf)

\* State::string and State::code give the index of what they add to a table.
PushString(S, xs, str, ys) ==
  Push([S EXCEPT !.strings = Append(@, str)], xs \o <<Len(S.strings)>> \o ys)
PushCode(S, xs, code) == Push([S EXCEPT !.codes = Append(@, code)], xs \o <<Len(S.codes)>>)

\* State::label and a byte to fill in; where it is filled in.
PushLabel(S, xs) == Push(S, xs \o <<0>>)
LabelOf(S) == Len(S.buf)
\* Faulty: the offset is counted from the label and not from the byte after it.
SetLabelFromItself(S, l) == [S EXCEPT !.buf[l] = Byte(Len(S.buf) - l + 1)]
SetLabel(S, l) == [S EXCEPT !.buf[l] = Byte(Len(S.buf) - l)]
SetLabelAbs(S, l) == [S EXCEPT !.buf[l] = Byte(Len(S.buf))]

\* State::pos(n): the line of what is pushed next.
\* Faulty: the lines of a table only rise.
PosRising(S, n) ==
  IF n.line <= S.cur_line THEN S
  ELSE [S EXCEPT !.lines = @ \o <<PosOf(S), n.line>>, !.cur_line = n.line]
Pos(S, n) ==
  LET at == PosOf(S)
      k == Len(S.lines)
  IN IF n.line < 1 THEN S
     ELSE IF S.lines = <<>> THEN [S EXCEPT !.lines = <<at, n.line>>]
     ELSE IF S.cur_line = n.line THEN S
     ELSE IF S.lines[k - 1] = at
          THEN [S EXCEPT !.lines[k] = n.line, !.cur_line = n.line]
     ELSE [S EXCEPT !.lines = @ \o <<at, n.line>>, !.cur_line = n.line]

\* argmap_to_ltuple: the names at their positions, "" for a null pointer.
ArgmapToLtuple(map) ==
  LET size == 1 + Max({map[k] : k \in DOMAIN map} \cup {0})
  IN [i \in 1 .. size |->
        IF \E k \in DOMAIN map : map[k] = i - 1
        THEN CHOOSE k \in DOMAIN map : map[k] = i - 1 ELSE ""]

\* Code::Code, of what a body has collected or a file holds.
NewCode(name, insns, strings, codes, args, req, keywords, lines, cov, ret) ==
  [name |-> name, insns |-> insns, strings |-> strings, codes |-> codes,
   args |-> ArgmapToLtuple(args), req |-> req, lines |-> lines,
   keywords |-> [i \in DOMAIN keywords |-> ArgmapToLtuple(keywords[i])],
   cov |-> cov, return_to |-> ret]
\* State::to_code: the end of the code closes the line table.
ToCode(S, name, args, req, cov, ret) ==
  NewCode(name, S.buf, S.strings, S.codes, args, req, S.keywords,
          Append(S.lines, Len(S.buf)), cov, ret)

\* Local::idx and Local::depth, of the local with number o.
LocalOf(S, o) == S.lm.objs[o]
IdxOf(S, o) ==
  LET l == LocalOf(S, o) IN
  IF l.type = "eClosureAccess" THEN LocalOf(S, l.owned).idx ELSE l.idx
DepthOf(S, o) == IF LocalOf(S, o).type = "eClosureOwn" THEN 0 ELSE LocalOf(S, o).depth

SetLocal(S, o, t) ==
  IF RegP(LocalOf(S, o)) THEN Push(S, <<Op.MOVR, IdxOf(S, o), t>>)
  ELSE Push(S, <<Op.SVAR, DepthOf(S, o), IdxOf(S, o), t>>)
GetLocal(S, o, t) ==
  IF ~RegP(LocalOf(S, o)) THEN Push(S, <<Op.LVAR, t, DepthOf(S, o), IdxOf(S, o)>>)
  ELSE IF IdxOf(S, o) = -1 THEN Push(S, <<Op.SELF, t>>)
  ELSE Push(S, <<Op.MOVR, t, IdxOf(S, o)>>)

PushSend(S, t, name, recv, count) == PushString(S, <<Op.SEND, t>>, name, <<recv, count>>)
PushSendKw(S, t, name, recv, count, keywords) ==
  PushString([S EXCEPT !.keywords = Append(@, keywords)], <<Op.SEND_KW, t>>, name,
             <<recv, count, Len(S.keywords)>>)
PushMessage(S, t, name, recv, count, keywords) ==
  IF keywords = <<>> THEN PushSend(S, t, name, recv, count)
  ELSE PushSendKw(S, t, name, recv, count, keywords)

-----------------------------------------------------------------------------
(* drive                                                                   *)
RECURSIVE Drive(_, _, _, _)
Kid(S, n, p, i, t) == Drive(S, n.kids[i], Append(p, i), t)
HasKid(n, i) == n.kids[i] # Null
\* The children after the first `skip`, into registers j, j + 1, ...
Args(S, n, p, skip, j) ==
  LET f[i \in skip .. Len(n.kids)] ==
        IF i = skip THEN S ELSE Kid(f[i - 1], n, p, i, j + i - skip - 1)
  IN f[Len(n.kids)]
LocalAt(S, p) == S.lm.map[p]
SubState(S, lambda) == StateFor(S.lm, lambda)
CovOf(S, p) == S.lm.scopes[p].cov
LocalsOf(S, p) == S.lm.scopes[p].locals

DriveSeq(S, n, p, t) == Kid(Kid(S, n, p, 1, t), n, p, 2, t)

\* A captured argument is stored in its slot; the others are in place.
DriveArgument(S, a, p) ==
  IF RegP(LocalOf(S, LocalAt(S, p))) THEN S ELSE SetLocal(S, LocalAt(S, p), a.val)
\* Faulty: the captured arguments are not copied to their slots.
DriveScopeBare(S, n, p, t) == Kid(S, n, p, 1, t)
DriveScope(S, n, p, t) ==
  LET f[i \in 1 .. Len(n.kids)] ==
        IF i = 1 THEN S
        ELSE IF HasKid(n, i) THEN DriveArgument(f[i - 1], n.kids[i], Append(p, i))
        ELSE f[i - 1]
  IN Kid(f[Len(n.kids)], n, p, 1, t)

DriveSendIndirect(S, n, p, t) ==
  LET s == Args(Kid(Kid(S, n, p, 1, t), n, p, 2, t + 1), n, p, 2, t + 2)
  IN Push(s, <<Op.SENDI, t, t, t + 1, Len(n.kids) - 2>>)
\* Faulty: the type is cast to the value.
DriveCastSwapped(S, n, p, t) ==
  PushSend(Pos(Kid(Kid(S, n, p, 1, t), n, p, 2, t + 1), n), t, "cast", t, 1)
DriveCast(S, n, p, t) ==
  PushSend(Pos(Kid(Kid(S, n, p, 2, t), n, p, 1, t + 1), n), t, "cast", t, 1)
DriveTuple(S, n, p, t) ==
  Push(Pos(Args(S, n, p, 0, t), n), <<Op.TUPLE, t, t, Len(n.kids)>>)
DriveList(S, n, p, t) ==
  Push(Pos(Args(S, n, p, 0, t), n), <<Op.LIST, t, t, Len(n.kids)>>)

\* A self-less send to the name of a local applies what the local holds.
\* Faulty: the arguments start in the receiver's register.
DriveSendOver(S, n, p, t) ==
  LET s == Pos(Args(Kid(S, n, p, 1, t), n, p, 1, t), n)
  IN PushMessage(s, t, n.name, t, Len(n.kids) - 1, n.keywords)
DriveSend(S, n, p, t) ==
  LET markov == SelfLess(n) /\ Found(S.lm, p)
      recv == IF markov THEN GetLocal(S, LocalAt(S, p), t) ELSE Kid(S, n, p, 1, t)
      s == Pos(Args(recv, n, p, 1, t + 1), n)
      name == IF markov THEN "apply"
              ELSE IF n.spec = "eSetAttr" THEN n.name \o "=" ELSE n.name
  IN PushMessage(s, t, name, t, Len(n.kids) - 1, n.keywords)

\* The four bytes of a number, the lowest first.
Bytes4(v) == <<v, v \div 256, v \div 65536, v \div 16777216>>
DriveNumber(S, n, t) ==
  LET s == Pos(S, n) IN
  IF n.val < 128 /\ n.val > -127 THEN Push(s, <<Op.MOVI8, t, n.val>>)
  ELSE Push(s, <<Op.MOVI32, t>> \o Bytes4(n.val))
DriveNamed(S, n, p, t) ==
  LET s == Pos(S, n) IN
  IF Found(S.lm, p) THEN GetLocal(s, LocalAt(S, p), t)
  ELSE PushSend(Push(s, <<Op.SELF, t>>), t, n.name, t, 0)

\* Def::drive, for one argument: its default and its cast.  The label of the
\* default is taken in, and set in, the code around the method, past its end:
\* the jump over the default keeps its 0.
DriveDefault(S, a, p, first) ==
  LET s == PushLabel(S, <<Op.JMPHA, a.val>>)
  IN Push(Drive(s, a.kids[2], Append(p, 2), first), <<Op.MOVR, a.val, first>>)
DriveArgCast(S, a, p, first) ==
  LET s == Push(Drive(S, a.kids[1], Append(p, 1), first), <<Op.MOVR, first + 1, a.val>>)
  IN PushSend(s, a.val, "cast", first, 1)
DriveDefArg(S, a, p, first) ==
  LET s == IF HasKid(a, 2) THEN DriveDefault(S, a, p, first) ELSE S
  IN IF HasKid(a, 1) THEN DriveArgCast(s, a, p, first) ELSE s

\* The code of a body that follows what s has, its value in register `first`,
\* and the return.
BodyCode(s, n, p, i, first, name, args, req, ret) ==
  LET q == Append(p, i) IN
  ToCode(Push(Drive(s, n.kids[i], q, first), <<Op.RET, first>>), name, args, req,
         CovOf(s, q), ret)
PlainBody(S, n, p, i, name, lambda) ==
  BodyCode(SubState(S, lambda), n, p, i, LocalsOf(S, Append(p, i)), name, <<>>, 0, FALSE)

\* Faulty: the temporaries of a method start below its arguments.
DefFirstRegLow(S, n, p) == LocalsOf(S, Append(p, 1))
DefFirstReg(S, n, p) == n.val + LocalsOf(S, Append(p, 1))
DefCode(S, n, p) ==
  LET args == ArgObjs(n.kids[1])
      first == DefFirstReg(S, n, p)
      names == {args[i].name : i \in DOMAIN args}
      argMap == [m \in names |-> args[CHOOSE i \in DOMAIN args : args[i].name = m].val]
      prologue(s) ==
        LET f[i \in 0 .. Len(args)] ==
              IF i = 0 THEN s
              ELSE DriveDefArg(f[i - 1], args[i], p \o <<1, i + 2>>, first)
        IN f[Len(args)]
      req == Len(SelectSeq(args, LAMBDA a : a.kids[2] = Null))
  IN BodyCode(prologue(SubState(S, FALSE)), n, p, 1, first, n.name, argMap, req, TRUE)
DriveDef(S, n, p, t) ==
  LET scoped == n.str # ""
      self == Push(Pos(S, n), <<Op.SELF, t>>)
      s == IF scoped THEN PushString(self, <<Op.LOADS, t + 1>>, n.str, <<>>) ELSE self
      next == IF scoped THEN t + 2 ELSE t + 1
      named == PushString(s, <<Op.LOADS, next>>, n.name, <<>>)
  IN PushSend(PushCode(named, <<Op.LOADC, next + 1>>, DefCode(S, n, p)), t,
              IF scoped THEN "add_scope_method" ELSE "add_method", t,
              IF scoped THEN 3 ELSE 2)

\* The end of Trait::drive and Class::drive: the body is run with the new object.
RunBody(S, n, p, i, t) ==
  PushSend(PushCode(S, <<Op.LOADC, t + 1>>, PlainBody(S, n, p, i, "__body__", FALSE)),
           t, "run_body", t, 1)
\* The name is in the string table once, at si, for LOADS and for IVA.
LoadName(S, t, name) == PushString(S, <<Op.LOADS, t + 1>>, name, <<>>)
NameNew(s, si, t) == Push(s, <<Op.IVA, si, t>>)
DriveTrait(S, n, p, t) ==
  LET l == LocalAt(S, p)
      sends == S.lm.sends[p]
      k == Len(sends)
      trait == GetLocal(Pos(S, n), LocalOf(S, l).extra, t)
      f[i \in 0 .. k] ==
        IF i = 0 THEN LoadName(trait, t, n.name)
        ELSE PushString(f[i - 1], <<Op.LOADS, t + 1 + i>>, sends[i], <<>>)
      made == PushSend(Push(f[k], <<Op.TUPLE, t + 2, t + 2, k>>), t, "new", t, 2)
  IN RunBody(SetLocal(NameNew(made, Len(trait.strings), t), l, t), n, p, 1, t)
DriveClass(S, n, p, t) ==
  LET super == Kid(Pos(S, n), n, p, 1, t)
      made == PushSend(LoadName(super, t, n.name), t, "new_subclass", t, 1)
      s == NameNew(made, Len(super.strings), t)
  IN RunBody(SetLocal(s, LocalAt(S, Append(p, 2)), t), n, p, 2, t)
DriveLambda(S, n, p, t) ==
  PushCode(Pos(S, n), <<Op.LOADC, t>>, PlainBody(S, n, p, 1, "__lambda__", TRUE))

\* Faulty: a return of a lambda returns from the lambda alone.
DriveReturnLocal(S, n, p, t) == Push(Kid(Pos(S, n), n, p, 1, t), <<Op.RET, t>>)
DriveReturn(S, n, p, t) ==
  Push(Kid(Pos(S, n), n, p, 1, t), <<IF S.lambda THEN Op.LRET ELSE Op.RET, t>>)

-----------------------------------------------------------------------------
(* jumps                                                                   *)
\* The body runs unless the condition takes the jump around it.
Guarded(S, n, p, jump, t) ==
  LET s == PushLabel(Kid(Pos(S, n), n, p, 1, t), <<jump, t>>)
  IN [code |-> Kid(s, n, p, 2, t), label |-> LabelOf(s)]
DriveWhile(S, n, p, t) ==
  LET top == PosOf(S)
      g == Guarded(S, n, p, Op.JMPIF, t)
      s == Push(g.code, <<Op.JMPB>>)
  IN SetLabel(Push(s, <<PosOf(s) - top - 1>>), g.label)
DriveIfCond(S, n, p, t) ==
  LET g == Guarded(S, n, p, Op.JMPIF, t)
      s == PushLabel(g.code, <<Op.JMPF>>)
  IN IF HasKid(n, 3)
     THEN SetLabel(Kid(SetLabel(s, g.label), n, p, 3, t), LabelOf(s))
     ELSE SetLabel(g.code, g.label)
DriveUnless(S, n, p, t) ==
  LET g == Guarded(S, n, p, Op.JMPIT, t) IN SetLabel(g.code, g.label)
DriveAnd(S, n, p, t) ==
  LET g == Guarded(S, n, p, Op.JMPIF, t) IN SetLabel(g.code, g.label)

\* The handler: is the exception one of the type named, or is it raised again?
DriveHandler(S, n, p, t) ==
  LET type == Push(Kid(S, n, p, 3, t + 1), <<Op.MOVR, t + 2, t>>)
      test == PushLabel(PushSend(type, t + 1, "===", t + 1, 1), <<Op.JMPIF, t + 1>>)
      body == Kid(SetLocal(test, LocalAt(S, p), t), n, p, 2, t)
      over == PushLabel(body, <<Op.JMPF>>)
  IN SetLabel(Push(SetLabel(over, LabelOf(test)), <<Op.RAISE, t>>), LabelOf(over))
\* Faulty: the handler is left in place after the body.
DriveTryNoPop(S, n, p, t) ==
  LET h == PushLabel(Pos(S, n), <<Op.REGE, t>>)
      b == PushLabel(Kid(h, n, p, 1, t), <<Op.JMPF>>)
      s == SetLabelAbs(b, LabelOf(h))
      handler == IF n.name # "" /\ HasKid(n, 3) THEN DriveHandler(s, n, p, t)
                 ELSE Kid(s, n, p, 2, t)
  IN SetLabel(handler, LabelOf(b))
DriveTry(S, n, p, t) ==
  LET h == PushLabel(Pos(S, n), <<Op.REGE, t>>)
      b == PushLabel(Kid(h, n, p, 1, t), <<Op.POPE, Op.JMPF>>)
      s == SetLabelAbs(b, LabelOf(h))
      handler == IF n.name # "" /\ HasKid(n, 3) THEN DriveHandler(s, n, p, t)
                 ELSE Kid(s, n, p, 2, t)
  IN SetLabel(handler, LabelOf(b))

-----------------------------------------------------------------------------
(* names and literals                                                      *)
DriveImport(S, n, p, t) ==
  LET l == LocalAt(S, p)
      current == PushSend(GetLocal(Pos(S, n), LocalOf(S, l).extra, t), t, "current", t, 0)
      s == PushSend(PushString(current, <<Op.LOADS, t + 1>>, n.str, <<>>), t, "import", t, 1)
      one == PushSend(PushString(s, <<Op.LOADS, t + 1>>, n.spec, <<>>), t, "::", t, 1)
  IN SetLocal(IF n.type = "ImportOne" THEN one ELSE s, l, t)
DriveAssign(S, n, p, t) == SetLocal(Kid(Pos(S, n), n, p, 1, t), LocalAt(S, p), t)
DriveAssignOp(S, n, p, t) ==
  LET l == LocalAt(S, p)
      s == Kid(GetLocal(Pos(S, n), l, t), n, p, 1, t + 1)
  IN SetLocal(PushSend(s, t, n.str, t, 1), l, t)
DriveIvarAssign(S, n, p, t) ==
  PushString(Kid(Pos(S, n), n, p, 1, t), <<Op.IVA>>, n.name, <<t>>)
\* The operands of IVR are swapped here: the name's index, then the register.
DriveIvarAssignOp(S, n, p, t) ==
  LET s == Kid(PushString(Pos(S, n), <<Op.IVR>>, n.name, <<t>>), n, p, 1, t + 1)
  IN PushString(PushSend(s, t, n.str, t, 1), <<Op.IVA>>, n.name, <<t>>)
DriveIvarRead(S, n, t) == PushString(Pos(S, n), <<Op.IVR, t>>, n.name, <<>>)
DriveLiteralString(S, n, t) == PushString(Pos(S, n), <<Op.LOADS, t>>, n.str, <<>>)
DriveRaise(S, n, p, t) == Push(Kid(Pos(S, n), n, p, 1, t), <<Op.RAISE, t>>)
DriveNot(S, n, p, t) == Push(Kid(Pos(S, n), n, p, 1, t), <<Op.NOT, t, t>>)
DriveDictionary(S, n, p, t) ==
  LET s == Args(GetLocal(Pos(S, n), LocalAt(S, p), t), n, p, 0, t + 1)
  IN PushSendKw(s, t, "literal", t, Len(n.kids), n.keywords)

\* The first case, which never applies, makes TLC evaluate S before the node.
Drive(S, n, p, t) ==
  CASE PosOf(S) < 0 -> S
    [] n.type = "Seq" -> DriveSeq(S, n, p, t)
    [] n.type = "Scope" -> DriveScope(S, n, p, t)
    [] n.type = "SendIndirect" -> DriveSendIndirect(S, n, p, t)
    [] n.type = "Cast" -> DriveCast(S, n, p, t)
    [] n.type = "Tuple" -> DriveTuple(S, n, p, t)
    [] n.type = "List" -> DriveList(S, n, p, t)
    [] n.type = "Send" -> DriveSend(S, n, p, t)
    [] n.type = "Number" -> DriveNumber(S, n, t)
    [] n.type = "Named" -> DriveNamed(S, n, p, t)
    [] n.type = "Def" -> DriveDef(S, n, p, t)
    [] n.type = "Trait" -> DriveTrait(S, n, p, t)
    [] n.type = "Class" -> DriveClass(S, n, p, t)
    [] n.type = "Return" -> DriveReturn(S, n, p, t)
    [] n.type = "While" -> DriveWhile(S, n, p, t)
    [] n.type = "IfCond" -> DriveIfCond(S, n, p, t)
    [] n.type = "Unless" -> DriveUnless(S, n, p, t)
    [] n.type = "Nil" -> Push(Pos(S, n), <<Op.MOVN, t>>)
    [] n.type = "True" -> Push(Pos(S, n), <<Op.MOVT, t>>)
    [] n.type = "False" -> Push(Pos(S, n), <<Op.MOVF, t>>)
    [] n.type = "Self" -> GetLocal(Pos(S, n), LocalAt(S, p), t)
    [] n.type \in {"Import", "ImportOne"} -> DriveImport(S, n, p, t)
    [] n.type = "Try" -> DriveTry(S, n, p, t)
    [] n.type = "Assign" -> DriveAssign(S, n, p, t)
    [] n.type = "AssignOp" -> DriveAssignOp(S, n, p, t)
    [] n.type = "IvarAssign" -> DriveIvarAssign(S, n, p, t)
    [] n.type = "IvarAssignOp" -> DriveIvarAssignOp(S, n, p, t)
    [] n.type = "IvarRead" -> DriveIvarRead(S, n, t)
    [] n.type = "LiteralString" -> DriveLiteralString(S, n, t)
    [] n.type = "Lambda" -> DriveLambda(S, n, p, t)
    [] n.type = "Raise" -> DriveRaise(S, n, p, t)
    [] n.type = "Not" -> DriveNot(S, n, p, t)
    [] n.type = "And" -> DriveAnd(S, n, p, t)
    [] n.type = "Dictionary" -> DriveDictionary(S, n, p, t)

\* Compiler::compile
Compile(top) ==
  LET lm == CalculateLocals(top)
      S == Drive(StateFor(lm, FALSE), top, <<>>, lm.scopes[<<>>].locals)
  IN ToCode(S, "__main__", <<>>, 0, lm.scopes[<<>>].cov, FALSE)

-----------------------------------------------------------------------------
(* Compiled files (Code::save, Code::load)                                 *)

\* Faulty: the names of a table are counted from one.
EntriesFromOne(ltuple) == [i \in DOMAIN ltuple |-> [key |-> ltuple[i], value |-> i]]
\* A table of names in a file: name and position of each place.  A parameter
\* list without parameters has one place, and the empty string stands for it.
Entries(ltuple) == [i \in DOMAIN ltuple |-> [key |-> ltuple[i], value |-> i - 1]]
MapOf(entries) == FoldLeft(LAMBDA map, e : e.key :> e.value @@ map, <<>>, entries)

\* Code::fill
RECURSIVE Fill(_)
Fill(c) ==
  [name |-> c.name, instructions |-> c.insns, strings |-> c.strings,
   codes |-> [i \in DOMAIN c.codes |-> Fill(c.codes[i])],
   args |-> Entries(c.args), keywords |-> [i \in DOMAIN c.keywords |-> Entries(c.keywords[i])],
   closed_over_vars |-> c.cov, return_to |-> c.return_to, required_args |-> c.req,
   lines |-> c.lines]

\* Code::load
RECURSIVE LoadCode(_)
LoadCode(ser) ==
  NewCode(ser.name, ser.instructions, ser.strings,
          [i \in DOMAIN ser.codes |-> LoadCode(ser.codes[i])],
          MapOf(ser.args), ser.required_args,
          [i \in DOMAIN ser.keywords |-> MapOf(ser.keywords[i])],
          ser.lines, ser.closed_over_vars, ser.return_to)

\* fill asks every place of a keyword table for its name: a call that mixes
\* positions and keywords has places without one, and save does not survive it.
RECURSIVE CanBeSaved(_)
CanBeSaved(c) ==
  /\ \A i \in DOMAIN c.keywords : "" \notin ToSet(c.keywords[i])
  /\ \A i \in DOMAIN c.codes : CanBeSaved(c.codes[i])

\* Code::line, 0 when the table runs out.
LineAt(c, ip) ==
  LET rows == {i \in 1 .. Len(c.lines) - 2 :
                 i % 2 = 1 /\ c.lines[i] <= ip /\ ip < c.lines[i + 2]}
  IN IF rows = {} THEN 0 ELSE c.lines[Min(rows) + 1]

\* Code and the codes in it, each at its path.
RECURSIVE Unfold(_, _)
Unfold(c, path) ==
  FoldLeft(LAMBDA codes, i : codes @@ Unfold(c.codes[i], Append(path, i)),
           path :> [c EXCEPT !.codes = Len(@)], [i \in DOMAIN c.codes |-> i])
\* What main may run for a program: its source, or the file it was saved to.
Runnable(c) ==
  {Unfold(c, <<>>)} \cup {Unfold(LoadCode(Fill(s)), <<>>) : s \in {x \in {c} : CanBeSaved(x)}}
=============================================================================
