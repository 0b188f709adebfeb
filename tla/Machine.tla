------------------------------ MODULE Machine ------------------------------
(***************************************************************************)
(* VM::run (vm/vm.cpp) executing compiled instructions, one action per     *)
(* kind of instruction.  The register windows of nested calls overlap on   *)
(* one stack as in the code: a callee's frame starts at the caller's       *)
(* arguments.  A send that no method of the program answers is an event:   *)
(* the method it reaches returns nil, returns a new object or raises, and  *)
(* may write any register beyond its arguments.                            *)
(***************************************************************************)
EXTENDS Bytecode, FiniteSetsExt

CONSTANT MaxReg   \* bound: the registers of the stack that are modelled

ASSUME MaxRegAssumption == MaxReg \in Nat

VARIABLES
  tree,         \* the program
  world,        \* what sends out of it may do (of "nil", "object", "raise"), and how often
  code,         \* what the compiler makes of it: the code at each path, <<>> the file's
  regs,         \* the register stack
  frames,       \* the activations of VM::run, the running one last
  closures,     \* Closure objects
  methods,      \* Method objects made by LOADC: their code (a path) and closure
  defs,         \* the methods the program has defined, by name
  attrs,        \* the attributes of objects
  ret,          \* what a call has returned and its caller not yet looked at
  events,       \* history: the sends to the world
  answers       \* history: what they returned

vars == <<tree, world, code, regs, frames, closures, methods, defs, attrs, ret, events, answers>>

\* Values; ObjV(n) is what event n returned, ExcV(n, s) the exception it raised.
Value(k, n, s, e) == [k |-> k, n |-> n, s |-> s, e |-> e]
NilV == Value("nil", 0, "", <<>>)
BoolV(b) == Value("bool", IF b THEN 1 ELSE 0, "", <<>>)
IntV(n) == Value("int", n, "", <<>>)
StrV(s) == Value("str", 0, s, <<>>)
ObjV(n) == Value("obj", n, "", <<>>)
GlobalV(n) == Value("global", n, "", <<>>)
MethV(n) == Value("meth", n, "", <<>>)
ExcV(n, s) == Value("exc", n, s, <<>>)
SeqV(k, e) == Value(k, 0, "", e)
MainV == Value("main", 0, "", <<>>)
JunkV == Value("junk", 0, "", <<>>)
TrueCondition(v) == v \notin {NilV, BoolV(FALSE)}

Nothing == [how |-> "none", v |-> NilV, target |-> 0]
Returns(v) == [Nothing EXCEPT !.how = "value", !.v = v]
Raises(v) == [Nothing EXCEPT !.how = "raise", !.v = v]
LongReturns(v, t) == [how |-> "long", v |-> v, target |-> t]
Aborts == [Nothing EXCEPT !.how = "abort"]

-----------------------------------------------------------------------------
Top == frames[Len(frames)]
Cur == code[Top.at]
Running == frames # <<>> /\ ret = Nothing
InCode == Running /\ Top.ip < Len(Cur.insns)
Insn == Cur.insns[Top.ip + 1]
At(op) == InCode /\ Insn = Op[op]
Arg(i) == Cur.insns[Top.ip + 2 + i]
Str(i) == Cur.strings[Arg(i) + 1]
Next_(op) == Top.ip + Length[op]

InStack(r) == r \in 0 .. MaxReg
Read(rs, r) == IF InStack(r) THEN rs[r] ELSE JunkV
Reg(r) == Read(regs, Top.fp + r)
With(rs, r, v) == IF InStack(r) THEN [rs EXCEPT ![r] = v] ELSE rs
Self_ == Reg(-1)

Updated(f, x, v) == [y \in DOMAIN f \cup {x} |-> IF y = x THEN v ELSE f[y]]
Go(ip) == frames' = [frames EXCEPT ![Len(frames)].ip = ip]
SetReg(r, v) == regs' = With(regs, Top.fp + r, v)
Frame(at, fp, argc, clos) ==
  [at |-> at, ip |-> 0, fp |-> fp, argc |-> argc, clos |-> clos, es |-> <<>>]
NewClosure(path, parent) ==
  LET c == code[path] IN
  [parent |-> parent, vals |-> [i \in 1 .. c.cov |-> NilV], return_to |-> c.return_to]

\* Closure::get_at_depth: the closure `depth` parents up, 0 when there is none.
AtDepth(c, depth) ==
  LET f[d \in 0 .. depth] ==
        IF d = 0 THEN c ELSE IF f[d - 1] = 0 THEN 0 ELSE closures[f[d - 1]].parent
  IN f[depth]

\* main: the code of the file runs with the module as self, after its globals.
Boot ==
  /\ regs = [r \in 0 .. MaxReg |-> IF r = 0 THEN MainV ELSE JunkV]
  /\ closures = <<[parent |-> 0, vals |-> [i \in DOMAIN Globals |-> GlobalV(i - 1)],
                   return_to |-> FALSE],
                  [parent |-> 1, vals |-> [i \in 1 .. code[<<>>].cov |-> NilV],
                   return_to |-> FALSE]>>
  /\ frames = <<Frame(<<>>, 1, 0, 2)>>
  /\ methods = <<>> /\ defs = <<>> /\ attrs = <<>>
  /\ ret = Nothing /\ events = <<>> /\ answers = <<>>

-----------------------------------------------------------------------------
(* instructions that stay in the activation                                *)
Load(op, v) ==
  /\ At(op) /\ SetReg(Arg(0), v) /\ Go(Next_(op))
  /\ UNCHANGED <<tree, world, code, closures, methods, defs, attrs, ret, events, answers>>

Signed4(a, b, c, d) == a + 256 * b + 65536 * c + 16777216 * (IF d > 127 THEN d - 256 ELSE d)
Movi8 == Load("MOVI8", IntV(Arg(1)))
Movi32 == Load("MOVI32", IntV(Signed4(Arg(1), Arg(2), Arg(3), Arg(4))))
Movr == Load("MOVR", Reg(Arg(1)))
Movn == Load("MOVN", NilV)
Movt == Load("MOVT", BoolV(TRUE))
Movf == Load("MOVF", BoolV(FALSE))
Loads == Load("LOADS", StrV(Str(1)))
LoadSelf == Load("SELF", Self_)
Negate == Load("NOT", BoolV(~TrueCondition(Reg(Arg(1)))))
Elements(from, n) == [i \in 1 .. n |-> Reg(from + i - 1)]
MakeTuple == Load("TUPLE", SeqV("tuple", Elements(Arg(1), Arg(2))))
MakeList == Load("LIST", SeqV("list", Elements(Arg(1), Arg(2))))
AttributeOf(obj, name) ==
  IF <<obj, name>> \in DOMAIN attrs THEN attrs[<<obj, name>>] ELSE NilV
Ivr == Load("IVR", IF Arg(1) < Len(Cur.strings) THEN AttributeOf(Self_, Str(1)) ELSE JunkV)
\* A depth beyond the globals reads nil; a slot that is not there stops the VM.
Lvar ==
  LET c == AtDepth(Top.clos, Arg(1)) IN
  Load("LVAR", IF c = 0 THEN NilV
               ELSE IF Arg(2) < Len(closures[c].vals) THEN closures[c].vals[Arg(2) + 1]
               ELSE JunkV)

Iva ==
  /\ At("IVA") /\ Go(Next_("IVA"))
  /\ attrs' = Updated(attrs, <<Self_, Str(0)>>, Reg(Arg(1)))
  /\ UNCHANGED <<tree, world, code, regs, closures, methods, defs, ret, events, answers>>

\* The register of SVAR is signed: -1 is self.
UnsignedByte(b) == b
SignedByte(b) == IF b > 127 THEN b - 256 ELSE b
Svar ==
  LET c == AtDepth(Top.clos, Arg(0)) IN
  /\ At("SVAR") /\ Go(Next_("SVAR"))
  /\ closures' = IF c = 0 THEN closures
                 ELSE [closures EXCEPT ![c].vals[Arg(1) + 1] = Reg(SignedByte(Arg(2)))]
  /\ UNCHANGED <<tree, world, code, regs, methods, defs, attrs, ret, events, answers>>

Loadc ==
  /\ At("LOADC") /\ Go(Next_("LOADC"))
  /\ methods' = Append(methods, [at |-> Append(Top.at, Arg(1) + 1), clos |-> Top.clos])
  /\ SetReg(Arg(0), MethV(Len(methods) + 1))
  /\ UNCHANGED <<tree, world, code, closures, defs, attrs, ret, events, answers>>

Jump ==
  /\ Running
  /\ \/ At("JMPF") /\ Go(Top.ip + 2 + Arg(0))
     \/ At("JMPB") /\ Go(Top.ip - Arg(0))
     \/ At("JMPIT") /\ Go(Top.ip + 3 + (IF TrueCondition(Reg(Arg(0))) THEN Arg(1) ELSE 0))
     \/ At("JMPIF") /\ Go(Top.ip + 3 + (IF TrueCondition(Reg(Arg(0))) THEN 0 ELSE Arg(1)))
     \/ At("JMPHA") /\ Go(Top.ip + 3 + (IF Top.argc < Arg(0) THEN Arg(1) ELSE 0))
  /\ UNCHANGED <<tree, world, code, regs, closures, methods, defs, attrs, ret, events, answers>>

Rege ==
  /\ At("REGE")
  /\ frames' = [frames EXCEPT ![Len(frames)] =
                  [Top EXCEPT !.es = Append(Top.es, [reg |-> Arg(0), ip |-> Arg(1)]),
                              !.ip = Next_("REGE")]]
  /\ UNCHANGED <<tree, world, code, regs, closures, methods, defs, attrs, ret, events, answers>>
Pope ==
  /\ At("POPE")
  /\ frames' = [frames EXCEPT ![Len(frames)] =
                  [Top EXCEPT !.es = Front(Top.es), !.ip = Next_("POPE")]]
  /\ UNCHANGED <<tree, world, code, regs, closures, methods, defs, attrs, ret, events, answers>>

-----------------------------------------------------------------------------
(* sends                                                                   *)
Sends == {"SEND", "SENDI", "SEND_KW"}
Sending == InCode /\ \E op \in Sends : Insn = Op[op]
\* The message of the send the activation has come to.
Message ==
  LET named == Insn # Op.SENDI
      base == Top.fp + Arg(2)
      argc == Arg(3)
  IN [name |-> IF named THEN Str(1) ELSE Reg(Arg(1)).s, recv |-> Reg(Arg(2)),
      base |-> base, argc |-> argc,
      args |-> Elements(Arg(2) + 1, argc),
      keywords |-> IF Insn = Op.SEND_KW THEN Cur.keywords[Arg(4) + 1] ELSE <<>>]

\* VM::reorg_args: each named parameter from its keyword, by way of a copy that
\* starts where the parameters end.
\* Faulty: the copy is made in place.
TempInPlace(params) == 0
Temp(params) == Len(params)
ReorgArgs(rs, fp, params, keywords) ==
  LET k == Len(params)
      found(i) == {j \in DOMAIN keywords : keywords[j] # "" /\ keywords[j] = params[i]}
      from(i) == IF found(i) = {} THEN fp + i - 1 ELSE fp + Min(found(i)) - 1
      copied[i \in 0 .. k] ==
        IF i = 0 THEN rs
        ELSE IF params[i] = "" THEN copied[i - 1]
        ELSE With(copied[i - 1], fp + Temp(params) + i - 1, Read(copied[i - 1], from(i)))
  IN [r \in DOMAIN rs |-> IF r \in fp .. fp + k - 1 THEN Read(copied[k], r + Temp(params))
                          ELSE copied[k][r]]

\* Run method m on a window of arguments.
Enter(m, fp, argc, rs) ==
  LET meth == methods[m] IN
  /\ closures' = Append(closures, NewClosure(meth.at, meth.clos))
  /\ frames' = Append(frames, Frame(meth.at, fp, argc, Len(closures) + 1))
  /\ regs' = rs
  /\ UNCHANGED <<tree, world, code, methods, defs, attrs, ret, events, answers>>

IsApply(msg) == msg.recv.k = "meth" /\ msg.name \in {"apply", "|"}
IsRunBody(msg) == msg.name = "run_body" /\ msg.argc = 1 /\ msg.args[1].k = "meth"
IsAdd(msg) == msg.name \in {"add_method", "add_scope_method"}
IsDefined(msg) == ~IsApply(msg) /\ msg.recv.k \in {"obj", "main"} /\ msg.name \in DOMAIN defs
ToWorld(msg) == ~IsApply(msg) /\ ~IsRunBody(msg) /\ ~IsAdd(msg) /\ ~IsDefined(msg)

\* method_apply: the arguments of the send are those of the code, self is the
\* method itself.
Apply ==
  /\ Sending /\ IsApply(Message)
  /\ Enter(Message.recv.n, Message.base + 1, Message.argc, regs)
\* run_body: Arguments::setup puts the new class after the arguments.
RunBodyOf ==
  LET self == Message.base + 1 + Message.argc IN
  /\ Sending /\ IsRunBody(Message)
  /\ Enter(Message.args[1].n, self + 1, 0, With(regs, self, Message.recv))
ArityFails(m, argc) == LET req == code[methods[m].at].req IN req > 0 /\ argc # req
\* The registers once run_kw_method has sorted the keywords in.
SortedIn(msg) ==
  IF msg.keywords = <<>> THEN regs
  ELSE ReorgArgs(regs, msg.base + 1, code[methods[defs[msg.name]].at].args, msg.keywords)
\* Method::run of a method the program defined looks at the number of arguments
\* after that.
CallDef ==
  LET msg == Message
      m == defs[msg.name]
  IN /\ Sending /\ IsDefined(msg)
     /\ ~ArityFails(m, msg.argc)
     /\ Enter(m, msg.base + 1, msg.argc, SortedIn(msg))
CallDefWrongArity ==
  LET msg == Message IN
  /\ Sending /\ IsDefined(msg)
  /\ ArityFails(defs[msg.name], msg.argc)
  /\ regs' = SortedIn(msg)
  /\ ret' = Raises(ExcV(0, "ArgumentError"))
  /\ UNCHANGED <<tree, world, code, frames, closures, methods, defs, attrs, events, answers>>
\* as_method stops the VM at anything else.
AddMethod ==
  LET k == Message.argc IN
  /\ Sending /\ IsAdd(Message)
  /\ k > 1 /\ Message.args[k].k = "meth"
  /\ defs' = Updated(defs, Message.args[k - 1].s, Message.args[k].n)
  /\ ret' = Returns(NilV)
  /\ UNCHANGED <<tree, world, code, regs, frames, closures, methods, attrs, events, answers>>

\* The world answers: a native method is free to use the stack after its arguments.
Event(msg) == [name |-> msg.name, recv |-> msg.recv, args |-> msg.args,
               keywords |-> msg.keywords]
World ==
  LET n == Len(events) + 1
      used == Message.base + Message.argc
  IN /\ Sending /\ ToWorld(Message)
     /\ Len(events) < world.asks
     /\ events' = Append(events, Event(Message))
     /\ regs' = [r \in DOMAIN regs |-> IF r > used THEN JunkV ELSE regs[r]]
     /\ \E o \in world.may :
          /\ answers' = Append(answers, o)
          /\ ret' = CASE o = "nil" -> Returns(NilV)
                      [] o = "object" -> Returns(ObjV(n))
                      [] o = "raise" -> Raises(ExcV(n, ""))
     /\ UNCHANGED <<tree, world, code, frames, closures, methods, defs, attrs>>

-----------------------------------------------------------------------------
(* leaving an activation, and what the caller does with what it gets       *)
Leave(r) ==
  /\ ret' = r /\ frames' = Front(frames)
  /\ UNCHANGED <<tree, world, code, regs, closures, methods, defs, attrs, events, answers>>

Return_ == At("RET") /\ Leave(Returns(Reg(Arg(0))))

\* A check that fails ends the process.
Stop ==
  /\ ret' = Aborts /\ frames' = <<>>
  /\ UNCHANGED <<tree, world, code, regs, closures, methods, defs, attrs, events, answers>>

\* Method::return_to, from the closure the lambda was made in; 0 when no method
\* is around it.
ReturnTo(c) ==
  LET up == {d \in 0 .. Len(closures) : AtDepth(c, d) # 0}
      marked == {d \in up : closures[AtDepth(c, d)].return_to}
  IN IF marked = {} THEN 0 ELSE AtDepth(c, Min(marked))
Target == ReturnTo(closures[Top.clos].parent)
LongReturn ==
  At("LRET") /\ Target # 0 /\ Leave(LongReturns(Reg(Arg(0)), Target))
ReturnStops == At("LRET") /\ Target = 0 /\ Stop

\* Exception::wrap: as_string stops the VM at anything but a string.
CanWrap(v) == v.k \in {"exc", "str"}
Wrap(v) == IF v.k = "exc" THEN v ELSE ExcV(0, v.s)
Handle_(v) ==
  LET h == Last(Top.es) IN
  /\ regs' = With(regs, Top.fp + h.reg, v)
  /\ frames' = [frames EXCEPT ![Len(frames)] = [Top EXCEPT !.es = Front(Top.es), !.ip = h.ip]]
  /\ ret' = Nothing
  /\ UNCHANGED <<tree, world, code, closures, methods, defs, attrs, events, answers>>
Raising == At("RAISE") /\ CanWrap(Reg(Arg(0)))
RaiseCaught == Raising /\ Top.es # <<>> /\ Handle_(Wrap(Reg(Arg(0))))
RaiseOut == Raising /\ Top.es = <<>> /\ Leave(Raises(Wrap(Reg(Arg(0)))))
RaiseStops == At("RAISE") /\ ~CanWrap(Reg(Arg(0))) /\ Stop

\* check_unwind, in the activation whose send has returned.
Returned(how) == frames # <<>> /\ ret.how = how
TakeValue ==
  /\ Returned("value")
  /\ SetReg(Arg(0), ret.v)
  /\ Go(Top.ip + Length[OpName(Insn)])
  /\ ret' = Nothing
  /\ UNCHANGED <<tree, world, code, closures, methods, defs, attrs, events, answers>>
TakeException == Returned("raise") /\ Top.es # <<>> /\ Handle_(ret.v)
PassException == Returned("raise") /\ Top.es = <<>> /\ Leave(ret)
TakeLongReturn ==
  Returned("long") /\ Leave(IF ret.target = Top.clos THEN Returns(ret.v) ELSE ret)

Next ==
  \/ Movi8 \/ Movi32 \/ Movr \/ Movn \/ Movt \/ Movf \/ Loads \/ LoadSelf \/ Negate
  \/ MakeTuple \/ MakeList \/ Ivr \/ Lvar \/ Iva \/ Svar \/ Loadc \/ Jump
  \/ Rege \/ Pope \/ Apply \/ RunBodyOf \/ CallDef \/ CallDefWrongArity \/ AddMethod
  \/ World \/ Return_ \/ LongReturn \/ ReturnStops \/ RaiseCaught \/ RaiseOut \/ RaiseStops
  \/ TakeValue \/ TakeException \/ PassException \/ TakeLongReturn

Finished == frames = <<>>
=============================================================================
