---------------------------- MODULE MachineProps ----------------------------
(***************************************************************************)
(* What VM::run relies on in the code it is given, and what it keeps to    *)
(* for any code of that kind.  Nothing here knows how code is made.        *)
(***************************************************************************)
EXTENDS Machine

\* The places at which the instructions of a code begin, and its end.
Boundaries(c) ==
  LET from[at \in 0 .. Len(c.insns) + 5] ==
        IF at >= Len(c.insns) \/ ~IsOp(c.insns[at + 1]) THEN {at}
        ELSE {at} \cup from[at + Length[OpName(c.insns[at + 1])]]
  IN from[0]

\* An activation never stands, and never registers a handler, inside of an
\* instruction or behind the code: every label is set in the buffer and to the
\* place it was meant for.  (State::label, set_label, set_label_abs)
StandsOnInstruction ==
  \A i \in DOMAIN frames :
    LET fr == frames[i]
        places == Boundaries(code[fr.at])
    IN fr.ip \in places /\ \A h \in ToSet(fr.es) : h.ip \in places

\* The try bodies of a code: each begins behind its REGE and ends with the POPE
\* in front of the handler.
Tries(c) ==
  {[begin |-> p + 3, end |-> c.insns[p + 3] - 3, handler |-> [reg |-> c.insns[p + 2], ip |-> c.insns[p + 3]]] :
     p \in {q \in Boundaries(c) : q < Len(c.insns) /\ c.insns[q + 1] = Op.REGE}}
\* The handlers of those around an address, innermost last.
HandlersAround(tries, ip) ==
  SetToSortSeq({t.handler : t \in {u \in tries : u.begin <= ip /\ ip <= u.end}},
               LAMBDA g, h : g.ip > h.ip)
\* The handlers an activation has registered are those of the try bodies it is
\* in, whichever way it came there: through the end of a body, a jump of a
\* condition or a loop, or an exception.  (Try::drive, REGE, POPE, check_unwind)
HandlersMatchPlace ==
  \A i \in DOMAIN frames :
    frames[i].es = HandlersAround(Tries(code[frames[i].at]), frames[i].ip)

-----------------------------------------------------------------------------
(* code fit to run                                                         *)
Operand(c, at, i) == c.insns[at + 2 + i]
Behind(c, at) == at + Length[OpName(c.insns[at + 1])]
\* Where the activation goes on after the instruction, if no exception comes.
Successors(c, at) ==
  LET insn == c.insns[at + 1] IN
  CASE insn = Op.JMPF -> {at + 2 + Operand(c, at, 0)}
    [] insn = Op.JMPB -> {at - Operand(c, at, 0)}
    [] insn \in {Op.JMPIT, Op.JMPIF, Op.JMPHA} ->
         {Behind(c, at), Behind(c, at) + Operand(c, at, 1)}
    [] insn \in {Op.RET, Op.LRET, Op.RAISE} -> {}
    [] OTHER -> {Behind(c, at)}
\* The handlers registered behind it, given those in front of it.
HandlersBehind(c, at, es) ==
  CASE c.insns[at + 1] = Op.REGE ->
         Append(es, [reg |-> Operand(c, at, 0), ip |-> Operand(c, at, 1)])
    [] c.insns[at + 1] = Op.POPE -> Front(es)
    [] OTHER -> es
IsSend(insn) == insn \in {Op.SEND, Op.SENDI, Op.SEND_KW}

\* The instruction at a place of the code at path p fits what comes next.
Fits(codes, p, at, places, tries) ==
  LET c == codes[p]
      insn == c.insns[at + 1]
      es == HandlersAround(tries, at)
  IN /\ IsOp(insn) /\ Behind(c, at) <= Len(c.insns)
     /\ \A to \in Successors(c, at) :
          to \in places /\ HandlersAround(tries, to) = HandlersBehind(c, at, es)
     /\ insn = Op.POPE => es # <<>>
     /\ insn = Op.LOADC => Append(p, Operand(c, at, 1) + 1) \in DOMAIN codes
     /\ (IsSend(insn) \/ insn = Op.RAISE) /\ es # <<>> =>
          HandlersAround(tries, Last(es).ip) = Front(es)
Handler(c) == [reg : 0 .. 255, ip : Boundaries(c)]
IsWellFormed(codes, p) ==
  LET c == codes[p]
      places == Boundaries(c)
      tries == Tries(c)
  IN /\ c.insns \in Seq(0 .. 255) /\ c.args \in Seq(STRING) /\ c.cov \in Nat
     /\ places \subseteq 0 .. Len(c.insns)
     /\ 0 \in places /\ HandlersAround(tries, 0) = <<>>
     /\ \A at \in places :
          /\ HandlersAround(tries, at) \in Seq(Handler(c))
          /\ at < Len(c.insns) => Fits(codes, p, at, places, tries)
WellFormed(codes) ==
  <<>> \in DOMAIN codes /\ \A p \in DOMAIN codes : IsWellFormed(codes, p)
\* The code of a program is fit to run where it begins, and never changes: every
\* jump, handler and end of an instruction is a place where one begins, the try
\* bodies nest whichever way they are entered and left, and every LOADC names a
\* code there is.  (set_label, set_label_abs, Try::drive, State::code)
CompilesToWellFormed == Len(frames) = 1 /\ Top.ip = 0 => WellFormed(code)

-----------------------------------------------------------------------------
(* what an execution keeps to                                              *)
\* An activation, of one of the codes and with one of n closures.
Activations(codes, n) ==
  {f \in [at : DOMAIN codes, ip : Nat, fp : Int, argc : Nat, clos : 1 .. n,
          es : Seq([reg : 0 .. 255, ip : Nat])] :
     /\ f.ip \in Boundaries(codes[f.at])
     /\ f.es = HandlersAround(Tries(codes[f.at]), f.ip)}
\* It is in a call: only a send can wait.
Calls(codes, f) ==
  f.ip < Len(codes[f.at].insns) /\ IsSend(codes[f.at].insns[f.ip + 1])

\* A value that is a method is one of the m there are.
Known(m, v) == v.k = "meth" => v.n \in 1 .. m
IsSequence(s) == Len(s) \in Nat /\ s = [i \in 1 .. Len(s) |-> s[i]]
IsClosure(n, m, c) ==
  /\ c = [parent |-> c.parent, vals |-> c.vals, return_to |-> c.return_to]
  /\ c.parent \in 0 .. n
  /\ IsSequence(c.vals) /\ \A i \in 1 .. Len(c.vals) : Known(m, c.vals[i])
RegistersHold(rs, m) ==
  rs = [r \in 0 .. MaxReg |-> rs[r]] /\ \A r \in 0 .. MaxReg : Known(m, rs[r])
ClosuresHold(cs, m) ==
  IsSequence(cs) /\ \A c \in 1 .. Len(cs) : IsClosure(Len(cs), m, cs[c])
AttributesHold(as, m) == \A a \in DOMAIN as : Known(m, as[a])

\* An activation that has called one waits at its send, where the value of the
\* call goes into the register the send names.  (check_unwind)
CallersWait ==
  /\ \A i \in 1 .. Len(frames) - 1 : Calls(code, frames[i])
  /\ ret # Nothing /\ frames # <<>> => Calls(code, Top)
\* Whatever a register, a slot, an attribute or a return holds: if it is a method,
\* its code and closure are there to run.  (LOADC, Method, Closure)
MethodsAreThere ==
  /\ methods \in Seq([at : DOMAIN code, clos : 1 .. Len(closures)])
  /\ \A name \in DOMAIN defs : defs[name] \in 1 .. Len(methods)
  /\ RegistersHold(regs, Len(methods)) /\ ClosuresHold(closures, Len(methods))
  /\ AttributesHold(attrs, Len(methods)) /\ Known(Len(methods), ret.v)
ActivationsFit == frames \in Seq(Activations(code, Len(closures)))
\* The window of a call begins behind that of its caller, whose receiver is its self.
WindowsNest == \A i, j \in DOMAIN frames : i < j => frames[i].fp < frames[j].fp
\* Whatever runs, no step changes a register in front of the window of an
\* activation there is: a call, what it calls in turn, a native method, a keyword
\* sorted in or an exception handled leaves the caller all that it keeps at and
\* below the receiver of its send.  (exec, Arguments::setup, reorg_args)
RegistersStand ==
  [][\A i \in DOMAIN frames, r \in 0 .. MaxReg :
       r < frames[i].fp => regs'[r] = regs[r]]_vars

\* Any code that is fit to run, in any world.
Execution ==
  /\ Boot /\ WellFormed(code) /\ world.may \subseteq {"nil", "object", "raise"}
  /\ [][Next]_vars
\* What every step preserves.
MachineInv ==
  /\ WellFormed(code) /\ world.may \subseteq {"nil", "object", "raise"}
  /\ ActivationsFit /\ CallersWait /\ MethodsAreThere
=============================================================================
