--------------------------- MODULE MachineProofs ---------------------------
(***************************************************************************)
(* Theorems about VM::run: for any code that is fit to run, whatever the   *)
(* world does, an activation stays on its instructions and has registered  *)
(* the handlers of the place it is at, and leaves its callers' registers.  *)
(*                                                                         *)
(* The argument: an instruction leads to places of the same code that have *)
(* the handlers it leaves behind (Fits).  An activation that calls another *)
(* stays at its send, where an exception finds the handlers of the send.   *)
(* What is called has code, since every method there is was made by LOADC. *)
(***************************************************************************)
EXTENDS MachineProps, SequenceTheorems, WellFoundedInduction, TLAPS

\* Every set of natural numbers that is not empty has a smallest one.
LEMMA SmallestOfNat ==
  ASSUME NEW T \in SUBSET Nat, T # {}
  PROVE  \E x \in T : \A y \in T : x <= y
<1>1. \E x \in T : \A y \in T : ~ (<<y, x>> \in OpToRel(<, Nat))
  BY NatLessThanWellFounded, WFMin
<1>2. ASSUME NEW x \in T, NEW y \in T, ~ (<<y, x>> \in OpToRel(<, Nat))
      PROVE  x <= y
  <2>1. OpToRel(<, Nat) = {p \in Nat \X Nat : p[1] < p[2]}
    BY Zenon DEF OpToRel
  <2>2. ~ (y < x)
    BY <1>2, <2>1
  <2> QED
    BY <2>2
<1> QED
  BY <1>1, <1>2

-----------------------------------------------------------------------------
(* instructions                                                            *)
\* No two instructions have the same byte.
LEMMA OpInjective == \A a, b \in DOMAIN Op : Op[a] = Op[b] => a = b
BY SMTT(60) DEF Op

LEMMA OpNameOfOp ==
  ASSUME NEW o \in DOMAIN Op
  PROVE  OpName(Op[o]) = o
BY OpInjective DEF OpName

Plain == DOMAIN Op \ {"JMPF", "JMPB", "JMPIT", "JMPIF", "JMPHA", "RET", "LRET", "RAISE",
                      "REGE", "POPE"}
Jumps == {"JMPF", "JMPB", "JMPIT", "JMPIF", "JMPHA"}

\* The operations the actions name.
LEMMA OpNames ==
  DOMAIN Op = {"MOVI8", "MOVI32", "MOVR", "MOVN", "MOVT", "MOVF", "SEND", "SEND_KW", "LATTR",
               "IVA", "IVR", "RET", "LOADS", "LOADC", "SELF", "JMPF", "JMPB", "JMPIT", "JMPIF",
               "REGE", "POPE", "LVAR", "SVAR", "SENDI", "SENDI_KW", "RAISE", "NOT", "TUPLE",
               "LIST", "LRET", "JMPHA"}
BY DEF Op

LEMMA LengthNat == \A o \in DOMAIN Op : Length[o] \in Nat /\ Length[o] >= 1
BY OpNames DEF Length

\* Behind an instruction that neither jumps nor ends nor registers a handler.
LEMMA PlainGoesOn ==
  ASSUME NEW c, NEW at, NEW o \in Plain, c.insns[at + 1] = Op[o]
  PROVE  /\ Successors(c, at) = {at + Length[o]}
         /\ \A es : HandlersBehind(c, at, es) = es
<1>1. \A q \in DOMAIN Op : Op[o] = Op[q] => o = q
  BY OpInjective DEF Plain
<1>2. /\ Op[o] # Op.JMPF /\ Op[o] # Op.JMPB /\ Op[o] # Op.JMPIT /\ Op[o] # Op.JMPIF
      /\ Op[o] # Op.JMPHA /\ Op[o] # Op.RET /\ Op[o] # Op.LRET /\ Op[o] # Op.RAISE
      /\ Op[o] # Op.REGE /\ Op[o] # Op.POPE
  BY <1>1, OpNames DEF Plain
<1>3. OpName(Op[o]) = o
  BY OpNameOfOp DEF Plain
<1> QED
  BY <1>2, <1>3 DEF Successors, HandlersBehind, Behind

LEMMA OthersGoOn ==
  ASSUME NEW c, NEW at
  PROVE  /\ c.insns[at + 1] = Op.JMPF =>
              at + 2 + Operand(c, at, 0) \in Successors(c, at)
         /\ c.insns[at + 1] = Op.JMPB => at - Operand(c, at, 0) \in Successors(c, at)
         /\ \A o \in {"JMPIT", "JMPIF", "JMPHA"} : c.insns[at + 1] = Op[o] =>
              /\ at + 3 \in Successors(c, at)
              /\ at + 3 + Operand(c, at, 1) \in Successors(c, at)
         /\ c.insns[at + 1] = Op.REGE => at + 3 \in Successors(c, at)
         /\ c.insns[at + 1] = Op.POPE => at + 1 \in Successors(c, at)
<1>1. \A p, q \in DOMAIN Op : Op[p] = Op[q] => p = q
  BY OpInjective
<1>2. \A o \in DOMAIN Op : OpName(Op[o]) = o
  BY OpNameOfOp
<1>3. /\ Length["JMPIT"] = 3 /\ Length["JMPIF"] = 3 /\ Length["JMPHA"] = 3
      /\ Length["REGE"] = 3 /\ Length["POPE"] = 1
  BY DEF Length
<1>4. /\ Op.JMPF # Op.JMPB
      /\ \A o \in {"JMPF", "JMPB"} :
           /\ Op[o] # Op.JMPIT /\ Op[o] # Op.JMPIF /\ Op[o] # Op.JMPHA
           /\ Op[o] # Op.RET /\ Op[o] # Op.LRET /\ Op[o] # Op.RAISE
      /\ \A o \in {"JMPIT", "JMPIF", "JMPHA", "REGE", "POPE"} :
           Op[o] # Op.JMPF /\ Op[o] # Op.JMPB /\ Op[o] # Op.RET /\ Op[o] # Op.LRET /\ Op[o] # Op.RAISE
      /\ \A o \in {"REGE", "POPE"} : Op[o] # Op.JMPIT /\ Op[o] # Op.JMPIF /\ Op[o] # Op.JMPHA
  BY <1>1, OpNames
<1>5. c.insns[at + 1] = Op.JMPF => at + 2 + Operand(c, at, 0) \in Successors(c, at)
  BY <1>4 DEF Successors
<1>6. c.insns[at + 1] = Op.JMPB => at - Operand(c, at, 0) \in Successors(c, at)
  BY <1>4 DEF Successors
<1>7. ASSUME NEW o \in {"JMPIT", "JMPIF", "JMPHA"}, c.insns[at + 1] = Op[o]
      PROVE  /\ at + 3 \in Successors(c, at)
             /\ at + 3 + Operand(c, at, 1) \in Successors(c, at)
  <2>1. Behind(c, at) = at + 3
    BY <1>2, <1>3, <1>7, OpNames DEF Behind
  <2> QED
    BY <2>1, <1>4, <1>7 DEF Successors
<1>8. ASSUME NEW o \in {"REGE", "POPE"}, c.insns[at + 1] = Op[o]
      PROVE  at + Length[o] \in Successors(c, at)
  <2>1. Behind(c, at) = at + Length[o]
    BY <1>2, <1>8, OpNames DEF Behind
  <2> QED
    BY <2>1, <1>4, <1>8 DEF Successors
<1> QED
  BY <1>3, <1>5, <1>6, <1>7, <1>8

\* A jump changes no handlers.
LEMMA JumpsKeepHandlers ==
  ASSUME NEW c, NEW at, NEW o \in Jumps, c.insns[at + 1] = Op[o]
  PROVE  \A es : HandlersBehind(c, at, es) = es
<1>1. Op[o] # Op.REGE /\ Op[o] # Op.POPE
  BY OpInjective, OpNames DEF Jumps
<1> QED
  BY <1>1 DEF HandlersBehind

-----------------------------------------------------------------------------
(* sequences                                                               *)
LEMMA SeqIs ==
  ASSUME NEW n \in Nat, NEW s, s = [i \in 1 .. n |-> s[i]]
  PROVE  Len(s) = n /\ IsSequence(s)
<1> DEFINE S == {s[i] : i \in 1 .. n}
<1>1. s \in Seq(S)
  <2>1. s \in [1 .. n -> S]
    OBVIOUS
  <2> HIDE DEF S
  <2> QED
    BY <2>1, SeqDef
<1> HIDE DEF S
<1>2. Len(s) \in Nat /\ DOMAIN s = 1 .. Len(s)
  BY <1>1, LenProperties
<1>3. DOMAIN s = 1 .. n
  OBVIOUS
<1>4. Len(s) = n
  BY <1>2, <1>3
<1> QED
  BY <1>4 DEF IsSequence

LEMMA AppendIs ==
  ASSUME NEW s, IsSequence(s), NEW x
  PROVE  /\ Len(Append(s, x)) = Len(s) + 1 /\ IsSequence(Append(s, x))
         /\ \A i \in 1 .. Len(s) : Append(s, x)[i] = s[i]
         /\ Append(s, x)[Len(s) + 1] = x
<1> DEFINE S == {s[i] : i \in 1 .. Len(s)} \cup {x}
           t == Append(s, x)
<1>1. s \in Seq(S)
  <2>1. s \in [1 .. Len(s) -> S] /\ Len(s) \in Nat
    BY DEF IsSequence
  <2> HIDE DEF S
  <2> QED
    BY <2>1, SeqDef
<1>2. x \in S
  OBVIOUS
<1> HIDE DEF S
<1>3. /\ t \in Seq(S) /\ Len(t) = Len(s) + 1 /\ t[Len(s) + 1] = x
      /\ \A i \in 1 .. Len(s) : t[i] = s[i]
  BY <1>1, <1>2, AppendProperties
<1>4. Len(t) \in Nat /\ t = [i \in 1 .. Len(t) |-> t[i]]
  BY <1>3, LenProperties, SeqDef
<1> QED
  BY <1>3, <1>4 DEF IsSequence

LEMMA PairIsAppended ==
  ASSUME NEW x, NEW y
  PROVE  Append(<<x>>, y) = <<x, y>>
<1> DEFINE t == Append(<<x>>, y)
<1>1. IsSequence(<<x>>) /\ Len(<<x>>) = 1
  <2>1. <<x>> = [i \in 1 .. 1 |-> <<x>>[i]]
    OBVIOUS
  <2> QED
    BY <2>1, SeqIs
<1>2. Len(t) = 2 /\ IsSequence(t) /\ t[1] = x /\ t[2] = y
  BY <1>1, AppendIs
<1> HIDE DEF t
<1>3. t = [i \in 1 .. 2 |-> t[i]]
  BY <1>2 DEF IsSequence
<1>4. t = <<x, y>>
  BY <1>2, <1>3
<1> QED
  BY <1>4 DEF t

LEMMA TopIn ==
  ASSUME NEW A, NEW s \in Seq(A), s # <<>>
  PROVE  Len(s) \in Nat /\ Len(s) >= 1 /\ s[Len(s)] \in A
<1>1. Len(s) \in Nat /\ Len(s) # 0
  BY LenProperties, EmptySeq
<1> QED
  BY <1>1, ElementOfSeq

LEMMA TopReplaced ==
  ASSUME NEW A, NEW s \in Seq(A), s # <<>>, NEW x \in A,
         NEW t, t = [s EXCEPT ![Len(s)] = x]
  PROVE  /\ t \in Seq(A) /\ Len(t) = Len(s) /\ t # <<>> /\ t[Len(t)] = x
         /\ \A i \in 1 .. Len(s) - 1 : t[i] = s[i]
<1>1. Len(s) \in Nat /\ Len(s) >= 1
  BY TopIn
<1>2. DOMAIN s = 1 .. Len(s) /\ s \in [1 .. Len(s) -> A]
  BY LenProperties
<1>3. t \in [1 .. Len(s) -> A]
  BY <1>2
<1>4. t \in Seq(A)
  <2> DEFINE n == Len(s)
  <2>1. n \in Nat /\ t \in [1 .. n -> A]
    BY <1>1, <1>3
  <2> HIDE DEF n
  <2>2. t \in UNION {[1 .. k -> A] : k \in Nat}
    BY <2>1
  <2> QED
    BY <2>2, SeqDef, Zenon
<1>5. Len(t) = Len(s)
  <2>1. t = [i \in 1 .. Len(s) |-> t[i]]
    BY <1>3
  <2> QED
    BY <1>1, <2>1, SeqIs
<1>6. t # <<>>
  BY <1>1, <1>5, <1>4, EmptySeq
<1>7. t[Len(s)] = x /\ \A i \in 1 .. Len(s) - 1 : t[i] = s[i]
  <2> DEFINE n == Len(s)
  <2>1. n \in 1 .. n /\ \A i \in 1 .. n - 1 : i \in 1 .. n /\ i # n
    BY <1>1
  <2>2. t = [i \in 1 .. n |-> IF i = n THEN x ELSE s[i]]
    BY <1>2, Zenon
  <2> HIDE DEF n
  <2>3. t[n] = x /\ \A i \in 1 .. n - 1 : t[i] = s[i]
    BY <2>1, <2>2
  <2> QED
    BY <2>3 DEF n
<1> QED
  BY <1>4, <1>5, <1>6, <1>7

LEMMA FrontOf ==
  ASSUME NEW A, NEW s \in Seq(A), s # <<>>
  PROVE  /\ Front(s) \in Seq(A) /\ Len(Front(s)) = Len(s) - 1
         /\ \A i \in 1 .. Len(s) - 1 : Front(s)[i] = s[i]
<1>1. Len(s) \in Nat /\ Len(s) >= 1
  BY TopIn
<1>2. 1 \in 1 .. Len(s) + 1 /\ Len(s) - 1 \in 1 - 1 .. Len(s)
  BY <1>1
<1> DEFINE n == Len(s) - 1
           t == SubSeq(s, 1, n)
<1>3. n \in Nat /\ n <= Len(s)
  BY <1>1
<1> HIDE DEF n
<1>4. t \in Seq(A) /\ Len(t) = n /\ \A i \in 1 .. n : t[i] = s[i]
  BY <1>1, <1>3, SubSeqProperties
<1>5. Front(s) = t
  BY DEF Front, n
<1> QED
  BY <1>4, <1>5 DEF n

LEMMA SeqGrows ==
  ASSUME NEW A, NEW B, A \subseteq B
  PROVE  Seq(A) \subseteq Seq(B)
BY SeqDef

LEMMA LastOf ==
  ASSUME NEW A, NEW s \in Seq(A), s # <<>>
  PROVE  Last(s) \in A
BY TopIn DEF Last

-----------------------------------------------------------------------------
(* activations                                                             *)
LEMMA ActivationsGrow ==
  ASSUME NEW codes, NEW n \in Nat, NEW m \in Nat, n <= m
  PROVE  Activations(codes, n) \subseteq Activations(codes, m)
<1>1. 1 .. n \subseteq 1 .. m
  OBVIOUS
<1> QED
  BY <1>1 DEF Activations

\* The running activation is at an instruction.
Here == MachineInv /\ frames # <<>> /\ Top.ip < Len(Cur.insns)
Placed ==
  /\ Top \in Activations(code, Len(closures)) /\ Top.at \in DOMAIN code
  /\ Top.ip \in Nat /\ Top.fp \in Int
  /\ Top.es = HandlersAround(Tries(Cur), Top.ip)
  /\ Top.es \in Seq(Handler(Cur))
  /\ Cur.insns \in Seq(0 .. 255) /\ Len(Cur.insns) \in Nat
  /\ Fits(code, Top.at, Top.ip, Boundaries(Cur), Tries(Cur))
  /\ Top.clos \in 1 .. Len(closures)
LEMMA HerePlaced == Here => Placed
<1> SUFFICES ASSUME Here PROVE Placed
  OBVIOUS
<1> DEFINE A == Activations(code, Len(closures))
<1>1. frames \in Seq(A) /\ frames # <<>> /\ WellFormed(code)
  BY DEF Here, MachineInv, ActivationsFit
<1>2. Top \in A
  <2> HIDE DEF A
  <2> QED
    BY <1>1, TopIn DEF Top
<1>3. /\ Top.at \in DOMAIN code /\ Top.ip \in Nat /\ Top.fp \in Int
      /\ Top.ip \in Boundaries(Cur) /\ Top.es = HandlersAround(Tries(Cur), Top.ip)
      /\ Top.clos \in 1 .. Len(closures)
  BY <1>2 DEF Activations, Cur
<1>4. IsWellFormed(code, Top.at)
  BY <1>1, <1>3 DEF WellFormed
<1>5. /\ Cur.insns \in Seq(0 .. 255)
      /\ Top.es \in Seq(Handler(Cur))
      /\ Fits(code, Top.at, Top.ip, Boundaries(Cur), Tries(Cur))
  BY <1>3, <1>4 DEF IsWellFormed, Cur, Here
<1>6. Len(Cur.insns) \in Nat
  BY <1>5, LenProperties
<1> QED
  BY <1>2, <1>3, <1>5, <1>6 DEF Placed

\* An operand of an instruction is a byte.
LEMMA OperandsAreBytes ==
  ASSUME Here, NEW o \in DOMAIN Op, Insn = Op[o],
         NEW i \in Nat, i + 2 <= Length[o]
  PROVE  Arg(i) \in 0 .. 255
<1>1. Placed
  BY HerePlaced
<1>2. Behind(Cur, Top.ip) = Top.ip + Length[o]
  BY OpNameOfOp DEF Behind, Insn
<1>3. Behind(Cur, Top.ip) <= Len(Cur.insns)
  BY <1>1 DEF Placed, Fits, Cur
<1>4. Length[o] \in Nat
  BY LengthNat
<1>5. Top.ip + 2 + i \in 1 .. Len(Cur.insns)
  <2> DEFINE ip == Top.ip
             n == Len(Cur.insns)
             k == Length[o]
  <2>1. ip \in Nat /\ n \in Nat /\ k \in Nat /\ ip + k <= n /\ i + 2 <= k
    BY <1>1, <1>2, <1>3, <1>4 DEF Placed
  <2> HIDE DEF ip, n, k
  <2>2. ip + 2 + i \in 1 .. n
    BY <2>1
  <2> QED
    BY <2>2 DEF ip, n
<1> QED
  BY <1>1, <1>5, ElementOfSeq DEF Placed, Arg

\* Where an instruction leads to, with the handlers it leaves, is a place for
\* the activation to be at.
LEMMA Landing ==
  ASSUME Here, NEW to \in Successors(Cur, Top.ip), NEW f,
         f = [Top EXCEPT !.ip = to, !.es = HandlersBehind(Cur, Top.ip, Top.es)]
  PROVE  f \in Activations(code, Len(closures))
<1>1. Placed
  BY HerePlaced
<1> DEFINE es == HandlersBehind(Cur, Top.ip, Top.es)
<1>2. to \in Boundaries(Cur) /\ HandlersAround(Tries(Cur), to) = es
  BY <1>1 DEF Placed, Fits, Cur
<1>3. WellFormed(code)
  BY DEF Here, MachineInv
<1>4. IsWellFormed(code, Top.at)
  BY <1>1, <1>3 DEF Placed, WellFormed
<1>5. Boundaries(Cur) \subseteq Nat /\ es \in Seq(Handler(Cur))
  <2>1. Boundaries(Cur) \subseteq 0 .. Len(Cur.insns)
    BY <1>4 DEF IsWellFormed, Cur
  <2>2. HandlersAround(Tries(Cur), to) \in Seq(Handler(Cur))
    BY <1>2, <1>4 DEF IsWellFormed, Cur
  <2> QED
    BY <1>1, <1>2, <2>1, <2>2 DEF Placed
<1>6. es \in Seq([reg : 0 .. 255, ip : Nat])
  <2>1. Handler(Cur) \subseteq [reg : 0 .. 255, ip : Nat]
    BY <1>5 DEF Handler
  <2> QED
    <3>1. Seq(Handler(Cur)) \subseteq Seq([reg : 0 .. 255, ip : Nat])
      <4> DEFINE A == Handler(Cur)
                 B == [reg : 0 .. 255, ip : Nat]
      <4>1. A \subseteq B
        BY <2>1
      <4> HIDE DEF A, B
      <4>2. Seq(A) \subseteq Seq(B)
        BY <4>1, SeqGrows
      <4> QED
        BY <4>2 DEF A, B
    <3> HIDE DEF es
    <3> QED
      BY <1>5, <3>1
<1> HIDE DEF es
<1>7. Top \in [at : DOMAIN code, ip : Nat, fp : Int, argc : Nat, clos : 1 .. Len(closures),
                es : Seq([reg : 0 .. 255, ip : Nat])]
  BY <1>1 DEF Placed, Activations
<1>8. /\ f \in [at : DOMAIN code, ip : Nat, fp : Int, argc : Nat, clos : 1 .. Len(closures),
                 es : Seq([reg : 0 .. 255, ip : Nat])]
      /\ f.at = Top.at /\ f.ip = to /\ f.es = es
  BY <1>2, <1>5, <1>6, <1>7 DEF es
<1> QED
  BY <1>2, <1>8 DEF Activations, Cur

-----------------------------------------------------------------------------
(* what a step makes of the activations                                    *)
FramesFit == ActivationsFit /\ CallersWait
ClosuresGrow ==
  /\ code' = code
  /\ Len(closures) \in Nat /\ Len(closures') \in Nat /\ Len(closures) <= Len(closures')

\* The running activation is somewhere else.
LEMMA TopMoves ==
  ASSUME MachineInv, frames # <<>>, ClosuresGrow, ret' = Nothing,
         NEW f \in Activations(code, Len(closures)),
         frames' = [frames EXCEPT ![Len(frames)] = f]
  PROVE  FramesFit'
<1> DEFINE A == Activations(code, Len(closures))
           B == Activations(code', Len(closures'))
<1>1. frames \in Seq(A) /\ \A i \in 1 .. Len(frames) - 1 : Calls(code, frames[i])
  BY DEF MachineInv, ActivationsFit, CallersWait
<1>2. Seq(A) \subseteq Seq(B)
  <2>1. A \subseteq B
    BY ActivationsGrow DEF ClosuresGrow
  <2> HIDE DEF A, B
  <2> QED
    BY <2>1, SeqGrows
<1>3. /\ frames' \in Seq(A) /\ Len(frames') = Len(frames)
      /\ \A i \in 1 .. Len(frames) - 1 : frames'[i] = frames[i]
  <2>1. f \in A
    OBVIOUS
  <2> HIDE DEF A
  <2> QED
    BY <1>1, <2>1, TopReplaced
<1>4. frames' \in Seq(B)
  <2> HIDE DEF A, B
  <2> QED
    BY <1>2, <1>3
<1>5. \A i \in 1 .. Len(frames') - 1 : Calls(code', frames'[i])
  BY <1>1, <1>3 DEF ClosuresGrow
<1> QED
  BY <1>4, <1>5 DEF FramesFit, ActivationsFit, CallersWait

LEMMA Advances ==
  ASSUME Here, ClosuresGrow, ret' = Nothing, NEW to \in Successors(Cur, Top.ip), Go(to),
         HandlersBehind(Cur, Top.ip, Top.es) = Top.es
  PROVE  FramesFit'
<1> DEFINE f == [Top EXCEPT !.ip = to, !.es = Top.es]
<1>1. f \in Activations(code, Len(closures))
  <2>1. f = [Top EXCEPT !.ip = to, !.es = HandlersBehind(Cur, Top.ip, Top.es)]
    OBVIOUS
  <2> HIDE DEF f
  <2> QED
    BY <2>1, Landing
<1>2. frames' = [frames EXCEPT ![Len(frames)] = f]
  <2>1. Top \in Activations(code, Len(closures))
    BY HerePlaced DEF Placed
  <2>2. f = [Top EXCEPT !.ip = to]
    BY <2>1 DEF Activations
  <2>3. frames' = [frames EXCEPT ![Len(frames)] = [Top EXCEPT !.ip = to]]
    BY DEF Go, Top
  <2> QED
    BY <2>2, <2>3
<1> HIDE DEF f
<1> QED
  BY <1>1, <1>2, TopMoves DEF Here

\* An exception goes on at the handler registered last.
LEMMA HandlerTakesOver ==
  ASSUME Here, IsSend(Insn) \/ Insn = Op.RAISE, Top.es # <<>>, NEW v, Handle_(v)
  PROVE  FramesFit'
<1> DEFINE h == Last(Top.es)
           f == [Top EXCEPT !.es = Front(Top.es), !.ip = h.ip]
<1>1. Placed
  BY HerePlaced
<1>2. IsWellFormed(code, Top.at)
  BY <1>1 DEF Here, MachineInv, WellFormed, Placed
<1>3. h \in Handler(Cur)
  BY <1>1, LastOf DEF Placed
<1>4. h.ip \in Boundaries(Cur) /\ h.ip \in Nat
  <2>1. Boundaries(Cur) \subseteq 0 .. Len(Cur.insns)
    BY <1>2 DEF IsWellFormed, Cur
  <2> QED
    BY <1>1, <1>3, <2>1 DEF Handler, Placed
<1>5. HandlersAround(Tries(Cur), h.ip) = Front(Top.es)
  BY <1>1 DEF Placed, Fits, Cur, Insn
<1> DEFINE es == Front(Top.es)
           H == [reg : 0 .. 255, ip : Nat]
           A == [at : DOMAIN code, ip : Nat, fp : Int, argc : Nat, clos : 1 .. Len(closures),
                 es : Seq(H)]
<1>6. Top \in A
  BY <1>1 DEF Placed, Activations
<1>7. es \in Seq(H)
  <2>1. Top.es \in Seq(H)
    BY <1>6
  <2> HIDE DEF H
  <2> QED
    BY <2>1, FrontOf
<1>8. f \in A /\ f.at = Top.at /\ f.ip = h.ip /\ f.es = es
  <2>1. h.ip \in Nat
    BY <1>4
  <2> HIDE DEF H, h, es
  <2>2. f = [Top EXCEPT !.es = es, !.ip = h.ip]
    BY DEF es
  <2> HIDE DEF f
  <2> QED
    BY <1>6, <1>7, <2>1, <2>2
<1>9. f \in Activations(code, Len(closures))
  <2> HIDE DEF f, h, es
  <2>1. HandlersAround(Tries(Cur), h.ip) = es
    BY <1>5 DEF es
  <2> QED
    BY <1>4, <1>8, <2>1 DEF Activations, Cur
<1>10. frames' = [frames EXCEPT ![Len(frames)] = f] /\ ret' = Nothing /\ ClosuresGrow
  <2>1. Len(closures) \in Nat
    BY DEF Here, MachineInv, MethodsAreThere, ClosuresHold, IsSequence
  <2> QED
    BY <2>1 DEF Handle_, Top, ClosuresGrow
<1> HIDE DEF f
<1> QED
  BY <1>9, <1>10, TopMoves DEF Here

\* A call made at a send: the caller stays there.
LEMMA CallEntered ==
  ASSUME Here, IsSend(Insn), ret' = Nothing, ClosuresGrow,
         NEW at \in DOMAIN code, NEW fp \in Int, NEW argc \in Nat,
         NEW n \in 1 .. Len(closures'),
         frames' = Append(frames, Frame(at, fp, argc, n))
  PROVE  FramesFit'
<1> DEFINE A == Activations(code', Len(closures'))
           f == Frame(at, fp, argc, n)
<1>1. f \in A
  <2>1. IsWellFormed(code, at)
    BY DEF Here, MachineInv, WellFormed
  <2>2. 0 \in Boundaries(code[at]) /\ HandlersAround(Tries(code[at]), 0) = <<>>
    BY <2>1 DEF IsWellFormed
  <2> QED
    BY <2>2 DEF Frame, Activations, ClosuresGrow
<1>2. frames \in Seq(A)
  <2>1. frames \in Seq(Activations(code, Len(closures)))
    BY DEF Here, MachineInv, ActivationsFit
  <2>2. Activations(code, Len(closures)) \subseteq A
    BY ActivationsGrow DEF ClosuresGrow
  <2> HIDE DEF A
  <2> QED
    BY <2>1, <2>2, SeqGrows
<1>3. \A i \in 1 .. Len(frames) : Calls(code, frames[i])
  <2>1. Len(frames) \in Nat
    BY <1>2, LenProperties
  <2>2. \A i \in 1 .. Len(frames) - 1 : Calls(code, frames[i])
    BY DEF Here, MachineInv, CallersWait
  <2>3. Calls(code, frames[Len(frames)])
    BY DEF Calls, Here, Top, Cur, Insn
  <2> QED
    BY <2>1, <2>2, <2>3
<1>4. /\ frames' \in Seq(A) /\ Len(frames') = Len(frames) + 1
      /\ \A i \in 1 .. Len(frames) : frames'[i] = frames[i]
  <2> HIDE DEF A, f
  <2>1. frames' = Append(frames, f)
    BY DEF f
  <2> QED
    BY <1>1, <1>2, <2>1, AppendProperties
<1>5. Len(frames) \in Nat
  BY <1>2, LenProperties
<1>6. \A i \in 1 .. Len(frames') - 1 : Calls(code', frames'[i])
  BY <1>3, <1>4, <1>5 DEF ClosuresGrow
<1> QED
  BY <1>4, <1>6 DEF FramesFit, ActivationsFit, CallersWait

\* An answer that is there at once: the caller waits for nothing.
LEMMA AnsweredAtOnce ==
  ASSUME Here, IsSend(Insn), ClosuresGrow, frames' = frames
  PROVE  FramesFit'
<1>1. frames \in Seq(Activations(code, Len(closures)))
  BY DEF Here, MachineInv, ActivationsFit
<1>2. Seq(Activations(code, Len(closures))) \subseteq Seq(Activations(code', Len(closures')))
  BY ActivationsGrow, SeqGrows DEF ClosuresGrow
<1>3. Calls(code', Top')
  BY DEF Calls, Here, Top, Cur, Insn, ClosuresGrow
<1>4. \A i \in 1 .. Len(frames') - 1 : Calls(code', frames'[i])
  BY DEF Here, MachineInv, CallersWait, ClosuresGrow
<1> QED
  BY <1>1, <1>2, <1>3, <1>4 DEF FramesFit, ActivationsFit, CallersWait

\* An activation that ends leaves its caller, which waits at a send.
LEMMA CallLeft ==
  ASSUME MachineInv, frames # <<>>, NEW r, Leave(r)
  PROVE  FramesFit'
<1> DEFINE A == Activations(code, Len(closures))
<1>1. frames \in Seq(A)
  BY DEF MachineInv, ActivationsFit
<1>2. Len(frames) \in Nat /\ Len(frames) >= 1
  <2> HIDE DEF A
  <2> QED
    BY <1>1, TopIn
<1>3. frames' = Front(frames) /\ code' = code /\ closures' = closures
  BY DEF Leave
<1>4. /\ frames' \in Seq(A) /\ Len(frames') = Len(frames) - 1
      /\ \A i \in 1 .. Len(frames) - 1 : frames'[i] = frames[i]
  <2> HIDE DEF A
  <2> QED
    BY <1>1, <1>3, FrontOf
<1>5. \A i \in 1 .. Len(frames) - 1 : Calls(code, frames[i])
  BY DEF MachineInv, CallersWait
<1>6. \A i \in 1 .. Len(frames') : Calls(code', frames'[i])
  BY <1>2, <1>3, <1>4, <1>5
<1>7. frames' # <<>> => Calls(code', Top')
  <2> SUFFICES ASSUME frames' # <<>> PROVE Calls(code', frames'[Len(frames')])
    BY DEF Top
  <2>1. Len(frames') \in 1 .. Len(frames')
    <3> HIDE DEF A
    <3> QED
      BY <1>4, TopIn
  <2> QED
    BY <1>6, <2>1
<1>8. \A i \in 1 .. Len(frames') - 1 : Calls(code', frames'[i])
  BY <1>2, <1>4, <1>6
<1> QED
  BY <1>3, <1>4, <1>7, <1>8 DEF FramesFit, ActivationsFit, CallersWait
-----------------------------------------------------------------------------
(* functions defined step by step                                          *)
\* There is the function that begins with a and takes n steps.
Stepwise(f, n, S, a, step) ==
  f \in [0 .. n -> S] /\ f[0] = a /\ \A i \in 1 .. n : f[i] = step[<<i, f[i - 1]>>]
LEMMA StepsExist ==
  ASSUME NEW n \in Nat, NEW S, NEW a \in S, NEW step \in [(1 .. n) \X S -> S]
  PROVE  \E f : Stepwise(f, n, S, a, step)
<1> DEFINE upto(m, f) ==
             f \in [0 .. m -> S] /\ f[0] = a /\ \A i \in 1 .. m : f[i] = step[<<i, f[i - 1]>>]
           bad == {m \in 0 .. n : ~ \E f : upto(m, f)}
<1>1. bad = {}
  <2> SUFFICES ASSUME bad # {} PROVE FALSE
    OBVIOUS
  <2>1. PICK m \in bad : \A q \in bad : m <= q
    <3>1. bad \in SUBSET Nat
      OBVIOUS
    <3> HIDE DEF bad
    <3> QED
      BY <3>1, SmallestOfNat
  <2>2. m \in 0 .. n /\ ~ \E f : upto(m, f)
    OBVIOUS
  <2>3. CASE m = 0
    <3> DEFINE g == [i \in 0 .. 0 |-> a]
    <3>1. upto(0, g)
      OBVIOUS
    <3> QED
      BY <2>2, <2>3, <3>1
  <2>4. CASE m # 0
    <3>1. m - 1 \in 0 .. n /\ m - 1 \notin bad
      BY <2>1, <2>2, <2>4
    <3>2. PICK f : upto(m - 1, f)
      BY <3>1
    <3> DEFINE g == [i \in 0 .. m |-> IF i = m THEN step[<<m, f[m - 1]>>] ELSE f[i]]
    <3>3. f[m - 1] \in S /\ step[<<m, f[m - 1]>>] \in S
      BY <2>2, <2>4, <3>2
    <3>4. g \in [0 .. m -> S] /\ g[0] = a
      BY <2>2, <2>4, <3>2, <3>3
    <3>5. ASSUME NEW i \in 1 .. m PROVE g[i] = step[<<i, g[i - 1]>>]
      <4>1. g[i - 1] = f[i - 1]
        BY <2>2
      <4>2. i = m \/ i \in 1 .. m - 1
        BY <2>2
      <4>3. CASE i = m
        BY SMTT(30), <4>1, <4>3
      <4>4. CASE i \in 1 .. m - 1
        <5>1. g[i] = f[i] /\ f[i] = step[<<i, f[i - 1]>>]
          BY <2>2, <3>2, <4>4
        <5> QED
          BY <4>1, <5>1
      <4> QED
        BY <4>2, <4>3, <4>4
    <3>6. upto(m, g)
      BY <3>4, <3>5
    <3> QED
      BY <2>2, <3>6
  <2> QED
    BY <2>3, <2>4
<1>2. n \in 0 .. n
  OBVIOUS
<1>3. \E f : upto(n, f)
  BY <1>1, <1>2
<1> QED
  BY <1>3 DEF Stepwise

\* What is in S at the beginning and stays there with every step is always there.
LEMMA StaysIn ==
  ASSUME NEW n \in Nat, NEW S, NEW f, f[0] \in S, \A i \in 1 .. n : f[i - 1] \in S => f[i] \in S
  PROVE  \A i \in 0 .. n : f[i] \in S
<1> DEFINE bad == {i \in 0 .. n : f[i] \notin S}
<1> SUFFICES ASSUME bad # {} PROVE FALSE
  OBVIOUS
<1>1. PICK m \in bad : \A q \in bad : m <= q
  <2>1. bad \in SUBSET Nat
    OBVIOUS
  <2> HIDE DEF bad
  <2> QED
    BY <2>1, SmallestOfNat
<1>2. m \in 1 .. n
  OBVIOUS
<1>3. m - 1 \in 0 .. n /\ m - 1 \notin bad
  BY <1>1, <1>2
<1> QED
  BY <1>2, <1>3

-----------------------------------------------------------------------------
(* values                                                                  *)
LEMMA KnownGrows ==
  ASSUME NEW m \in Nat, NEW n \in Nat, m <= n
  PROVE  \A v : Known(m, v) => Known(n, v)
BY DEF Known

LEMMA WithHolds ==
  ASSUME NEW m, NEW rs, RegistersHold(rs, m), NEW r, NEW v, Known(m, v)
  PROVE  RegistersHold(With(rs, r, v), m)
BY DEF RegistersHold, With, InStack

LEMMA ReadHolds ==
  ASSUME NEW m, NEW rs, RegistersHold(rs, m), NEW r
  PROVE  Known(m, Read(rs, r))
<1>1. Known(m, JunkV)
  BY DEF Known, JunkV, Value
<1> QED
  BY <1>1 DEF RegistersHold, Read, InStack

\* A closure reached through its parents is one of those there are.
LEMMA AtDepthIn ==
  ASSUME NEW m, ClosuresHold(closures, m), NEW c \in 0 .. Len(closures), NEW depth \in Nat
  PROVE  AtDepth(c, depth) \in 0 .. Len(closures)
<1> DEFINE S == 0 .. Len(closures)
           up(x) == IF x = 0 THEN 0 ELSE closures[x].parent
           step == [p \in (1 .. depth) \X S |-> up(p[2])]
           is(f) == f = [d \in 0 .. depth |-> IF d = 0 THEN c ELSE IF f[d - 1] = 0 THEN 0
                                               ELSE closures[f[d - 1]].parent]
           g == CHOOSE f : is(f)
<1>1. \A x \in S : up(x) \in S
  <2>1. \A x \in 1 .. Len(closures) : IsClosure(Len(closures), m, closures[x])
    BY DEF ClosuresHold
  <2>2. \A x \in 1 .. Len(closures) : closures[x].parent \in 0 .. Len(closures)
    BY <2>1, Zenon DEF IsClosure
  <2>3. Len(closures) \in Nat
    BY DEF ClosuresHold, IsSequence
  <2> QED
    BY <2>2, <2>3
<1>2. \E f : is(f)
  <2>1. step \in [(1 .. depth) \X S -> S]
    BY <1>1
  <2>2. \A i \in 1 .. depth, x \in S : step[<<i, x>>] = up(x)
    OBVIOUS
  <2>3. PICK f : Stepwise(f, depth, S, c, step)
    <3> HIDE DEF step, S
    <3>1. c \in S
      BY DEF S
    <3> QED
      BY <2>1, <3>1, StepsExist
  <2>4. \A i \in 1 .. depth : f[i - 1] \in S
    <3> HIDE DEF S
    <3> QED
      BY <2>3 DEF Stepwise
  <2>5. \A i \in 1 .. depth : f[i] = up(f[i - 1])
    <3> HIDE DEF step, S, up
    <3> QED
      BY <2>2, <2>3, <2>4 DEF Stepwise
  <2>6. f = [d \in 0 .. depth |-> f[d]]
    <3> HIDE DEF S
    <3> QED
      BY <2>3 DEF Stepwise
  <2>7. \A d \in 0 .. depth : f[d] = IF d = 0 THEN c ELSE up(f[d - 1])
    <3> HIDE DEF up, S
    <3> QED
      BY <2>3, <2>5 DEF Stepwise
  <2>8. is(f)
    <3> HIDE DEF S
    <3> QED
      BY <2>6, <2>7
  <2> QED
    BY <2>8
<1>3. is(g)
  <2> HIDE DEF is
  <2> QED
    BY <1>2 DEF g
<1>4. AtDepth(c, depth) = g[depth]
  BY DEF AtDepth
<1> HIDE DEF g
<1>5. g[0] \in S /\ \A i \in 1 .. depth : g[i - 1] \in S => g[i] \in S
  <2>1. \A d \in 0 .. depth : g[d] = IF d = 0 THEN c ELSE up(g[d - 1])
    BY <1>3
  <2>2. 0 \in 0 .. depth /\ \A i \in 1 .. depth : i \in 0 .. depth /\ i # 0
    OBVIOUS
  <2>3. c \in S
    OBVIOUS
  <2> HIDE DEF S, up, is
  <2> QED
    BY <1>1, <2>1, <2>2, <2>3
<1>6. g[depth] \in S
  <2>1. depth \in 0 .. depth
    OBVIOUS
  <2> HIDE DEF S, is
  <2> QED
    BY <1>5, <2>1, StaysIn
<1> QED
  BY <1>4, <1>6

LEMMA WithIn ==
  ASSUME NEW V, NEW rs \in [0 .. MaxReg -> V], NEW r, NEW v \in V
  PROVE  With(rs, r, v) \in [0 .. MaxReg -> V]
BY DEF With, InStack

LEMMA ReadIn ==
  ASSUME NEW V, NEW rs \in [0 .. MaxReg -> V], JunkV \in V, NEW r
  PROVE  Read(rs, r) \in V
BY DEF Read, InStack

\* Where the value of the i-th parameter is before arguments are sorted.
From(fp, params, keywords, i) ==
  LET found == {j \in DOMAIN keywords : keywords[j] # "" /\ keywords[j] = params[i]}
  IN IF found = {} THEN fp + i - 1 ELSE fp + Min(found) - 1
\* g has the registers after each parameter's copy, and the copies come back in t.
Copies(g, t, rs, fp, params, keywords) ==
  LET k == Len(params) IN
  /\ g[0] = rs
  /\ \A i \in 1 .. k :
       g[i] = IF params[i] = "" THEN g[i - 1]
              ELSE With(g[i - 1], fp + k + i - 1, Read(g[i - 1], From(fp, params, keywords, i)))
  /\ \A i \in 0 .. k : g[i] = [r \in DOMAIN rs |-> g[i][r]]
  /\ t = [r \in DOMAIN rs |-> IF r \in fp .. fp + k - 1 THEN Read(g[k], r + k) ELSE g[k][r]]

LEMMA ReorgArgsCopies ==
  ASSUME NEW V, NEW rs \in [0 .. MaxReg -> V], JunkV \in V, NEW fp \in Int,
         NEW params, Len(params) \in Nat, NEW keywords
  PROVE  \E g : /\ Copies(g, ReorgArgs(rs, fp, params, keywords), rs, fp, params, keywords)
               /\ g[Len(params)] \in [0 .. MaxReg -> V]
<1> DEFINE k == Len(params)
           S == [0 .. MaxReg -> V]
           found(i) == {j \in DOMAIN keywords : keywords[j] # "" /\ keywords[j] = params[i]}
           from(i) == IF found(i) = {} THEN fp + i - 1 ELSE fp + Min(found(i)) - 1
           put(i, x) == IF params[i] = "" THEN x
                        ELSE With(x, fp + Temp(params) + i - 1, Read(x, from(i)))
           step == [p \in (1 .. k) \X S |-> put(p[1], p[2])]
           is(f) == f = [i \in 0 .. k |->
                           IF i = 0 THEN rs
                           ELSE IF params[i] = "" THEN f[i - 1]
                           ELSE With(f[i - 1], fp + Temp(params) + i - 1, Read(f[i - 1], from(i)))]
           g == CHOOSE f : is(f)
           res == [r \in DOMAIN rs |-> IF r \in fp .. fp + k - 1 THEN Read(g[k], r + Temp(params))
                                       ELSE g[k][r]]
<1>1. ASSUME NEW i, NEW x \in S PROVE put(i, x) \in S
  <2>1. Read(x, from(i)) \in V
    <3> HIDE DEF from
    <3> QED
      BY ReadIn
  <2>2. With(x, fp + Temp(params) + i - 1, Read(x, from(i))) \in S
    <3> DEFINE y == Read(x, from(i))
               r == fp + Temp(params) + i - 1
    <3>1. y \in V
      BY <2>1
    <3> HIDE DEF y, r
    <3>2. With(x, r, y) \in S
      BY <3>1, WithIn
    <3> QED
      BY <3>2 DEF y, r
  <2> HIDE DEF from, S
  <2> QED
    BY <2>2
<1>2. \E f : is(f)
  <2> HIDE DEF put
  <2>1. step \in [(1 .. k) \X S -> S]
    <3> HIDE DEF S
    <3> QED
      BY <1>1
  <2>2. \A i \in 1 .. k, x \in S : step[<<i, x>>] = put(i, x)
    <3> HIDE DEF S
    <3> QED
      OBVIOUS
  <2>3. rs \in S
    OBVIOUS
  <2>4. k \in Nat
    OBVIOUS
  <2> HIDE DEF S, step, k
  <2>5. PICK f : Stepwise(f, k, S, rs, step)
    BY <2>1, <2>3, <2>4, StepsExist
  <2>6. f[0] = rs /\ \A i \in 1 .. k : f[i] = step[<<i, f[i - 1]>>] /\ f[i - 1] \in S
    BY <2>4, <2>5 DEF Stepwise
  <2>7. \A i \in 1 .. k : f[i] = put(i, f[i - 1])
    BY <2>2, <2>6
  <2>8. f = [i \in 0 .. k |-> IF i = 0 THEN rs ELSE put(i, f[i - 1])]
    <3>1. f = [i \in 0 .. k |-> f[i]]
      BY <2>5 DEF Stepwise
    <3>2. \A i \in 0 .. k : f[i] = IF i = 0 THEN rs ELSE put(i, f[i - 1])
      BY <2>4, <2>6, <2>7
    <3> QED
      BY <3>1, <3>2
  <2>9. is(f)
    BY <2>8, Zenon DEF put
  <2> QED
    BY <2>9
<1>3. is(g)
  <2> HIDE DEF is
  <2> QED
    BY <1>2 DEF g
<1>4. ReorgArgs(rs, fp, params, keywords) = res
  BY Zenon DEF ReorgArgs
<1>5. g = [i \in 0 .. k |-> IF i = 0 THEN rs ELSE put(i, g[i - 1])]
  BY <1>3, Zenon
<1>6. \A i \in 0 .. k : g[i] \in S
  <2> HIDE DEF put, is, g
  <2>1. \A i \in 1 .. k : g[i] = put(i, g[i - 1])
    BY <1>5
  <2>2. g[0] = rs /\ rs \in S
    BY <1>5
  <2>3. k \in Nat
    OBVIOUS
  <2> HIDE DEF S, k
  <2>4. g[0] \in S /\ \A i \in 1 .. k : g[i - 1] \in S => g[i] \in S
    BY <1>1, <2>1, <2>2
  <2> QED
    BY <2>3, <2>4, StaysIn
<1> HIDE DEF g
<1>7. \A i \in 1 .. k :
        g[i] = IF params[i] = "" THEN g[i - 1]
               ELSE With(g[i - 1], fp + k + i - 1, Read(g[i - 1], From(fp, params, keywords, i)))
  <2>1. \A i \in 1 .. k : g[i] = put(i, g[i - 1])
    <3> HIDE DEF put
    <3> QED
      BY <1>5
  <2>2. \A i : from(i) = From(fp, params, keywords, i)
    BY DEF From
  <2> HIDE DEF from
  <2> QED
    BY <2>1, <2>2 DEF Temp
<1>8. g[0] = rs
  <2> HIDE DEF put
  <2> QED
    BY <1>5
<1>9. \A i \in 0 .. k : g[i] = [r \in DOMAIN rs |-> g[i][r]]
  BY <1>6
<1>10. res = [r \in DOMAIN rs |-> IF r \in fp .. fp + k - 1 THEN Read(g[k], r + k) ELSE g[k][r]]
  BY DEF Temp
<1>11. g[k] \in S
  BY <1>6
<1> HIDE DEF res
<1> QED
  BY <1>4, <1>7, <1>8, <1>9, <1>10, <1>11 DEF Copies

\* Sorting keyword arguments makes no value: each register holds what one of
\* them did.
LEMMA ReorgArgsIn ==
  ASSUME NEW V, NEW rs \in [0 .. MaxReg -> V], JunkV \in V, NEW fp \in Int,
         NEW params, Len(params) \in Nat, NEW keywords
  PROVE  ReorgArgs(rs, fp, params, keywords) \in [0 .. MaxReg -> V]
<1> DEFINE k == Len(params)
           t == ReorgArgs(rs, fp, params, keywords)
<1>1. PICK g : Copies(g, t, rs, fp, params, keywords) /\ g[k] \in [0 .. MaxReg -> V]
  <2> HIDE DEF t
  <2> QED
    BY ReorgArgsCopies DEF t
<1> HIDE DEF t
<1>2. t = [r \in 0 .. MaxReg |-> IF r \in fp .. fp + k - 1 THEN Read(g[k], r + k) ELSE g[k][r]]
  BY <1>1 DEF Copies
<1>3. \A r : Read(g[k], r + k) \in V
  BY <1>1, ReadIn
<1> HIDE DEF k
<1>4. t \in [0 .. MaxReg -> V]
  BY <1>1, <1>2, <1>3
<1> QED
  BY <1>4 DEF t

\* What is copied for the first n parameters: nothing else is touched.
Copied(n, h, rs, fp, params, keywords) ==
  \A r \in 0 .. MaxReg :
    LET i == r - fp - Len(params) + 1 IN
    h[r] = IF i \in 1 .. n /\ params[i] # "" THEN rs[From(fp, params, keywords, i)] ELSE rs[r]

\* The value of a named parameter lies among the arguments.
LEMMA FromIsArgument ==
  ASSUME NEW fp \in Nat, NEW params, NEW k \in Nat, k = Len(params),
         NEW keywords \in Seq(STRING), Len(keywords) <= k, NEW i \in 1 .. k
  PROVE  From(fp, params, keywords, i) \in fp .. fp + k - 1
<1> DEFINE found == {j \in DOMAIN keywords : keywords[j] # "" /\ keywords[j] = params[i]}
<1>1. From(fp, params, keywords, i)
        = IF found = {} THEN fp + i - 1 ELSE fp + Min(found) - 1
  BY DEF From
<1>2. ASSUME found # {} PROVE Min(found) \in 1 .. k
  <2> DEFINE n == Len(keywords)
             m == Min(found)
  <2>1. found \subseteq 1 .. n /\ n \in Nat /\ n <= k
    BY LenProperties
  <2> HIDE DEF found, n
  <2>2. found \in SUBSET Nat
    BY <2>1
  <2>3. \E x \in found : \A y \in found : x <= y
    BY <1>2, <2>2, SmallestOfNat
  <2>4. m \in found
    BY <2>3 DEF Min
  <2> HIDE DEF m
  <2>5. m \in 1 .. k
    BY <2>1, <2>4
  <2> QED
    BY <2>5 DEF m
<1> HIDE DEF found
<1> QED
  BY <1>1, <1>2

LEMMA ReorgArgsHolds ==
  ASSUME NEW m, NEW rs, RegistersHold(rs, m), NEW fp \in Int,
         NEW params, Len(params) \in Nat, NEW keywords
  PROVE  RegistersHold(ReorgArgs(rs, fp, params, keywords), m)
<1> DEFINE V == {rs[r] : r \in 0 .. MaxReg} \cup {JunkV}
           t == ReorgArgs(rs, fp, params, keywords)
<1>1. \A v \in V : Known(m, v)
  <2>1. Known(m, JunkV)
    BY DEF Known, JunkV, Value
  <2> QED
    BY <2>1 DEF RegistersHold
<1>2. JunkV \in V
  OBVIOUS
<1>3. rs \in [0 .. MaxReg -> V]
  <2>1. rs = [r \in 0 .. MaxReg |-> rs[r]]
    BY DEF RegistersHold
  <2> QED
    BY <2>1
<1> HIDE DEF V
<1>4. t \in [0 .. MaxReg -> V]
  BY <1>2, <1>3, ReorgArgsIn
<1> HIDE DEF t
<1>5. t = [r \in 0 .. MaxReg |-> t[r]] /\ \A r \in 0 .. MaxReg : Known(m, t[r])
  BY <1>1, <1>4
<1> QED
  BY <1>5 DEF RegistersHold, t

\* A closure is one still when there are more of them.
LEMMA ClosureStays ==
  ASSUME NEW n \in Nat, NEW m \in Nat, NEW k \in Nat, NEW j \in Nat, n <= k, m <= j, NEW c,
         IsClosure(n, m, c)
  PROVE  IsClosure(k, j, c)
<1>1. 0 .. n \subseteq 0 .. k
  OBVIOUS
<1>2. \A v : Known(m, v) => Known(j, v)
  BY KnownGrows
<1> QED
  BY <1>1, <1>2, Zenon DEF IsClosure

LEMMA ClosureMade ==
  ASSUME NEW m \in Nat, NEW cs, ClosuresHold(cs, m), NEW n \in Nat, NEW parent \in 0 .. Len(cs),
         NEW rt, NEW c, c = [parent |-> parent, vals |-> [i \in 1 .. n |-> NilV], return_to |-> rt]
  PROVE  ClosuresHold(Append(cs, c), m) /\ Len(Append(cs, c)) = Len(cs) + 1
<1> DEFINE t == Append(cs, c)
<1>1. IsSequence(cs) /\ Len(cs) \in Nat /\ \A i \in 1 .. Len(cs) : IsClosure(Len(cs), m, cs[i])
  BY DEF ClosuresHold, IsSequence
<1>2. /\ Len(t) = Len(cs) + 1 /\ IsSequence(t) /\ t[Len(cs) + 1] = c
      /\ \A i \in 1 .. Len(cs) : t[i] = cs[i]
  BY <1>1, AppendIs
<1> DEFINE vals == [i \in 1 .. n |-> NilV]
<1>3. Len(vals) = n /\ IsSequence(vals) /\ \A i \in 1 .. Len(vals) : Known(m, vals[i])
  <2>1. vals = [i \in 1 .. n |-> vals[i]]
    OBVIOUS
  <2>2. \A i \in 1 .. n : vals[i] = NilV
    OBVIOUS
  <2>3. Known(m, NilV)
    BY DEF Known, NilV, Value
  <2> HIDE DEF vals
  <2>4. Len(vals) = n /\ IsSequence(vals)
    BY <2>1, SeqIs
  <2> QED
    BY <2>2, <2>3, <2>4
<1>4. IsClosure(Len(cs) + 1, m, c)
  <2>1. c.parent = parent /\ c.vals = vals
    OBVIOUS
  <2>2. c = [parent |-> c.parent, vals |-> c.vals, return_to |-> c.return_to]
    OBVIOUS
  <2>3. parent \in 0 .. Len(cs) + 1
    BY <1>1
  <2> HIDE DEF vals
  <2> QED
    BY <1>3, <2>1, <2>2, <2>3, Zenon DEF IsClosure
<1>5. ASSUME NEW i \in 1 .. Len(t) PROVE IsClosure(Len(t), m, t[i])
  <2>1. i \in 1 .. Len(cs) \/ i = Len(cs) + 1
    BY <1>1, <1>2
  <2>2. CASE i \in 1 .. Len(cs)
    <3>1. IsClosure(Len(cs), m, t[i])
      BY <1>1, <1>2, <2>2
    <3>2. Len(t) \in Nat /\ Len(cs) <= Len(t)
      BY <1>1, <1>2
    <3> HIDE DEF t
    <3> QED
      BY <1>1, <3>1, <3>2, ClosureStays
  <2>3. CASE i = Len(cs) + 1
    BY <1>2, <1>4, <2>3
  <2> QED
    BY <2>1, <2>2, <2>3
<1> HIDE DEF t
<1> QED
  BY <1>2, <1>5 DEF ClosuresHold, t

\* A value put into a slot.
SlotPut(cs, c, i, v) == [cs EXCEPT ![c].vals[i] = v]
LEMMA SlotSet ==
  ASSUME NEW m \in Nat, NEW cs, ClosuresHold(cs, m), NEW c \in 1 .. Len(cs), NEW i, NEW v,
         Known(m, v), NEW t, t = SlotPut(cs, c, i, v)
  PROVE  ClosuresHold(t, m) /\ Len(t) = Len(cs)
<1>1. /\ Len(cs) \in Nat /\ cs = [j \in 1 .. Len(cs) |-> cs[j]]
      /\ \A j \in 1 .. Len(cs) : IsClosure(Len(cs), m, cs[j])
  BY DEF ClosuresHold, IsSequence
<1> DEFINE old == cs[c]
           vals == [old.vals EXCEPT ![i] = v]
           new == [parent |-> old.parent, vals |-> vals, return_to |-> old.return_to]
<1>2. /\ old = [parent |-> old.parent, vals |-> old.vals, return_to |-> old.return_to]
      /\ old.parent \in 0 .. Len(cs)
      /\ IsSequence(old.vals) /\ \A j \in 1 .. Len(old.vals) : Known(m, old.vals[j])
  BY <1>1, Zenon DEF IsClosure
<1>3. t = [cs EXCEPT ![c] = new]
  <2>1. t = [cs EXCEPT ![c] = [cs[c] EXCEPT !.vals = [cs[c].vals EXCEPT ![i] = v]]]
    BY Zenon DEF SlotPut
  <2>2. [old EXCEPT !.vals = vals] = new
    <3> HIDE DEF old, vals
    <3> QED
      BY <1>2
  <2> QED
    BY <2>1, <2>2, Zenon
<1>4. Len(vals) = Len(old.vals) /\ IsSequence(vals)
  <2>1. Len(old.vals) \in Nat /\ old.vals = [j \in 1 .. Len(old.vals) |-> old.vals[j]]
    BY <1>2 DEF IsSequence
  <2>2. vals = [j \in 1 .. Len(old.vals) |-> vals[j]]
    BY <2>1
  <2> HIDE DEF vals
  <2> QED
    BY <2>1, <2>2, SeqIs
<1>5. \A j \in 1 .. Len(vals) : Known(m, vals[j])
  <2>1. \A j \in 1 .. Len(old.vals) : vals[j] = v \/ vals[j] = old.vals[j]
    BY <1>2 DEF IsSequence
  <2> HIDE DEF vals, old
  <2> QED
    BY <1>2, <1>4, <2>1
<1>6. IsClosure(Len(cs), m, new)
  <2>1. new.parent = old.parent /\ new.vals = vals
    OBVIOUS
  <2>2. new = [parent |-> new.parent, vals |-> new.vals, return_to |-> new.return_to]
    OBVIOUS
  <2> HIDE DEF vals, old, new
  <2> QED
    BY <1>2, <1>4, <1>5, <2>1, <2>2, Zenon DEF IsClosure
<1> HIDE DEF new
<1>7. t = [j \in 1 .. Len(cs) |-> IF j = c THEN new ELSE cs[j]]
  BY <1>1, <1>3
<1>8. Len(t) = Len(cs) /\ IsSequence(t)
  <2>1. t = [j \in 1 .. Len(cs) |-> t[j]]
    BY <1>7
  <2> QED
    BY <1>1, <2>1, SeqIs
<1>9. \A j \in 1 .. Len(cs) : IsClosure(Len(cs), m, t[j])
  BY <1>1, <1>6, <1>7
<1> QED
  BY <1>8, <1>9 DEF ClosuresHold

-----------------------------------------------------------------------------
(* steps                                                                   *)
Steady == code' = code /\ world' = world
MachineKept == Steady /\ FramesFit' /\ MethodsAreThere'
LEMMA KeptIsKept == MachineInv /\ MachineKept => MachineInv'
BY DEF MachineKept, Steady, MachineInv, FramesFit, WellFormed, IsWellFormed

\* A step that makes no method, whatever it does to the values.
LEMMA StillThere ==
  ASSUME MethodsAreThere, code' = code, methods' = methods,
         Len(closures') \in Nat, Len(closures) <= Len(closures'),
         ClosuresHold(closures', Len(methods)),
         \A name \in DOMAIN defs' : defs'[name] \in 1 .. Len(methods),
         RegistersHold(regs', Len(methods)), AttributesHold(attrs', Len(methods)),
         Known(Len(methods), ret'.v)
  PROVE  MethodsAreThere'
<1> DEFINE A == [at : DOMAIN code, clos : 1 .. Len(closures)]
           B == [at : DOMAIN code, clos : 1 .. Len(closures')]
<1>1. methods \in Seq(A) /\ Len(closures) \in Nat
  BY DEF MethodsAreThere, ClosuresHold, IsSequence
<1>2. A \subseteq B
  <2>1. 1 .. Len(closures) \subseteq 1 .. Len(closures')
    BY <1>1
  <2> QED
    BY <2>1
<1>3. methods' \in Seq(B)
  <2> HIDE DEF A, B
  <2> QED
    BY <1>1, <1>2, SeqGrows
<1> QED
  BY <1>3 DEF MethodsAreThere

LEMMA Counts ==
  ASSUME MachineInv
  PROVE  Len(methods) \in Nat /\ Len(closures) \in Nat
<1>1. methods \in Seq([at : DOMAIN code, clos : 1 .. Len(closures)])
  BY DEF MachineInv, MethodsAreThere
<1>2. Len(methods) \in Nat
  BY <1>1, LenProperties
<1> QED
  BY <1>2 DEF MachineInv, MethodsAreThere, ClosuresHold, IsSequence

LEMMA AtIsHere ==
  ASSUME MachineInv, NEW op \in DOMAIN Op, At(op)
  PROVE  Here /\ Insn = Op[op] /\ ret = Nothing
BY DEF At, InCode, Running, Here

LEMMA PlainIs ==
  ASSUME NEW op \in Plain, Insn = Op[op]
  PROVE  /\ Next_(op) \in Successors(Cur, Top.ip)
         /\ HandlersBehind(Cur, Top.ip, Top.es) = Top.es
         /\ op \in DOMAIN Op
<1>1. Cur.insns[Top.ip + 1] = Op[op]
  BY DEF Insn
<1>2. /\ Successors(Cur, Top.ip) = {Top.ip + Length[op]}
      /\ \A es : HandlersBehind(Cur, Top.ip, es) = es
  BY <1>1, PlainGoesOn
<1> QED
  BY <1>2 DEF Next_, Plain

\* An instruction that is done where it stands.
LEMMA PlainStep ==
  ASSUME MachineInv, NEW op \in Plain, At(op), Go(Next_(op)), ClosuresGrow, ret' = ret
  PROVE  FramesFit'
<1>1. op \in DOMAIN Op
  BY DEF Plain
<1>2. Here /\ Insn = Op[op] /\ ret = Nothing
  BY <1>1, AtIsHere
<1>3. /\ Next_(op) \in Successors(Cur, Top.ip)
      /\ HandlersBehind(Cur, Top.ip, Top.es) = Top.es
  BY <1>2, PlainIs
<1> QED
  BY <1>2, <1>3, Advances

LEMMA NothingIsKnown == \A m : Known(m, Nothing.v)
BY DEF Known, Nothing, NilV, Value

LEMMA LoadStep ==
  ASSUME MachineInv, NEW op \in Plain, NEW v, Known(Len(methods), v), Load(op, v)
  PROVE  MachineKept
<1>1. /\ At(op) /\ Go(Next_(op)) /\ regs' = With(regs, Top.fp + Arg(0), v)
      /\ UNCHANGED <<tree, world, code, closures, methods, defs, attrs, ret, events, answers>>
  BY DEF Load, SetReg
<1>2. Len(methods) \in Nat /\ Len(closures) \in Nat /\ MethodsAreThere
  BY Counts DEF MachineInv
<1>3. ClosuresGrow /\ ret' = ret
  BY <1>1, <1>2 DEF ClosuresGrow
<1>4. FramesFit'
  BY <1>1, <1>3, PlainStep
<1>5. RegistersHold(regs', Len(methods))
  BY <1>1, <1>2, WithHolds DEF MethodsAreThere
<1>6. MethodsAreThere'
  BY <1>1, <1>2, <1>5, StillThere DEF MethodsAreThere
<1> QED
  BY <1>1, <1>4, <1>6 DEF MachineKept, Steady

LEMMA PlainOps ==
  /\ "MOVI8" \in Plain /\ "MOVI32" \in Plain /\ "MOVR" \in Plain /\ "MOVN" \in Plain
  /\ "MOVT" \in Plain /\ "MOVF" \in Plain /\ "LOADS" \in Plain /\ "SELF" \in Plain
  /\ "NOT" \in Plain /\ "TUPLE" \in Plain /\ "LIST" \in Plain /\ "IVR" \in Plain
  /\ "LVAR" \in Plain /\ "IVA" \in Plain /\ "SVAR" \in Plain /\ "LOADC" \in Plain
  /\ "SEND" \in Plain /\ "SENDI" \in Plain /\ "SEND_KW" \in Plain
BY OpNames DEF Plain

\* A value of another kind than a method.
LEMMA NoMethodIsKnown ==
  /\ \A m, n : Known(m, IntV(n)) /\ Known(m, ObjV(n))
  /\ \A m, b : Known(m, BoolV(b))
  /\ \A m, s : Known(m, StrV(s))
  /\ \A m, e : Known(m, SeqV("tuple", e)) /\ Known(m, SeqV("list", e))
  /\ \A m, n, s : Known(m, ExcV(n, s))
  /\ \A m : Known(m, NilV) /\ Known(m, JunkV)
BY DEF Known, IntV, ObjV, BoolV, StrV, SeqV, ExcV, NilV, JunkV, Value

LEMMA RegIsKnown ==
  ASSUME MachineInv, NEW r
  PROVE  Known(Len(methods), Reg(r))
<1>1. RegistersHold(regs, Len(methods))
  BY DEF MachineInv, MethodsAreThere
<1> QED
  BY <1>1, ReadHolds DEF Reg

\* The instructions that put a value into a register.
LEMMA LoadSteps ==
  ASSUME MachineInv,
         \/ Movi8 \/ Movi32 \/ Movr \/ Movn \/ Movt \/ Movf \/ Loads \/ LoadSelf \/ Negate
         \/ MakeTuple \/ MakeList \/ Ivr \/ Lvar
  PROVE  MachineKept
<1>1. CASE Movi8
  BY <1>1, LoadStep, PlainOps, NoMethodIsKnown DEF Movi8
<1>2. CASE Movi32
  BY <1>2, LoadStep, PlainOps, NoMethodIsKnown DEF Movi32
<1>3. CASE Movr
  BY <1>3, LoadStep, PlainOps, RegIsKnown DEF Movr
<1>4. CASE Movn
  BY <1>4, LoadStep, PlainOps, NoMethodIsKnown DEF Movn
<1>5. CASE Movt
  BY <1>5, LoadStep, PlainOps, NoMethodIsKnown DEF Movt
<1>6. CASE Movf
  BY <1>6, LoadStep, PlainOps, NoMethodIsKnown DEF Movf
<1>7. CASE Loads
  BY <1>7, LoadStep, PlainOps, NoMethodIsKnown DEF Loads
<1>8. CASE LoadSelf
  BY <1>8, LoadStep, PlainOps, RegIsKnown DEF LoadSelf, Self_
<1>9. CASE Negate
  BY <1>9, LoadStep, PlainOps, NoMethodIsKnown DEF Negate
<1>10. CASE MakeTuple
  BY <1>10, LoadStep, PlainOps, NoMethodIsKnown DEF MakeTuple
<1>11. CASE MakeList
  BY <1>11, LoadStep, PlainOps, NoMethodIsKnown DEF MakeList
<1>12. CASE Ivr
  <2> DEFINE v == IF Arg(1) < Len(Cur.strings) THEN AttributeOf(Self_, Str(1)) ELSE JunkV
  <2>1. Known(Len(methods), AttributeOf(Self_, Str(1)))
    <3>1. AttributesHold(attrs, Len(methods))
      BY DEF MachineInv, MethodsAreThere
    <3> QED
      BY <3>1, NoMethodIsKnown DEF AttributeOf, AttributesHold
  <2>2. Known(Len(methods), v)
    BY <2>1, NoMethodIsKnown
  <2>3. Load("IVR", v)
    BY <1>12 DEF Ivr
  <2> HIDE DEF v
  <2> QED
    BY <2>2, <2>3, LoadStep, PlainOps
<1>13. CASE Lvar
  <2> DEFINE c == AtDepth(Top.clos, Arg(1))
             v == IF c = 0 THEN NilV
                  ELSE IF Arg(2) < Len(closures[c].vals) THEN closures[c].vals[Arg(2) + 1]
                  ELSE JunkV
  <2>1. Load("LVAR", v)
    BY <1>13 DEF Lvar
  <2>2. Here /\ Insn = Op.LVAR
    BY <2>1, AtIsHere, OpNames DEF Load
  <2>3. Arg(1) \in Nat /\ Arg(2) \in Nat
    <3>1. Arg(1) \in 0 .. 255 /\ Arg(2) \in 0 .. 255
      BY SMTT(30), <2>2, OperandsAreBytes, OpNames DEF Length
    <3>2. 0 .. 255 \subseteq Nat
      OBVIOUS
    <3> QED
      BY <3>1, <3>2, Zenon
  <2>4. ClosuresHold(closures, Len(methods)) /\ Len(closures) \in Nat
    BY Counts DEF MachineInv, MethodsAreThere
  <2>5. Top.clos \in 0 .. Len(closures)
    BY <2>2, <2>4, HerePlaced DEF Placed
  <2>6. c \in 0 .. Len(closures)
    BY <2>3, <2>4, <2>5, AtDepthIn
  <2> HIDE DEF c
  <2>7. Known(Len(methods), v)
    <3>1. CASE c = 0 \/ ~ (Arg(2) < Len(closures[c].vals))
      BY <3>1, NoMethodIsKnown
    <3>2. CASE c # 0 /\ Arg(2) < Len(closures[c].vals)
      <4>1. IsClosure(Len(closures), Len(methods), closures[c])
        BY <2>4, <2>6, <3>2 DEF ClosuresHold
      <4>2. Len(closures[c].vals) \in Nat
        BY <4>1 DEF IsClosure, IsSequence
      <4>3. Arg(2) + 1 \in 1 .. Len(closures[c].vals)
        <5>1. \A a, n \in Nat : a < n => a + 1 \in 1 .. n
          OBVIOUS
        <5> QED
          BY <2>3, <3>2, <4>2, <5>1, Zenon
      <4> QED
        BY <3>2, <4>1, <4>3, Zenon DEF IsClosure
    <3> QED
      BY <3>1, <3>2
  <2> HIDE DEF v
  <2> QED
    BY <2>1, <2>7, LoadStep, PlainOps
<1> QED
  BY <1>1, <1>2, <1>3, <1>4, <1>5, <1>6, <1>7, <1>8, <1>9, <1>10, <1>11, <1>12, <1>13

LEMMA IvaStep ==
  ASSUME MachineInv, Iva
  PROVE  MachineKept
<1>1. /\ At("IVA") /\ Go(Next_("IVA"))
      /\ attrs' = Updated(attrs, <<Self_, Str(0)>>, Reg(Arg(1)))
      /\ UNCHANGED <<tree, world, code, regs, closures, methods, defs, ret, events, answers>>
  BY DEF Iva
<1>2. Len(methods) \in Nat /\ Len(closures) \in Nat /\ MethodsAreThere
  BY Counts DEF MachineInv
<1>3. FramesFit'
  BY <1>1, <1>2, PlainStep, PlainOps DEF ClosuresGrow
<1>4. AttributesHold(attrs', Len(methods))
  BY <1>1, <1>2, RegIsKnown DEF AttributesHold, Updated, MethodsAreThere
<1>5. MethodsAreThere'
  BY <1>1, <1>2, <1>4, StillThere DEF MethodsAreThere
<1> QED
  BY <1>1, <1>3, <1>5 DEF MachineKept, Steady

LEMMA SvarStep ==
  ASSUME MachineInv, Svar
  PROVE  MachineKept
<1> DEFINE c == AtDepth(Top.clos, Arg(0))
           v == Reg(SignedByte(Arg(2)))
<1>1. /\ At("SVAR") /\ Go(Next_("SVAR"))
      /\ closures' = IF c = 0 THEN closures ELSE [closures EXCEPT ![c].vals[Arg(1) + 1] = v]
      /\ UNCHANGED <<tree, world, code, regs, methods, defs, attrs, ret, events, answers>>
  BY DEF Svar
<1>2. Len(methods) \in Nat /\ Len(closures) \in Nat /\ MethodsAreThere
  BY Counts DEF MachineInv
<1>3. Here /\ Insn = Op.SVAR
  BY <1>1, AtIsHere, OpNames
<1>4. Arg(0) \in Nat
  <2>1. Arg(0) \in 0 .. 255
    BY SMTT(30), <1>3, OperandsAreBytes, OpNames DEF Length
  <2>2. 0 .. 255 \subseteq Nat
    OBVIOUS
  <2> QED
    BY <2>1, <2>2, Zenon
<1>5. ClosuresHold(closures, Len(methods))
  BY <1>2 DEF MethodsAreThere
<1>6. c \in 0 .. Len(closures)
  <2>1. Top.clos \in 0 .. Len(closures)
    BY <1>2, <1>3, HerePlaced DEF Placed
  <2> QED
    BY <1>4, <1>5, <2>1, AtDepthIn
<1>7. Known(Len(methods), v)
  BY RegIsKnown
<1> HIDE DEF c, v
<1>8. ClosuresHold(closures', Len(methods)) /\ Len(closures') = Len(closures)
  <2>1. CASE c = 0
    BY <1>1, <1>5, <2>1
  <2>2. CASE c # 0
    <3>1. c \in 1 .. Len(closures)
      BY <1>2, <1>6, <2>2
    <3> DEFINE i == Arg(1) + 1
    <3>2. closures' = [closures EXCEPT ![c].vals[i] = v]
      BY <1>1, <2>2
    <3> DEFINE t == closures'
    <3>3. t = SlotPut(closures, c, i, v)
      BY <3>2 DEF SlotPut
    <3> HIDE DEF i, t
    <3>4. ClosuresHold(t, Len(methods)) /\ Len(t) = Len(closures)
      BY <1>2, <1>5, <1>7, <3>1, <3>3, SlotSet
    <3> QED
      BY <3>4 DEF t
  <2> QED
    BY <2>1, <2>2
<1>9. FramesFit'
  BY <1>1, <1>2, <1>8, PlainStep, PlainOps DEF ClosuresGrow
<1>10. MethodsAreThere'
  BY <1>1, <1>2, <1>8, StillThere DEF MethodsAreThere
<1> QED
  BY <1>1, <1>9, <1>10 DEF MachineKept, Steady

\* A method is made of a code there is and of the closure of the activation.
LEMMA LoadcStep ==
  ASSUME MachineInv, Loadc
  PROVE  MachineKept
<1> DEFINE m == [at |-> Append(Top.at, Arg(1) + 1), clos |-> Top.clos]
           n == Len(methods)
           A == [at : DOMAIN code, clos : 1 .. Len(closures)]
<1>1. /\ At("LOADC") /\ Go(Next_("LOADC"))
      /\ methods' = Append(methods, m)
      /\ regs' = With(regs, Top.fp + Arg(0), MethV(n + 1))
      /\ UNCHANGED <<tree, world, code, closures, defs, attrs, ret, events, answers>>
  BY DEF Loadc, SetReg
<1>2. Len(methods) \in Nat /\ Len(closures) \in Nat /\ MethodsAreThere
  BY Counts DEF MachineInv
<1>3. Here /\ Insn = Op.LOADC /\ Placed
  BY <1>1, AtIsHere, OpNames, HerePlaced
<1>4. m \in A
  <2>1. Append(Top.at, Operand(Cur, Top.ip, 1) + 1) \in DOMAIN code
    <3>1. Fits(code, Top.at, Top.ip, Boundaries(Cur), Tries(Cur))
      BY <1>3 DEF Placed
    <3>2. code[Top.at].insns[Top.ip + 1] = Op.LOADC
      BY <1>3 DEF Insn, Cur
    <3> QED
      BY <3>1, <3>2, Zenon DEF Fits, Cur
  <2>2. Operand(Cur, Top.ip, 1) = Arg(1)
    BY DEF Operand, Arg
  <2>3. Top.clos \in 1 .. Len(closures)
    BY <1>3 DEF Placed
  <2>4. Append(Top.at, Arg(1) + 1) \in DOMAIN code
    BY <2>1, <2>2, Zenon
  <2> QED
    BY <2>3, <2>4
<1>5. methods \in Seq(A)
  BY <1>2 DEF MethodsAreThere
<1>6. methods' \in Seq(A) /\ Len(methods') = n + 1
  <2> HIDE DEF A, m
  <2> QED
    BY <1>1, <1>4, <1>5, AppendProperties
<1>7. \A v : Known(n, v) => Known(n + 1, v)
  BY <1>2, KnownGrows
<1>8. RegistersHold(regs', n + 1)
  <2>1. RegistersHold(regs, n + 1)
    BY <1>2, <1>7 DEF MethodsAreThere, RegistersHold
  <2>2. Known(n + 1, MethV(n + 1))
    BY <1>2 DEF Known, MethV, Value
  <2> QED
    BY <1>1, <2>1, <2>2, WithHolds
<1>9. ClosuresHold(closures, n + 1)
  <2>1. ClosuresHold(closures, n)
    BY <1>2 DEF MethodsAreThere
  <2>2. \A c \in 1 .. Len(closures) : IsClosure(Len(closures), n + 1, closures[c])
    <3>1. n + 1 \in Nat /\ n <= n + 1
      BY <1>2
    <3> HIDE DEF n
    <3>2. n \in Nat
      BY <1>2 DEF n
    <3> QED
      BY <1>2, <2>1, <3>1, <3>2, ClosureStays DEF ClosuresHold
  <2> QED
    BY <2>1, <2>2 DEF ClosuresHold
<1>10. AttributesHold(attrs, n + 1) /\ Known(n + 1, ret.v)
  BY <1>2, <1>7 DEF MethodsAreThere, AttributesHold
<1>11. \A name \in DOMAIN defs : defs[name] \in 1 .. n + 1
  BY <1>2 DEF MethodsAreThere
<1>12. MethodsAreThere'
  <2> HIDE DEF m
  <2> QED
    BY <1>1, <1>6, <1>8, <1>9, <1>10, <1>11 DEF MethodsAreThere
<1>13. FramesFit'
  BY <1>1, <1>2, PlainStep, PlainOps DEF ClosuresGrow
<1> QED
  BY <1>1, <1>12, <1>13 DEF MachineKept, Steady

\* A step that touches no value.
LEMMA NoValueTouched ==
  ASSUME MachineInv, UNCHANGED <<world, code, regs, closures, methods, defs, attrs, ret>>
  PROVE  MethodsAreThere' /\ Steady /\ ClosuresGrow
<1>1. Len(methods) \in Nat /\ Len(closures) \in Nat /\ MethodsAreThere
  BY Counts DEF MachineInv
<1> QED
  BY <1>1 DEF MethodsAreThere, Steady, ClosuresGrow

LEMMA JumpStep ==
  ASSUME MachineInv, Jump
  PROVE  MachineKept
<1> USE DEF Jump
<1>1. MethodsAreThere' /\ Steady /\ ClosuresGrow /\ ret' = ret
  BY NoValueTouched
<1>2. ASSUME NEW op \in Jumps, At(op), NEW to \in Successors(Cur, Top.ip), Go(to)
      PROVE  FramesFit'
  <2>1. Here /\ Insn = Op[op] /\ ret = Nothing
    BY <1>2, AtIsHere, OpNames DEF Jumps
  <2>2. Cur.insns[Top.ip + 1] = Op[op]
    BY <2>1 DEF Insn
  <2>3. HandlersBehind(Cur, Top.ip, Top.es) = Top.es
    BY <2>2, JumpsKeepHandlers
  <2> QED
    BY <1>1, <1>2, <2>1, <2>3, Advances
<1>3. /\ \A op \in Jumps : At(op) => Cur.insns[Top.ip + 1] = Op[op]
      /\ \A i \in {0, 1} : Arg(i) = Operand(Cur, Top.ip, i)
  BY DEF At, Insn, Arg, Operand
<1>4. CASE At("JMPF") /\ Go(Top.ip + 2 + Arg(0))
  <2>1. Top.ip + 2 + Arg(0) \in Successors(Cur, Top.ip)
    BY <1>3, <1>4, OthersGoOn DEF Jumps
  <2> QED
    BY <1>1, <1>2, <1>4, <2>1 DEF MachineKept, Jumps
<1>5. CASE At("JMPB") /\ Go(Top.ip - Arg(0))
  <2>1. Top.ip - Arg(0) \in Successors(Cur, Top.ip)
    BY <1>3, <1>5, OthersGoOn DEF Jumps
  <2> QED
    BY <1>1, <1>2, <1>5, <2>1 DEF MachineKept, Jumps
<1>6. ASSUME NEW op \in {"JMPIT", "JMPIF", "JMPHA"}, At(op), NEW d \in {0, Arg(1)},
             Go(Top.ip + 3 + d)
      PROVE  MachineKept
  <2>1. Top.ip + 3 + d \in Successors(Cur, Top.ip)
    <3>1. /\ Top.ip + 3 \in Successors(Cur, Top.ip)
          /\ Top.ip + 3 + Arg(1) \in Successors(Cur, Top.ip)
      BY <1>3, <1>6, OthersGoOn DEF Jumps
    <3>2. Top.ip \in Nat
      BY <1>6, AtIsHere, OpNames, HerePlaced DEF Placed
    <3>3. Top.ip + 3 + 0 = Top.ip + 3
      BY <3>2
    <3> QED
      BY <1>6, <3>1, <3>3
  <2> QED
    BY <1>1, <1>2, <1>6, <2>1 DEF MachineKept, Jumps
<1>7. CASE At("JMPIT") /\ Go(Top.ip + 3 + (IF TrueCondition(Reg(Arg(0))) THEN Arg(1) ELSE 0))
  BY <1>6, <1>7
<1>8. CASE At("JMPIF") /\ Go(Top.ip + 3 + (IF TrueCondition(Reg(Arg(0))) THEN 0 ELSE Arg(1)))
  BY <1>6, <1>8
<1>9. CASE At("JMPHA") /\ Go(Top.ip + 3 + (IF Top.argc < Arg(0) THEN Arg(1) ELSE 0))
  BY <1>6, <1>9
<1> QED
  BY <1>4, <1>5, <1>7, <1>8, <1>9

LEMMA RegeStep ==
  ASSUME MachineInv, Rege
  PROVE  MachineKept
<1> DEFINE es == Append(Top.es, [reg |-> Arg(0), ip |-> Arg(1)])
           f == [Top EXCEPT !.es = es, !.ip = Next_("REGE")]
<1>1. At("REGE") /\ frames' = [frames EXCEPT ![Len(frames)] = f]
  BY DEF Rege
<1>2. MethodsAreThere' /\ Steady /\ ClosuresGrow /\ ret' = ret
  BY NoValueTouched DEF Rege
<1>3. Here /\ Insn = Op.REGE /\ ret = Nothing
  BY <1>1, AtIsHere, OpNames
<1>4. Cur.insns[Top.ip + 1] = Op.REGE
  BY <1>3 DEF Insn
<1>5. HandlersBehind(Cur, Top.ip, Top.es) = es
  <2>1. Arg(0) = Operand(Cur, Top.ip, 0) /\ Arg(1) = Operand(Cur, Top.ip, 1)
    BY DEF Arg, Operand
  <2>2. Op.POPE # Op.REGE
    BY OpInjective, OpNames
  <2> QED
    BY <1>4, <2>1, <2>2 DEF HandlersBehind
<1>6. Next_("REGE") \in Successors(Cur, Top.ip)
  <2>1. Length["REGE"] = 3
    BY DEF Length
  <2> QED
    BY <1>4, <2>1, OthersGoOn DEF Next_
<1>7. f \in Activations(code, Len(closures))
  <2> DEFINE to == Next_("REGE")
             g == [Top EXCEPT !.ip = to, !.es = es]
  <2> HIDE DEF es, to
  <2>1. f = g
    <3>1. Top \in Activations(code, Len(closures))
      BY <1>3, HerePlaced DEF Placed
    <3> QED
      BY <3>1 DEF Activations, to
  <2>2. g = [Top EXCEPT !.ip = to, !.es = HandlersBehind(Cur, Top.ip, Top.es)]
    BY <1>5
  <2>3. to \in Successors(Cur, Top.ip)
    BY <1>6 DEF to
  <2> HIDE DEF g, f
  <2> QED
    BY <1>3, <2>1, <2>2, <2>3, Landing
<1> HIDE DEF f
<1>8. FramesFit'
  BY <1>1, <1>2, <1>3, <1>7, TopMoves DEF Here
<1> QED
  BY <1>2, <1>8 DEF MachineKept

LEMMA PopeStep ==
  ASSUME MachineInv, Pope
  PROVE  MachineKept
<1> DEFINE es == Front(Top.es)
           f == [Top EXCEPT !.es = es, !.ip = Next_("POPE")]
<1>1. At("POPE") /\ frames' = [frames EXCEPT ![Len(frames)] = f]
  BY DEF Pope
<1>2. MethodsAreThere' /\ Steady /\ ClosuresGrow /\ ret' = ret
  BY NoValueTouched DEF Pope
<1>3. Here /\ Insn = Op.POPE /\ ret = Nothing
  BY <1>1, AtIsHere, OpNames
<1>4. Cur.insns[Top.ip + 1] = Op.POPE
  BY <1>3 DEF Insn
<1>5. HandlersBehind(Cur, Top.ip, Top.es) = es
  <2>1. Op.POPE # Op.REGE
    BY OpInjective, OpNames
  <2> QED
    BY <1>4, <2>1 DEF HandlersBehind
<1>6. Next_("POPE") \in Successors(Cur, Top.ip)
  <2>1. Length["POPE"] = 1
    BY DEF Length
  <2> QED
    BY <1>4, <2>1, OthersGoOn DEF Next_
<1>7. f \in Activations(code, Len(closures))
  <2> DEFINE to == Next_("POPE")
             g == [Top EXCEPT !.ip = to, !.es = es]
  <2> HIDE DEF es, to
  <2>1. f = g
    <3>1. Top \in Activations(code, Len(closures))
      BY <1>3, HerePlaced DEF Placed
    <3> QED
      BY <3>1 DEF Activations, to
  <2>2. g = [Top EXCEPT !.ip = to, !.es = HandlersBehind(Cur, Top.ip, Top.es)]
    BY <1>5
  <2>3. to \in Successors(Cur, Top.ip)
    BY <1>6 DEF to
  <2> HIDE DEF g, f
  <2> QED
    BY <1>3, <2>1, <2>2, <2>3, Landing
<1> HIDE DEF f
<1>8. FramesFit'
  BY <1>1, <1>2, <1>3, <1>7, TopMoves DEF Here
<1> QED
  BY <1>2, <1>8 DEF MachineKept

-----------------------------------------------------------------------------
(* sends                                                                   *)
\* What a send is made of.
MessageFits ==
  /\ Message.base \in Int /\ Message.argc \in Nat
  /\ Known(Len(methods), Message.recv)
  /\ \A i \in 1 .. Message.argc : Known(Len(methods), Message.args[i])
LEMMA SendIsHere ==
  ASSUME MachineInv, Sending
  PROVE  Here /\ IsSend(Insn) /\ ret = Nothing /\ MessageFits
<1>1. Here /\ IsSend(Insn) /\ ret = Nothing
  BY DEF Sending, Sends, InCode, Running, Here, IsSend
<1>2. Arg(2) \in 0 .. 255 /\ Arg(3) \in 0 .. 255
  <2>1. PICK op \in Sends : Insn = Op[op]
    BY DEF Sending
  <2>2. op \in DOMAIN Op /\ Length[op] >= 5 /\ Length[op] \in Nat
    BY OpNames DEF Sends, Length
  <2> QED
    BY <1>1, <2>1, <2>2, OperandsAreBytes
<1>3. Top.fp \in Int
  BY <1>1, HerePlaced DEF Placed
<1>4. Top.fp + Arg(2) \in Int /\ Arg(3) \in Nat
  BY <1>2, <1>3
<1>5. /\ Message.base = Top.fp + Arg(2) /\ Message.argc = Arg(3)
      /\ Message.recv = Reg(Arg(2)) /\ Message.args = Elements(Arg(2) + 1, Arg(3))
  BY DEF Message
<1>6. \A i \in 1 .. Arg(3) : Known(Len(methods), Elements(Arg(2) + 1, Arg(3))[i])
  BY RegIsKnown DEF Elements
<1> QED
  BY <1>1, <1>4, <1>5, <1>6, RegIsKnown DEF MessageFits

\* A method there is begins to run.
LEMMA EnterStep ==
  ASSUME MachineInv, Sending, NEW m \in 1 .. Len(methods), NEW fp \in Int, NEW argc \in Nat,
         NEW rs, RegistersHold(rs, Len(methods)), Enter(m, fp, argc, rs)
  PROVE  MachineKept
<1> DEFINE n == Len(closures)
           at == methods[m].at
           c == NewClosure(at, methods[m].clos)
<1>1. /\ closures' = Append(closures, c)
      /\ frames' = Append(frames, Frame(at, fp, argc, n + 1))
      /\ regs' = rs
      /\ UNCHANGED <<tree, world, code, methods, defs, attrs, ret, events, answers>>
  BY DEF Enter
<1>2. Len(methods) \in Nat /\ Len(closures) \in Nat /\ MethodsAreThere
  BY Counts DEF MachineInv
<1>3. Here /\ IsSend(Insn) /\ ret = Nothing
  BY SendIsHere
<1>4. at \in DOMAIN code /\ methods[m].clos \in 1 .. n
  <2> DEFINE A == [at : DOMAIN code, clos : 1 .. n]
  <2>1. methods \in Seq(A)
    BY <1>2 DEF MethodsAreThere
  <2>2. methods[m] \in A
    <3> HIDE DEF A
    <3> QED
      BY <2>1, ElementOfSeq
  <2> QED
    BY <2>2
<1>5. code[at].cov \in Nat
  BY <1>4 DEF MachineInv, WellFormed, IsWellFormed
<1>6. ClosuresHold(closures', Len(methods)) /\ Len(closures') = n + 1
  <2>1. c = [parent |-> methods[m].clos, vals |-> [i \in 1 .. code[at].cov |-> NilV],
             return_to |-> code[at].return_to]
    BY DEF NewClosure
  <2>2. ClosuresHold(closures, Len(methods))
    BY <1>2 DEF MethodsAreThere
  <2>3. methods[m].clos \in 0 .. n
    BY <1>2, <1>4
  <2> HIDE DEF c, at
  <2>4. ClosuresHold(Append(closures, c), Len(methods)) /\ Len(Append(closures, c)) = n + 1
    BY <1>2, <1>5, <2>1, <2>2, <2>3, ClosureMade
  <2> QED
    BY <1>1, <2>4
<1>7. ClosuresGrow
  BY <1>1, <1>2, <1>6 DEF ClosuresGrow
<1>8. FramesFit'
  <2>1. n + 1 \in 1 .. Len(closures')
    BY <1>2, <1>6
  <2> HIDE DEF n, at
  <2> QED
    BY <1>1, <1>3, <1>4, <1>7, <2>1, CallEntered
<1>9. MethodsAreThere'
  <2>1. Len(closures') \in Nat /\ Len(closures) <= Len(closures')
    BY <1>2, <1>6
  <2> HIDE DEF c, at
  <2> QED
    BY <1>1, <1>2, <1>6, <2>1, StillThere DEF MethodsAreThere
<1> QED
  BY <1>1, <1>8, <1>9 DEF MachineKept, Steady

LEMMA ApplyStep ==
  ASSUME MachineInv, Apply
  PROVE  MachineKept
<1>1. Sending /\ IsApply(Message)
      /\ Enter(Message.recv.n, Message.base + 1, Message.argc, regs)
  BY DEF Apply
<1>2. MessageFits
  BY <1>1, SendIsHere
<1>3. Message.recv.n \in 1 .. Len(methods)
  BY <1>1, <1>2 DEF MessageFits, IsApply, Known
<1>4. Message.base + 1 \in Int /\ Message.argc \in Nat
  BY <1>2 DEF MessageFits
<1>5. RegistersHold(regs, Len(methods))
  BY DEF MachineInv, MethodsAreThere
<1> QED
  BY <1>1, <1>3, <1>4, <1>5, EnterStep

LEMMA RunBodyStep ==
  ASSUME MachineInv, RunBodyOf
  PROVE  MachineKept
<1> DEFINE self == Message.base + 1 + Message.argc
           rs == With(regs, self, Message.recv)
<1>1. Sending /\ IsRunBody(Message) /\ Enter(Message.args[1].n, self + 1, 0, rs)
  BY DEF RunBodyOf
<1>2. MessageFits
  BY <1>1, SendIsHere
<1>3. Message.args[1].n \in 1 .. Len(methods)
  <2>1. Message.argc = 1 /\ Message.args[1].k = "meth"
    BY <1>1 DEF IsRunBody
  <2>2. Known(Len(methods), Message.args[1])
    BY <1>2, <2>1 DEF MessageFits
  <2> QED
    BY <2>1, <2>2 DEF Known
<1>4. self + 1 \in Int
  BY <1>2 DEF MessageFits
<1>5. RegistersHold(rs, Len(methods))
  <2>1. RegistersHold(regs, Len(methods))
    BY DEF MachineInv, MethodsAreThere
  <2> HIDE DEF self
  <2> QED
    BY <1>2, <2>1, WithHolds DEF MessageFits
<1> HIDE DEF self, rs
<1> QED
  BY <1>1, <1>3, <1>4, <1>5, EnterStep

\* The keywords sorted in, the registers still hold methods there are.
LEMMA SortedInHolds ==
  ASSUME MachineInv, Sending, IsDefined(Message)
  PROVE  /\ defs[Message.name] \in 1 .. Len(methods)
         /\ RegistersHold(SortedIn(Message), Len(methods))
<1> DEFINE m == defs[Message.name]
           params == code[methods[m].at].args
<1>2. MessageFits
  BY SendIsHere
<1>3. m \in 1 .. Len(methods)
  BY DEF IsDefined, MachineInv, MethodsAreThere
<1>4. Message.base + 1 \in Int /\ Message.argc \in Nat
  BY <1>2 DEF MessageFits
<1>5. RegistersHold(regs, Len(methods))
  BY DEF MachineInv, MethodsAreThere
<1>6. Len(params) \in Nat
  <2> DEFINE A == [at : DOMAIN code, clos : 1 .. Len(closures)]
  <2>1. methods \in Seq(A)
    BY DEF MachineInv, MethodsAreThere
  <2>2. methods[m] \in A
    <3> HIDE DEF A, m
    <3> QED
      BY <1>3, <2>1, ElementOfSeq
  <2>3. params \in Seq(STRING)
    <3> HIDE DEF m
    <3>1. methods[m].at \in DOMAIN code
      BY <2>2
    <3> QED
      BY <3>1 DEF MachineInv, WellFormed, IsWellFormed
  <2> HIDE DEF params
  <2> QED
    BY <2>3, LenProperties
<1>7. SortedIn(Message) = IF Message.keywords = <<>> THEN regs
                          ELSE ReorgArgs(regs, Message.base + 1, params, Message.keywords)
  BY Zenon DEF SortedIn
<1> HIDE DEF m, params
<1>8. RegistersHold(ReorgArgs(regs, Message.base + 1, params, Message.keywords), Len(methods))
  BY <1>4, <1>5, <1>6, ReorgArgsHolds
<1>9. RegistersHold(SortedIn(Message), Len(methods))
  BY <1>5, <1>7, <1>8
<1> QED
  BY <1>3, <1>9 DEF m

LEMMA CallDefStep ==
  ASSUME MachineInv, CallDef
  PROVE  MachineKept
<1> DEFINE m == defs[Message.name]
           rs == SortedIn(Message)
<1>1. Sending /\ IsDefined(Message) /\ Enter(m, Message.base + 1, Message.argc, rs)
  BY Zenon DEF CallDef
<1>2. MessageFits
  BY <1>1, SendIsHere
<1>3. m \in 1 .. Len(methods) /\ RegistersHold(rs, Len(methods))
  BY <1>1, SortedInHolds
<1>4. Message.base + 1 \in Int /\ Message.argc \in Nat
  BY <1>2 DEF MessageFits
<1> HIDE DEF m, rs
<1> QED
  BY <1>1, <1>3, <1>4, EnterStep

\* A send that is answered at once.
LEMMA AnswerStep ==
  ASSUME MachineInv, CallDefWrongArity \/ AddMethod \/ World
  PROVE  MachineKept
<1>1. Sending /\ UNCHANGED <<world, code, frames, closures, methods, attrs>>
  BY Zenon DEF CallDefWrongArity, AddMethod, World
<1>2. Here /\ IsSend(Insn) /\ ret = Nothing /\ MessageFits
  BY <1>1, SendIsHere
<1>3. Len(methods) \in Nat /\ Len(closures) \in Nat /\ MethodsAreThere
  BY Counts DEF MachineInv
<1>4. ClosuresGrow
  BY <1>1, <1>3 DEF ClosuresGrow
<1>5. FramesFit'
  BY <1>1, <1>2, <1>4, AnsweredAtOnce
<1>6. CASE CallDefWrongArity
  <2>1. /\ IsDefined(Message) /\ regs' = SortedIn(Message) /\ defs' = defs
        /\ ret' = Raises(ExcV(0, "ArgumentError"))
    BY <1>6, Zenon DEF CallDefWrongArity
  <2>2. ret'.v = ExcV(0, "ArgumentError")
    BY <2>1 DEF Raises, Nothing
  <2>3. RegistersHold(regs', Len(methods))
    BY <1>1, <2>1, SortedInHolds
  <2>4. MethodsAreThere'
    BY <1>1, <1>3, <2>1, <2>2, <2>3, NoMethodIsKnown, StillThere DEF MethodsAreThere
  <2> QED
    BY <1>1, <1>5, <2>4 DEF MachineKept, Steady
<1>7. CASE AddMethod
  <2> DEFINE k == Message.argc
  <2>1. /\ k > 1 /\ Message.args[k].k = "meth"
        /\ defs' = Updated(defs, Message.args[k - 1].s, Message.args[k].n)
        /\ ret' = Returns(NilV) /\ regs' = regs
    BY <1>7, Zenon DEF AddMethod
  <2>2. Message.args[k].n \in 1 .. Len(methods)
    <3>1. k \in 1 .. k
      BY <1>2, <2>1 DEF MessageFits
    <3> HIDE DEF k
    <3>2. k = Message.argc
      BY DEF k
    <3>3. Known(Len(methods), Message.args[k])
      BY <1>2, <3>1, <3>2 DEF MessageFits
    <3> QED
      BY <2>1, <3>3 DEF Known
  <2> HIDE DEF k
  <2>3. \A name \in DOMAIN defs' : defs'[name] \in 1 .. Len(methods)
    BY <1>3, <2>1, <2>2 DEF Updated, MethodsAreThere
  <2>4. ret'.v = NilV
    BY <2>1 DEF Returns, Nothing
  <2>5. MethodsAreThere'
    BY <1>1, <1>3, <2>1, <2>3, <2>4, NoMethodIsKnown, StillThere DEF MethodsAreThere
  <2> QED
    BY <1>1, <1>5, <2>5 DEF MachineKept, Steady
<1>8. CASE World
  <2> DEFINE n == Len(events) + 1
             used == Message.base + Message.argc
  <2>1. /\ regs' = [r \in DOMAIN regs |-> IF r > used THEN JunkV ELSE regs[r]]
        /\ defs' = defs
        /\ \E o \in world.may :
             ret' = CASE o = "nil" -> Returns(NilV)
                      [] o = "object" -> Returns(ObjV(n))
                      [] o = "raise" -> Raises(ExcV(n, ""))
    BY <1>8, Zenon DEF World
  <2> HIDE DEF n, used
  <2>2. Known(Len(methods), ret'.v)
    <3>1. PICK o \in {"nil", "object", "raise"} :
            ret' = CASE o = "nil" -> Returns(NilV)
                     [] o = "object" -> Returns(ObjV(n))
                     [] o = "raise" -> Raises(ExcV(n, ""))
      BY <2>1 DEF MachineInv
    <3>2. ret' = Returns(NilV) \/ ret' = Returns(ObjV(n)) \/ ret' = Raises(ExcV(n, ""))
      BY <3>1
    <3>3. ret'.v = NilV \/ ret'.v = ObjV(n) \/ ret'.v = ExcV(n, "")
      BY <3>2 DEF Returns, Raises, Nothing
    <3> QED
      BY <3>3, NoMethodIsKnown
  <2>3. RegistersHold(regs', Len(methods))
    <3>1. RegistersHold(regs, Len(methods))
      BY <1>3 DEF MethodsAreThere
    <3> QED
      BY <2>1, <3>1, NoMethodIsKnown DEF RegistersHold
  <2>4. MethodsAreThere'
    BY <1>1, <1>3, <2>1, <2>2, <2>3, StillThere DEF MethodsAreThere
  <2> QED
    BY <1>1, <1>5, <2>4 DEF MachineKept, Steady
<1> QED
  BY <1>6, <1>7, <1>8

-----------------------------------------------------------------------------
(* leaving an activation                                                   *)
LEMMA LeaveStep ==
  ASSUME MachineInv, frames # <<>>, NEW r, Known(Len(methods), r.v), Leave(r)
  PROVE  MachineKept
<1>1. ret' = r /\ UNCHANGED <<tree, world, code, regs, closures, methods, defs, attrs>>
  BY DEF Leave
<1>2. Len(methods) \in Nat /\ Len(closures) \in Nat /\ MethodsAreThere
  BY Counts DEF MachineInv
<1>3. FramesFit'
  BY CallLeft
<1>4. MethodsAreThere'
  BY <1>1, <1>2, StillThere DEF MethodsAreThere
<1> QED
  BY <1>1, <1>3, <1>4 DEF MachineKept, Steady

LEMMA WrapIsKnown == \A m, v : Known(m, Wrap(v))
BY DEF Known, Wrap, ExcV, Value

LEMMA AtRuns ==
  ASSUME NEW op, At(op)
  PROVE  frames # <<>>
BY DEF At, InCode, Running

LEMMA LeaveSteps ==
  ASSUME MachineInv, Return_ \/ LongReturn \/ RaiseOut \/ PassException \/ TakeLongReturn
  PROVE  MachineKept
<1>1. CASE Return_
  <2>1. Returns(Reg(Arg(0))).v = Reg(Arg(0))
    BY DEF Returns, Nothing
  <2> QED
    BY <1>1, <2>1, RegIsKnown, AtRuns, LeaveStep DEF Return_
<1>2. CASE LongReturn
  <2> DEFINE r == LongReturns(Reg(Arg(0)), Target)
  <2>1. At("LRET") /\ Leave(r)
    BY <1>2, Zenon DEF LongReturn
  <2>2. r.v = Reg(Arg(0))
    BY DEF LongReturns
  <2> HIDE DEF r
  <2>3. Known(Len(methods), r.v)
    BY <2>2, RegIsKnown
  <2> QED
    BY <2>1, <2>3, AtRuns, LeaveStep
<1>3. CASE RaiseOut
  <2> DEFINE v == Wrap(Reg(Arg(0)))
  <2>1. Known(Len(methods), v)
    BY WrapIsKnown
  <2>2. At("RAISE") /\ Leave(Raises(v))
    BY <1>3 DEF RaiseOut, Raising
  <2> HIDE DEF v
  <2>3. Raises(v).v = v
    BY DEF Raises, Nothing
  <2> QED
    BY <2>1, <2>2, <2>3, AtRuns, LeaveStep
<1>4. CASE PassException
  <2>1. Known(Len(methods), ret.v)
    BY DEF MachineInv, MethodsAreThere
  <2> QED
    BY <1>4, <2>1, LeaveStep DEF PassException, Returned
<1>5. CASE TakeLongReturn
  <2> DEFINE r == IF ret.target = Top.clos THEN Returns(ret.v) ELSE ret
  <2>1. frames # <<>> /\ Leave(r)
    BY <1>5 DEF TakeLongReturn, Returned
  <2>2. r.v = ret.v
    BY DEF Returns, Nothing
  <2>3. Known(Len(methods), ret.v)
    BY DEF MachineInv, MethodsAreThere
  <2> HIDE DEF r
  <2> QED
    BY <2>1, <2>2, <2>3, LeaveStep
<1> QED
  BY <1>1, <1>2, <1>3, <1>4, <1>5

\* The process ends: no activation is left.
LEMMA StopSteps ==
  ASSUME MachineInv, ReturnStops \/ RaiseStops
  PROVE  MachineKept
<1>1. /\ ret' = Aborts /\ frames' = <<>>
      /\ UNCHANGED <<tree, world, code, regs, closures, methods, defs, attrs>>
  BY Zenon DEF ReturnStops, RaiseStops, Stop
<1>2. Len(methods) \in Nat /\ Len(closures) \in Nat /\ MethodsAreThere
  BY Counts DEF MachineInv
<1>3. FramesFit'
  BY <1>1 DEF FramesFit, ActivationsFit, CallersWait
<1>4. Known(Len(methods), ret'.v)
  BY <1>1, NoMethodIsKnown DEF Aborts, Nothing
<1>5. MethodsAreThere'
  BY <1>1, <1>2, <1>4, StillThere DEF MethodsAreThere
<1> QED
  BY <1>1, <1>3, <1>5 DEF MachineKept, Steady

LEMMA HandleStep ==
  ASSUME Here, IsSend(Insn) \/ Insn = Op.RAISE, Top.es # <<>>,
         NEW v, Known(Len(methods), v), Handle_(v)
  PROVE  MachineKept
<1>1. MachineInv
  BY DEF Here
<1>2. /\ regs' = With(regs, Top.fp + Last(Top.es).reg, v) /\ ret' = Nothing
      /\ UNCHANGED <<tree, world, code, closures, methods, defs, attrs>>
  BY DEF Handle_
<1>3. Len(methods) \in Nat /\ Len(closures) \in Nat /\ MethodsAreThere
  BY <1>1, Counts DEF MachineInv
<1>4. FramesFit'
  BY HandlerTakesOver
<1>5. RegistersHold(regs', Len(methods))
  BY <1>2, <1>3, WithHolds DEF MethodsAreThere
<1>6. MethodsAreThere'
  BY <1>2, <1>3, <1>5, NothingIsKnown, StillThere DEF MethodsAreThere
<1> QED
  BY <1>2, <1>4, <1>6 DEF MachineKept, Steady

\* The activation a call has come back to is at its send.
LEMMA BackAtSend ==
  ASSUME MachineInv, NEW how, how # "none", Returned(how)
  PROVE  Here /\ IsSend(Insn) /\ Known(Len(methods), ret.v)
<1>1. frames # <<>> /\ ret # Nothing
  BY DEF Returned, Nothing
<1>2. Calls(code, Top)
  BY <1>1 DEF MachineInv, CallersWait
<1> QED
  BY <1>1, <1>2 DEF Calls, Here, Insn, Cur, MachineInv, MethodsAreThere

LEMMA HandleSteps ==
  ASSUME MachineInv, RaiseCaught \/ TakeException
  PROVE  MachineKept
<1>1. CASE RaiseCaught
  <2>1. At("RAISE") /\ Top.es # <<>> /\ Handle_(Wrap(Reg(Arg(0))))
    BY <1>1 DEF RaiseCaught, Raising
  <2>2. Here /\ Insn = Op.RAISE
    BY <2>1, AtIsHere, OpNames
  <2> QED
    BY <2>1, <2>2, WrapIsKnown, HandleStep
<1>2. CASE TakeException
  <2>1. Returned("raise") /\ Top.es # <<>> /\ Handle_(ret.v)
    BY <1>2 DEF TakeException
  <2>2. Here /\ IsSend(Insn) /\ Known(Len(methods), ret.v)
    BY <2>1, BackAtSend
  <2> QED
    BY <2>1, <2>2, HandleStep
<1> QED
  BY <1>1, <1>2

LEMMA TakeValueStep ==
  ASSUME MachineInv, TakeValue
  PROVE  MachineKept
<1>1. /\ Returned("value") /\ regs' = With(regs, Top.fp + Arg(0), ret.v)
      /\ Go(Top.ip + Length[OpName(Insn)]) /\ ret' = Nothing
      /\ UNCHANGED <<tree, world, code, closures, methods, defs, attrs>>
  BY DEF TakeValue, SetReg
<1>2. Here /\ IsSend(Insn) /\ Known(Len(methods), ret.v)
  BY <1>1, BackAtSend
<1>3. Len(methods) \in Nat /\ Len(closures) \in Nat /\ MethodsAreThere
  BY Counts DEF MachineInv
<1>4. PICK op \in Plain : Insn = Op[op]
  BY <1>2, PlainOps DEF IsSend
<1>5. Length[OpName(Insn)] = Length[op]
  BY <1>4, OpNameOfOp DEF Plain
<1>6. /\ Next_(op) \in Successors(Cur, Top.ip)
      /\ HandlersBehind(Cur, Top.ip, Top.es) = Top.es
  BY <1>4, PlainIs
<1>7. Go(Next_(op))
  BY <1>1, <1>5 DEF Next_
<1>8. FramesFit'
  BY <1>1, <1>2, <1>3, <1>6, <1>7, Advances DEF ClosuresGrow
<1>9. RegistersHold(regs', Len(methods))
  BY <1>1, <1>2, <1>3, WithHolds DEF MethodsAreThere
<1>10. MethodsAreThere'
  BY <1>1, <1>3, <1>9, NothingIsKnown, StillThere DEF MethodsAreThere
<1> QED
  BY <1>1, <1>8, <1>10 DEF MachineKept, Steady

-----------------------------------------------------------------------------
(* the theorems                                                            *)
\* main sets up what every step then keeps.
THEOREM MachineBegins ==
  ASSUME Boot, WellFormed(code), world.may \subseteq {"nil", "object", "raise"}
  PROVE  MachineInv
<1> DEFINE g == [parent |-> 0, vals |-> [i \in DOMAIN Globals |-> GlobalV(i - 1)],
                 return_to |-> FALSE]
           c == [parent |-> 1, vals |-> [i \in 1 .. code[<<>>].cov |-> NilV], return_to |-> FALSE]
           f == Frame(<<>>, 1, 0, 2)
<1>1. /\ regs = [r \in 0 .. MaxReg |-> IF r = 0 THEN MainV ELSE JunkV]
      /\ closures = <<g, c>> /\ frames = <<f>>
      /\ methods = <<>> /\ defs = <<>> /\ attrs = <<>> /\ ret = Nothing
  BY DEF Boot
<1>2. Len(methods) = 0 /\ DOMAIN defs = {} /\ DOMAIN attrs = {}
  BY <1>1
<1>3. <<>> \in DOMAIN code /\ IsWellFormed(code, <<>>)
  BY DEF WellFormed
<1>4. code[<<>>].cov \in Nat
  BY <1>3 DEF IsWellFormed
<1>5. RegistersHold(regs, 0)
  <2>1. Known(0, MainV) /\ Known(0, JunkV)
    BY DEF Known, MainV, JunkV, Value
  <2> QED
    BY <1>1, <2>1 DEF RegistersHold
<1>6. ClosuresHold(<<g>>, 0) /\ Len(<<g>>) = 1
  <2> DEFINE vals == [i \in DOMAIN Globals |-> GlobalV(i - 1)]
  <2>1. DOMAIN Globals = 1 .. 14
    BY DEF Globals
  <2>2. \A i \in 1 .. 14 : Known(0, vals[i])
    BY <2>1 DEF Known, GlobalV, Value
  <2>3. vals = [i \in 1 .. 14 |-> vals[i]]
    BY <2>1
  <2> HIDE DEF vals
  <2>4. Len(vals) = 14 /\ IsSequence(vals)
    BY <2>3, SeqIs
  <2>5. g.parent = 0 /\ g.vals = vals /\ g = [parent |-> g.parent, vals |-> g.vals,
                                              return_to |-> g.return_to]
    BY DEF vals
  <2> HIDE DEF g
  <2>6. IsClosure(1, 0, g)
    <3>1. g.parent \in 0 .. 1
      BY <2>5
    <3>2. \A i \in 1 .. Len(vals) : Known(0, vals[i])
      BY <2>2, <2>4
    <3> QED
      BY <2>4, <2>5, <3>1, <3>2, Zenon DEF IsClosure
  <2>7. Len(<<g>>) = 1 /\ <<g>>[1] = g /\ <<g>> = [i \in 1 .. 1 |-> <<g>>[i]]
    OBVIOUS
  <2> QED
    BY <2>6, <2>7 DEF ClosuresHold, IsSequence
<1>7. ClosuresHold(closures, 0) /\ Len(closures) = 2
  <2> HIDE DEF g
  <2>1. closures = Append(<<g>>, c)
    <3> HIDE DEF c
    <3> QED
      BY <1>1, PairIsAppended
  <2>2. 1 \in 0 .. Len(<<g>>)
    BY <1>6
  <2>3. ClosuresHold(Append(<<g>>, c), 0) /\ Len(Append(<<g>>, c)) = Len(<<g>>) + 1
    <3> DEFINE globals == <<g>>
               cov == code[<<>>].cov
    <3>1. c = [parent |-> 1, vals |-> [i \in 1 .. cov |-> NilV], return_to |-> FALSE]
      OBVIOUS
    <3>2. ClosuresHold(globals, 0) /\ 1 \in 0 .. Len(globals) /\ cov \in Nat /\ 0 \in Nat
      BY <1>4, <1>6, <2>2
    <3> HIDE DEF globals, cov, c
    <3>3. ClosuresHold(Append(globals, c), 0) /\ Len(Append(globals, c)) = Len(globals) + 1
      BY <3>1, <3>2, ClosureMade
    <3> QED
      BY <3>3 DEF globals
  <2> QED
    BY <1>6, <2>1, <2>3
<1>8. MethodsAreThere
  <2>1. methods \in Seq([at : DOMAIN code, clos : 1 .. Len(closures)])
    BY <1>1
  <2>2. Known(0, ret.v)
    BY <1>1, NothingIsKnown
  <2> HIDE DEF g, c, f
  <2> QED
    BY <1>2, <1>5, <1>7, <2>1, <2>2 DEF MethodsAreThere, AttributesHold
<1>9. f \in Activations(code, 2)
  <2>1. 0 \in Boundaries(code[<<>>]) /\ HandlersAround(Tries(code[<<>>]), 0) = <<>>
    BY <1>3 DEF IsWellFormed
  <2> QED
    BY <1>3, <2>1 DEF Frame, Activations
<1>10. ActivationsFit /\ Len(frames) = 1
  <2> HIDE DEF f, g, c
  <2> QED
    BY <1>1, <1>7, <1>9 DEF ActivationsFit
<1>11. CallersWait
  BY <1>1, <1>10 DEF CallersWait
<1> QED
  BY <1>8, <1>10, <1>11 DEF MachineInv

THEOREM MachineGoesOn ==
  ASSUME MachineInv, [Next]_vars
  PROVE  MachineInv'
<1>1. CASE UNCHANGED vars
  <2>1. MachineKept
    BY <1>1, NoValueTouched DEF vars, MachineKept, MachineInv, FramesFit, ActivationsFit,
       CallersWait, Top
  <2> QED
    BY <2>1, KeptIsKept
<1>2. CASE Next
  <2>1. CASE Movi8 \/ Movi32 \/ Movr \/ Movn \/ Movt \/ Movf \/ Loads \/ LoadSelf \/ Negate
             \/ MakeTuple \/ MakeList \/ Ivr \/ Lvar
    BY <2>1, LoadSteps, KeptIsKept
  <2>2. CASE Iva
    BY <2>2, IvaStep, KeptIsKept
  <2>3. CASE Svar
    BY <2>3, SvarStep, KeptIsKept
  <2>4. CASE Loadc
    BY <2>4, LoadcStep, KeptIsKept
  <2>5. CASE Jump
    BY <2>5, JumpStep, KeptIsKept
  <2>6. CASE Rege
    BY <2>6, RegeStep, KeptIsKept
  <2>7. CASE Pope
    BY <2>7, PopeStep, KeptIsKept
  <2>8. CASE Apply
    BY <2>8, ApplyStep, KeptIsKept
  <2>9. CASE RunBodyOf
    BY <2>9, RunBodyStep, KeptIsKept
  <2>10. CASE CallDef
    BY <2>10, CallDefStep, KeptIsKept
  <2>11. CASE CallDefWrongArity \/ AddMethod \/ World
    BY <2>11, AnswerStep, KeptIsKept
  <2>12. CASE Return_ \/ LongReturn \/ RaiseOut \/ PassException \/ TakeLongReturn
    BY <2>12, LeaveSteps, KeptIsKept
  <2>13. CASE RaiseCaught \/ TakeException
    BY <2>13, HandleSteps, KeptIsKept
  <2>14. CASE TakeValue
    BY <2>14, TakeValueStep, KeptIsKept
  <2>15. CASE ReturnStops \/ RaiseStops
    BY <2>15, StopSteps, KeptIsKept
  <2> QED
    BY <1>2, <2>1, <2>2, <2>3, <2>4, <2>5, <2>6, <2>7, <2>8, <2>9, <2>10, <2>11, <2>12,
       <2>13, <2>14, <2>15 DEF Next
<1> QED
  BY <1>1, <1>2

THEOREM MachineIsInductive == Execution => []MachineInv
<1>1. Boot /\ WellFormed(code) /\ world.may \subseteq {"nil", "object", "raise"} => MachineInv
  BY MachineBegins
<1>2. MachineInv /\ [Next]_vars => MachineInv'
  BY MachineGoesOn
<1> QED
  BY <1>1, <1>2, PTL DEF Execution

LEMMA FrameOf ==
  ASSUME MachineInv, NEW i \in DOMAIN frames
  PROVE  frames[i] \in Activations(code, Len(closures)) /\ frames[i].at \in DOMAIN code
<1> DEFINE A == Activations(code, Len(closures))
<1>1. frames \in Seq(A)
  BY DEF MachineInv, ActivationsFit
<1>2. frames[i] \in A
  <2> HIDE DEF A
  <2> QED
    BY <1>1, LenProperties, ElementOfSeq
<1> QED
  BY <1>2 DEF Activations

\* An activation of VM::run, running or waiting, and every handler it has
\* registered, is at the beginning of an instruction, never inside of one.
THEOREM StaysOnInstructions == Execution => []StandsOnInstruction
<1>1. MachineInv => StandsOnInstruction
  <2> SUFFICES ASSUME MachineInv, NEW i \in DOMAIN frames
               PROVE  LET fr == frames[i]
                          places == Boundaries(code[fr.at])
                      IN fr.ip \in places /\ \A h \in ToSet(fr.es) : h.ip \in places
    BY DEF StandsOnInstruction
  <2> DEFINE fr == frames[i]
             c == code[fr.at]
  <2>1. fr.at \in DOMAIN code /\ fr.ip \in Boundaries(c) /\ fr.es = HandlersAround(Tries(c), fr.ip)
    BY FrameOf DEF Activations
  <2>2. fr.es \in Seq(Handler(c))
    <3>1. IsWellFormed(code, fr.at)
      BY <2>1 DEF MachineInv, WellFormed
    <3> QED
      BY <2>1, <3>1 DEF IsWellFormed
  <2>3. \A h \in ToSet(fr.es) : h \in Handler(c)
    <3> HIDE DEF fr, c
    <3>1. \A j \in DOMAIN fr.es : fr.es[j] \in Handler(c)
      BY <2>2, LenProperties, ElementOfSeq
    <3> QED
      BY <3>1 DEF ToSet
  <2> QED
    BY <2>1, <2>3 DEF Handler
<1> QED
  BY <1>1, MachineIsInductive, PTL

\* An activation has registered the handlers of the try bodies it is in, however
\* it came there and whatever was raised below it.
THEOREM HandlersFollowPlace == Execution => []HandlersMatchPlace
<1>1. MachineInv => HandlersMatchPlace
  BY FrameOf DEF HandlersMatchPlace, Activations
<1> QED
  BY <1>1, MachineIsInductive, PTL

\* The n-th of k parameters lies at fp + n - 1, its copy at fp + k + n - 1.
InPlace(fp, k, top, n) ==
  /\ fp + k + n - 1 \in 0 .. top /\ fp + k + n - 1 - fp - k + 1 = n
  /\ fp + n - 1 \in 0 .. top /\ fp + n - 1 \in fp .. fp + k - 1
  /\ fp + n - 1 + k = fp + k + n - 1
  /\ n - 1 \in 0 .. k /\ n \in 0 .. k /\ n \notin 1 .. n - 1
  /\ \A f \in fp .. fp + k - 1 : f \in 0 .. top /\ f - fp - k + 1 \notin 1 .. n - 1
  /\ \A r \in 0 .. top : r - fp - k + 1 = n <=> r = fp + k + n - 1
  /\ \A r \in 0 .. top :
       r - fp - k + 1 \in 1 .. n <=> (r - fp - k + 1 \in 1 .. n - 1 \/ r - fp - k + 1 = n)
LEMMA ParameterPlaces ==
  ASSUME NEW fp \in Nat, NEW k \in Nat, NEW top \in Nat, fp + 2 * k <= top + 1, NEW n \in 1 .. k
  PROVE  InPlace(fp, k, top, n)
<1>1. n \in Int /\ 1 <= n /\ n <= k
  OBVIOUS
<1> QED
  BY <1>1 DEF InPlace

LEMMA NotBefore ==
  ASSUME NEW n \in Nat, NEW j \in 1 .. n, NEW q \in 1 .. n, q \notin 1 .. j - 1
  PROVE  j <= q
OBVIOUS

\* The copy for the n-th parameter.
LEMMA CopiesNext ==
  ASSUME NEW V, NEW rs \in [0 .. MaxReg -> V], NEW fp \in Nat,
         NEW params, NEW k \in Nat, k = Len(params), NEW keywords \in Seq(STRING),
         Len(keywords) <= k, fp + 2 * k <= MaxReg + 1,
         NEW n \in 1 .. k, NEW h, h = [r \in 0 .. MaxReg |-> h[r]],
         Copied(n - 1, h, rs, fp, params, keywords), NEW after,
         after = IF params[n] = "" THEN h
                 ELSE With(h, fp + k + n - 1, Read(h, From(fp, params, keywords, n)))
  PROVE  Copied(n, after, rs, fp, params, keywords)
<1> DEFINE from(i) == From(fp, params, keywords, i)
           i(r) == r - fp - k + 1
           t == fp + k + n - 1
<1>0. /\ t \in 0 .. MaxReg /\ i(t) = n /\ n \notin 1 .. n - 1
      /\ \A f \in fp .. fp + k - 1 : f \in 0 .. MaxReg /\ i(f) \notin 1 .. n - 1
      /\ \A r \in 0 .. MaxReg : i(r) = n <=> r = t
      /\ \A r \in 0 .. MaxReg : i(r) \in 1 .. n <=> (i(r) \in 1 .. n - 1 \/ i(r) = n)
  <2>1. InPlace(fp, k, MaxReg, n)
    BY MaxRegAssumption, ParameterPlaces
  <2> QED
    BY <2>1, Zenon DEF InPlace
<1>1. from(n) \in fp .. fp + k - 1
  BY FromIsArgument
<1>2. \A r \in 0 .. MaxReg :
        h[r] = IF i(r) \in 1 .. n - 1 /\ params[i(r)] # "" THEN rs[from(i(r))] ELSE rs[r]
  BY DEF Copied
<1> HIDE DEF from
<1>3. from(n) \in 0 .. MaxReg /\ i(from(n)) \notin 1 .. n - 1
  <2> HIDE DEF i
  <2> QED
    BY <1>0, <1>1
<1>4. h[from(n)] = rs[from(n)]
  BY <1>2, <1>3
<1>6. after = IF params[n] = "" THEN h ELSE [h EXCEPT ![t] = rs[from(n)]]
  <2>1. Read(h, from(n)) = rs[from(n)]
    BY <1>3, <1>4 DEF Read, InStack
  <2> HIDE DEF t
  <2>2. With(h, t, rs[from(n)]) = [h EXCEPT ![t] = rs[from(n)]]
    BY <1>0 DEF With, InStack
  <2> QED
    BY <2>1, <2>2 DEF from, t
<1>7. ASSUME NEW r \in 0 .. MaxReg
      PROVE  after[r] = IF i(r) \in 1 .. n /\ params[i(r)] # "" THEN rs[from(i(r))] ELSE rs[r]
  <2>2. i(r) = n <=> r = t
    BY <1>0
  <2>3. i(r) \in 1 .. n <=> (i(r) \in 1 .. n - 1 \/ i(r) = n)
    BY <1>0
  <2> HIDE DEF i, t
  <2>5. CASE r = t /\ params[n] # ""
    BY <1>0, <1>6, <2>2, <2>3, <2>5
  <2>6. CASE ~ (r = t /\ params[n] # "")
    <3>1. after[r] = h[r]
      BY <1>6, <2>6
    <3>2. (i(r) \in 1 .. n /\ params[i(r)] # "") <=> (i(r) \in 1 .. n - 1 /\ params[i(r)] # "")
      BY <2>2, <2>3, <2>6
    <3> QED
      BY <1>2, <3>1, <3>2
  <2> QED
    BY <2>5, <2>6
<1> QED
  BY <1>7 DEF Copied, from

\* Sorting the arguments of a call brings the value of each keyword to the
\* parameter of that name, the first if it is given twice; a parameter that is not
\* named in the call keeps what lies in its place, and no register but those of
\* the parameters and of their copies changes.  Of more keywords than there are
\* parameters, the last may be overwritten before they are read.  (VM::reorg_args)
THEOREM KeywordsReachTheirParameters ==
  ASSUME NEW V, NEW rs \in [0 .. MaxReg -> V], JunkV \in V, NEW fp \in Nat,
         NEW params \in Seq(STRING), NEW keywords \in Seq(STRING),
         Len(keywords) <= Len(params), fp + 2 * Len(params) <= MaxReg + 1
  PROVE  LET after == ReorgArgs(rs, fp, params, keywords) IN
         /\ \A i \in 1 .. Len(params), j \in 1 .. Len(keywords) :
              /\ params[i] # "" /\ keywords[j] = params[i]
              /\ \A q \in 1 .. j - 1 : keywords[q] # params[i]
              => after[fp + i - 1] = rs[fp + j - 1]
         /\ \A i \in 1 .. Len(params) :
              /\ params[i] # ""
              /\ \A j \in 1 .. Len(keywords) : keywords[j] # params[i]
              => after[fp + i - 1] = rs[fp + i - 1]
         /\ \A r \in (0 .. MaxReg) \ (fp .. fp + 2 * Len(params) - 1) : after[r] = rs[r]
<1> DEFINE k == Len(params)
           after == ReorgArgs(rs, fp, params, keywords)
<1>1. k \in Nat /\ fp + 2 * k <= MaxReg + 1 /\ Len(keywords) \in Nat /\ Len(keywords) <= k
      /\ DOMAIN keywords = 1 .. Len(keywords)
  BY LenProperties
<1>2. PICK g : Copies(g, after, rs, fp, params, keywords)
  <2> HIDE DEF after
  <2>1. Len(params) \in Nat /\ fp \in Int
    BY <1>1
  <2> QED
    BY <2>1, ReorgArgsCopies DEF after
<1> HIDE DEF after
<1>3. \A n \in 0 .. k : Copied(n, g[n], rs, fp, params, keywords)
  <2> DEFINE holds(n) == Copied(n, g[n], rs, fp, params, keywords)
             bad == {n \in 0 .. k : ~ holds(n)}
  <2> SUFFICES ASSUME bad # {} PROVE FALSE
    OBVIOUS
  <2>1. holds(0)
    <3>1. g[0] = rs
      BY <1>2 DEF Copies
    <3>2. \A i : i \notin 1 .. 0
      OBVIOUS
    <3> QED
      BY <3>1, <3>2, Zenon DEF Copied
  <2>2. ASSUME NEW n \in 1 .. k, holds(n - 1) PROVE holds(n)
    <3>1. /\ n - 1 \in 0 .. k
          /\ g[n] = IF params[n] = "" THEN g[n - 1]
                    ELSE With(g[n - 1], fp + k + n - 1, Read(g[n - 1], From(fp, params, keywords, n)))
      BY <1>1, <1>2, MaxRegAssumption, ParameterPlaces DEF Copies, InPlace
    <3>2. g[n - 1] = [r \in 0 .. MaxReg |-> g[n - 1][r]]
      BY <1>2, <3>1 DEF Copies
    <3>3. k = Len(params)
      OBVIOUS
    <3> HIDE DEF k
    <3> QED
      BY <1>1, <2>2, <3>1, <3>2, <3>3, CopiesNext
  <2> HIDE DEF holds, k
  <2>3. PICK m \in bad : \A q \in bad : m <= q
    <3>1. bad \in SUBSET Nat
      BY <1>1
    <3> QED
      BY <3>1, SmallestOfNat
  <2>4. m \in 1 .. k /\ holds(m - 1)
    <3>1. m \in 0 .. k /\ m # 0
      BY <2>1, <2>3
    <3>2. m - 1 \in 0 .. k /\ ~ (m <= m - 1)
      BY <1>1, <3>1
    <3> QED
      BY <1>1, <2>3, <3>1, <3>2
  <2> QED
    BY <2>2, <2>3, <2>4
<1>4. \A r \in 0 .. MaxReg :
        after[r] = IF r \in fp .. fp + k - 1 THEN Read(g[k], r + k) ELSE g[k][r]
  BY <1>2 DEF Copies
<1>5. ASSUME NEW i \in 1 .. k, params[i] # ""
      PROVE  after[fp + i - 1] = rs[From(fp, params, keywords, i)]
  <2> DEFINE r == fp + k + i - 1
  <2>1. /\ fp + i - 1 \in 0 .. MaxReg /\ fp + i - 1 \in fp .. fp + k - 1
        /\ r \in 0 .. MaxReg /\ fp + i - 1 + k = r /\ r - fp - k + 1 = i
    BY <1>1, MaxRegAssumption, ParameterPlaces DEF InPlace
  <2>2. k \in 0 .. k /\ k = Len(params)
    BY <1>1
  <2> HIDE DEF k, r
  <2>3. after[fp + i - 1] = g[k][r]
    BY <1>4, <2>1 DEF Read, InStack
  <2>4. g[k][r] = IF i \in 1 .. k /\ params[i] # "" THEN rs[From(fp, params, keywords, i)] ELSE rs[r]
    <3>1. Copied(k, g[k], rs, fp, params, keywords)
      BY <1>3, <2>2
    <3> QED
      BY <2>1, <2>2, <3>1, Zenon DEF Copied
  <2> QED
    BY <1>5, <2>3, <2>4
<1>6. ASSUME NEW r \in (0 .. MaxReg) \ (fp .. fp + 2 * k - 1)
      PROVE  after[r] = rs[r]
  <2>1. r \in 0 .. MaxReg /\ r \notin fp .. fp + k - 1 /\ r - fp - k + 1 \notin 1 .. k
    BY <1>1, <1>6, MaxRegAssumption
  <2>2. k \in 0 .. k /\ k = Len(params)
    BY <1>1
  <2> HIDE DEF k
  <2>3. after[r] = g[k][r]
    BY <1>4, <2>1
  <2>4. g[k][r] = rs[r]
    BY <1>3, <2>1, <2>2 DEF Copied
  <2> QED
    BY <2>3, <2>4
<1>7. ASSUME NEW i \in 1 .. k, NEW j \in 1 .. Len(keywords),
             params[i] # "", keywords[j] = params[i], \A q \in 1 .. j - 1 : keywords[q] # params[i]
      PROVE  From(fp, params, keywords, i) = fp + j - 1
  <2> DEFINE found == {q \in DOMAIN keywords : keywords[q] # "" /\ keywords[q] = params[i]}
  <2>1. j \in found /\ \A q \in found : j <= q
    <3>1. j \in found
      BY <1>1, <1>7
    <3>2. ASSUME NEW q \in found PROVE j <= q
      <4>1. q \in 1 .. Len(keywords) /\ q \notin 1 .. j - 1
        BY <1>1, <1>7
      <4> QED
        BY <1>1, <4>1, NotBefore
    <3> QED
      BY <3>1, <3>2
  <2>2. found \subseteq 1 .. Len(keywords)
    BY <1>1
  <2>3. From(fp, params, keywords, i)
          = IF found = {} THEN fp + i - 1 ELSE fp + Min(found) - 1
    BY DEF From
  <2> DEFINE m == Min(found)
             n == Len(keywords)
  <2> HIDE DEF found, n
  <2>4. \A x \in found : x \in 1 .. n
    BY <2>2 DEF n
  <2>5. m \in found /\ m <= j
    BY <2>1 DEF Min
  <2> HIDE DEF m
  <2>6. m = j
    BY <1>1, <2>1, <2>4, <2>5 DEF n
  <2> QED
    BY <2>1, <2>3, <2>6 DEF m
<1>8. ASSUME NEW i \in 1 .. k, \A j \in 1 .. Len(keywords) : keywords[j] # params[i]
      PROVE  From(fp, params, keywords, i) = fp + i - 1
  BY <1>1, <1>8 DEF From
<1> QED
  BY <1>5, <1>6, <1>7, <1>8 DEF after

\* Whoever has called waits at its send.
THEOREM CallersDoWait == Execution => []CallersWait
<1>1. MachineInv => CallersWait
  BY DEF MachineInv
<1> QED
  BY <1>1, MachineIsInductive, PTL

\* Every method that a value names is there.
THEOREM MethodsDoStay == Execution => []MethodsAreThere
<1>1. MachineInv => MethodsAreThere
  BY DEF MachineInv
<1> QED
  BY <1>1, MachineIsInductive, PTL

-----------------------------------------------------------------------------
(* windows of registers                                                    *)
\* What a step does to the windows: nothing, or it leaves one, all of them, or opens one.
SameWindows ==
  DOMAIN frames' = DOMAIN frames /\ \A i \in DOMAIN frames : frames'[i].fp = frames[i].fp
LeavesWindow == frames' = Front(frames)
ClosesWindows == frames' = <<>>
OpensWindow == \E f : frames' = Append(frames, f) /\ f.fp \in Int /\ f.fp > Top.fp
\* What is in front of the running one.
FrontStands == \A r \in 0 .. MaxReg : r < Top.fp => regs'[r] = regs[r]
StepInWindow ==
  frames # <<>> /\ FrontStands /\ (SameWindows \/ LeavesWindow \/ ClosesWindows \/ OpensWindow)

LEMMA FramesAre ==
  ASSUME MachineInv
  PROVE  /\ Len(frames) \in Nat /\ DOMAIN frames = 1 .. Len(frames)
         /\ \A i \in DOMAIN frames : frames[i].fp \in Int /\ "fp" \in DOMAIN frames[i]
         /\ frames # <<>> => Len(frames) \in DOMAIN frames /\ Top.fp \in Int
<1> DEFINE A == Activations(code, Len(closures))
<1>1. frames \in Seq(A)
  BY DEF MachineInv, ActivationsFit
<1>2. Len(frames) \in Nat /\ DOMAIN frames = 1 .. Len(frames)
  <2> HIDE DEF A
  <2> QED
    BY <1>1, LenProperties
<1>3. \A i \in DOMAIN frames : frames[i].fp \in Int /\ "fp" \in DOMAIN frames[i]
  BY FrameOf DEF Activations
<1>4. frames # <<>> => Len(frames) >= 1
  <2> HIDE DEF A
  <2> QED
    BY <1>1, TopIn
<1> QED
  BY <1>2, <1>3, <1>4 DEF Top

\* The running activation goes elsewhere.
LEMMA TopsWindow ==
  ASSUME MachineInv, frames # <<>>, NEW f, f.fp = Top.fp,
         frames' = [frames EXCEPT ![Len(frames)] = f]
  PROVE  SameWindows
BY FramesAre DEF SameWindows, Top

LEMMA GoesInWindow ==
  ASSUME MachineInv, frames # <<>>, NEW to, Go(to)
  PROVE  SameWindows
<1> DEFINE f == [Top EXCEPT !.ip = to]
<1>1. Top \in Activations(code, Len(closures))
  BY FrameOf, FramesAre DEF Top
<1>2. f.fp = Top.fp
  BY <1>1 DEF Activations
<1>3. frames' = [frames EXCEPT ![Len(frames)] = f]
  BY DEF Go, Top
<1> HIDE DEF f
<1> QED
  BY <1>2, <1>3, TopsWindow

\* A register of the window is written.
LEMMA WithInWindow ==
  ASSUME NEW m, RegistersHold(regs, m), Top.fp \in Int, NEW r \in Int, r >= Top.fp, NEW v,
         regs' = With(regs, r, v)
  PROVE  FrontStands
BY DEF FrontStands, RegistersHold, With, InStack

LEMMA SetInWindow ==
  ASSUME MachineInv, frames # <<>>, NEW r \in 0 .. 255, NEW v, regs' = With(regs, Top.fp + r, v)
  PROVE  FrontStands
<1>1. Top.fp \in Int
  BY FramesAre
<1>2. Top.fp + r \in Int /\ Top.fp + r >= Top.fp
  BY <1>1
<1> QED
  BY <1>1, <1>2, WithInWindow DEF MachineInv, MethodsAreThere

LEMMA FirstOperand ==
  ASSUME Here, NEW op \in DOMAIN Op, Insn = Op[op], Length[op] >= 2
  PROVE  Arg(0) \in 0 .. 255
<1>1. 0 \in Nat /\ 0 + 2 <= Length[op]
  BY LengthNat
<1> QED
  BY <1>1, OperandsAreBytes

LEMMA LoadInWindow ==
  ASSUME MachineInv, NEW op \in DOMAIN Op, Length[op] >= 2, NEW v, Load(op, v)
  PROVE  StepInWindow
<1>1. At(op) /\ Go(Next_(op)) /\ regs' = With(regs, Top.fp + Arg(0), v)
  BY DEF Load, SetReg
<1>2. Here /\ Insn = Op[op] /\ frames # <<>>
  BY <1>1, AtIsHere DEF Here
<1>3. Arg(0) \in 0 .. 255
  BY <1>2, FirstOperand
<1> QED
  BY <1>1, <1>2, <1>3, GoesInWindow, SetInWindow DEF StepInWindow

LEMMA LoadsInWindow ==
  ASSUME MachineInv,
         \/ Movi8 \/ Movi32 \/ Movr \/ Movn \/ Movt \/ Movf \/ Loads \/ LoadSelf \/ Negate
         \/ MakeTuple \/ MakeList \/ Ivr \/ Lvar
  PROVE  StepInWindow
<1> DEFINE ops == {"MOVI8", "MOVI32", "MOVR", "MOVN", "MOVT", "MOVF", "LOADS", "SELF", "NOT",
                   "TUPLE", "LIST", "IVR", "LVAR"}
<1>1. \A op \in ops : op \in DOMAIN Op /\ Length[op] >= 2
  BY OpNames DEF Length
<1>2. \E op \in ops : \E v : Load(op, v)
  BY Zenon DEF Movi8, Movi32, Movr, Movn, Movt, Movf, Loads, LoadSelf, Negate, MakeTuple,
     MakeList, Ivr, Lvar
<1> HIDE DEF ops
<1> QED
  BY <1>1, <1>2, LoadInWindow

LEMMA StaysInWindow ==
  ASSUME MachineInv, Iva \/ Svar \/ Jump \/ Rege \/ Pope
  PROVE  StepInWindow
<1>1. frames # <<>> /\ regs' = regs
  BY Zenon DEF Iva, Svar, Jump, Rege, Pope, At, InCode, Running
<1>2. FrontStands
  BY <1>1 DEF FrontStands
<1>3. CASE Iva \/ Svar \/ Jump
  <2>1. \E to : Go(to)
    BY <1>3, Zenon DEF Iva, Svar, Jump
  <2> QED
    BY <1>1, <1>2, <2>1, GoesInWindow DEF StepInWindow
<1>4. CASE Rege \/ Pope
  <2>1. \E es, ip : frames' = [frames EXCEPT ![Len(frames)] = [Top EXCEPT !.es = es, !.ip = ip]]
    BY <1>4, Zenon DEF Rege, Pope
  <2>2. PICK es, ip : frames' = [frames EXCEPT ![Len(frames)] = [Top EXCEPT !.es = es, !.ip = ip]]
    BY <2>1
  <2> DEFINE f == [Top EXCEPT !.es = es, !.ip = ip]
  <2>3. Top \in Activations(code, Len(closures))
    BY <1>1, FrameOf, FramesAre DEF Top
  <2>4. f.fp = Top.fp
    BY <2>3 DEF Activations
  <2> HIDE DEF f
  <2>5. frames' = [frames EXCEPT ![Len(frames)] = f]
    BY <2>2 DEF f
  <2> QED
    BY <1>1, <1>2, <2>4, <2>5, TopsWindow DEF StepInWindow
<1> QED
  BY <1>3, <1>4

LEMMA LoadcInWindow ==
  ASSUME MachineInv, Loadc
  PROVE  StepInWindow
<1>1. At("LOADC") /\ Go(Next_("LOADC")) /\ \E v : regs' = With(regs, Top.fp + Arg(0), v)
  BY DEF Loadc, SetReg
<1>2. Here /\ Insn = Op["LOADC"] /\ frames # <<>>
  BY <1>1, AtIsHere, OpNames DEF Here
<1>3. Arg(0) \in 0 .. 255
  BY SMTT(30), <1>2, FirstOperand, OpNames DEF Length
<1> QED
  BY <1>1, <1>2, <1>3, GoesInWindow, SetInWindow DEF StepInWindow

\* A message lies in the window.
LEMMA MessageInWindow ==
  ASSUME MachineInv, Sending
  PROVE  /\ frames # <<>> /\ Top.fp \in Int /\ MessageFits
         /\ Message.base \in Int /\ Message.argc \in Nat /\ Message.base >= Top.fp
<1>1. Here /\ frames # <<>> /\ MessageFits
  BY SendIsHere DEF Here
<1>2. Arg(2) \in 0 .. 255
  <2>1. PICK op \in Sends : Insn = Op[op]
    BY DEF Sending
  <2>2. op \in DOMAIN Op /\ Length[op] >= 5 /\ Length[op] \in Nat
    BY OpNames DEF Sends, Length
  <2> QED
    <3>1. 2 \in Nat /\ 2 + 2 <= Length[op]
      BY <2>2
    <3> QED
      BY <1>1, <2>1, <2>2, <3>1, OperandsAreBytes
<1>3. Top.fp \in Int
  BY <1>1, FramesAre
<1>4. Message.base = Top.fp + Arg(2)
  BY DEF Message
<1>5. Message.base \in Int /\ Message.argc \in Nat
  BY <1>1 DEF MessageFits
<1>6. Message.base >= Top.fp
  BY <1>2, <1>3, <1>4
<1> QED
  BY <1>1, <1>3, <1>5, <1>6

LEMMA EnterOpens ==
  ASSUME NEW m, NEW fp \in Int, fp > Top.fp, NEW argc, NEW rs, Enter(m, fp, argc, rs)
  PROVE  OpensWindow /\ regs' = rs
<1> DEFINE f == Frame(methods[m].at, fp, argc, Len(closures) + 1)
<1>1. frames' = Append(frames, f) /\ regs' = rs
  BY DEF Enter
<1>2. f.fp = fp
  BY DEF Frame
<1> HIDE DEF f
<1> QED
  BY <1>1, <1>2 DEF OpensWindow

\* Sorting arguments writes nothing in front of them.
LEMMA ReorgArgsStand ==
  ASSUME NEW m, NEW rs, RegistersHold(rs, m), NEW fp \in Int,
         NEW params, Len(params) \in Nat, NEW keywords, NEW q \in 0 .. MaxReg, q < fp
  PROVE  ReorgArgs(rs, fp, params, keywords)[q] = rs[q]
<1> DEFINE V == {rs[r] : r \in 0 .. MaxReg} \cup {JunkV}
           k == Len(params)
           t == ReorgArgs(rs, fp, params, keywords)
<1>1. JunkV \in V
  OBVIOUS
<1>2. rs \in [0 .. MaxReg -> V]
  <2>1. rs = [r \in 0 .. MaxReg |-> rs[r]]
    BY DEF RegistersHold
  <2> QED
    BY <2>1
<1> HIDE DEF V
<1>3. PICK g : Copies(g, t, rs, fp, params, keywords)
  <2> HIDE DEF t
  <2> QED
    BY <1>1, <1>2, ReorgArgsCopies DEF t
<1> HIDE DEF t
<1> DEFINE bad == {n \in 0 .. k : g[n][q] # rs[q]}
<1>4. ASSUME NEW n \in 1 .. k, g[n - 1][q] = rs[q] PROVE g[n][q] = rs[q]
  <2> DEFINE to == fp + k + n - 1
             v == Read(g[n - 1], From(fp, params, keywords, n))
  <2>1. g[n] = IF params[n] = "" THEN g[n - 1] ELSE With(g[n - 1], to, v)
    BY <1>3 DEF Copies
  <2>2. n - 1 \in 0 .. k /\ to # q /\ q < to
    OBVIOUS
  <2>3. g[n - 1] = [r \in 0 .. MaxReg |-> g[n - 1][r]]
    BY <1>2, <1>3, <2>2 DEF Copies
  <2> HIDE DEF to, v, k
  <2>4. With(g[n - 1], to, v)[q] = g[n - 1][q]
    BY <2>2, <2>3 DEF With
  <2> QED
    BY <1>4, <2>1, <2>4
<1>5. bad = {}
  <2> SUFFICES ASSUME bad # {} PROVE FALSE
    OBVIOUS
  <2>1. PICK n \in bad : \A y \in bad : n <= y
    <3>1. bad \in SUBSET Nat
      OBVIOUS
    <3> QED
      BY <3>1, SmallestOfNat
  <2>2. n # 0
    BY <1>3 DEF Copies
  <2>3. n \in 1 .. k /\ n - 1 \in 0 .. k /\ ~ (n <= n - 1)
    BY <2>2
  <2> QED
    BY <1>4, <2>1, <2>3
<1>6. g[k][q] = rs[q]
  BY <1>5
<1>7. t[q] = g[k][q]
  <2>1. q \notin fp .. fp + k - 1
    OBVIOUS
  <2> QED
    BY <1>2, <1>3, <2>1 DEF Copies
<1> QED
  BY <1>6, <1>7 DEF t

\* Sorting the keywords in changes no register in front of the window.
LEMMA SortedInStands ==
  ASSUME MachineInv, Sending, IsDefined(Message)
  PROVE  \A q \in 0 .. MaxReg : q < Top.fp => SortedIn(Message)[q] = regs[q]
<1> DEFINE m == defs[Message.name]
           params == code[methods[m].at].args
           fp == Message.base + 1
           sorted == ReorgArgs(regs, fp, params, Message.keywords)
<1>1. /\ Top.fp \in Int /\ Message.base \in Int /\ Message.base >= Top.fp
      /\ fp \in Int /\ fp > Top.fp
  BY MessageInWindow
<1>2. RegistersHold(regs, Len(methods))
  BY DEF MachineInv, MethodsAreThere
<1>3. Len(params) \in Nat
  <2>1. m \in 1 .. Len(methods)
    BY DEF IsDefined, MachineInv, MethodsAreThere
  <2> DEFINE A == [at : DOMAIN code, clos : 1 .. Len(closures)]
  <2>2. methods \in Seq(A)
    BY DEF MachineInv, MethodsAreThere
  <2>3. methods[m] \in A
    <3> HIDE DEF A, m
    <3> QED
      BY <2>1, <2>2, ElementOfSeq
  <2>4. params \in Seq(STRING)
    <3> HIDE DEF m
    <3>1. methods[m].at \in DOMAIN code
      BY <2>3
    <3> QED
      BY <3>1 DEF MachineInv, WellFormed, IsWellFormed
  <2> HIDE DEF params
  <2> QED
    BY <2>4, LenProperties
<1>4. SortedIn(Message) = IF Message.keywords = <<>> THEN regs ELSE sorted
  BY Zenon DEF SortedIn
<1> HIDE DEF m, params, fp
<1> SUFFICES ASSUME NEW q \in 0 .. MaxReg, q < Top.fp PROVE SortedIn(Message)[q] = regs[q]
  OBVIOUS
<1>5. q < fp
  BY <1>1
<1>6. sorted[q] = regs[q]
  BY <1>1, <1>2, <1>3, <1>5, ReorgArgsStand
<1> HIDE DEF sorted
<1> QED
  BY <1>4, <1>6

LEMMA CallInWindow ==
  ASSUME MachineInv, Apply \/ RunBodyOf \/ CallDef
  PROVE  StepInWindow
<1>1. Sending
  BY DEF Apply, RunBodyOf, CallDef
<1>2. /\ frames # <<>> /\ Top.fp \in Int /\ MessageFits
      /\ Message.base \in Int /\ Message.argc \in Nat /\ Message.base >= Top.fp
  BY <1>1, MessageInWindow
<1>3. RegistersHold(regs, Len(methods))
  BY DEF MachineInv, MethodsAreThere
<1> DEFINE self == Message.base + 1 + Message.argc
           fp == Message.base + 1
<1>4. fp \in Int /\ fp > Top.fp /\ self \in Int /\ self >= Top.fp /\ self + 1 \in Int /\ self + 1 > Top.fp
  BY <1>2
<1>5. CASE Apply
  <2>1. Enter(Message.recv.n, fp, Message.argc, regs)
    BY <1>5 DEF Apply
  <2> HIDE DEF fp
  <2> QED
    BY <1>2, <1>4, <2>1, EnterOpens DEF StepInWindow, FrontStands
<1>6. CASE RunBodyOf
  <2>1. Enter(Message.args[1].n, self + 1, 0, With(regs, self, Message.recv))
    BY <1>6 DEF RunBodyOf
  <2> HIDE DEF self
  <2>2. OpensWindow /\ regs' = With(regs, self, Message.recv)
    BY <1>4, <2>1, EnterOpens
  <2>3. FrontStands
    BY <1>2, <1>3, <1>4, <2>2, WithInWindow
  <2> QED
    BY <1>2, <2>2, <2>3 DEF StepInWindow
<1>7. CASE CallDef
  <2> DEFINE m == defs[Message.name]
             rs == SortedIn(Message)
  <2>1. Enter(m, fp, Message.argc, rs) /\ IsDefined(Message)
    BY <1>7, Zenon DEF CallDef
  <2>2. \A q \in 0 .. MaxReg : q < Top.fp => rs[q] = regs[q]
    BY <1>1, <2>1, SortedInStands
  <2> HIDE DEF m, rs, fp
  <2>3. OpensWindow /\ regs' = rs
    BY <1>4, <2>1, EnterOpens
  <2> QED
    BY <1>2, <2>2, <2>3 DEF StepInWindow, FrontStands
<1> QED
  BY <1>5, <1>6, <1>7

LEMMA AnswerInWindow ==
  ASSUME MachineInv, CallDefWrongArity \/ AddMethod \/ World
  PROVE  StepInWindow
<1>1. Sending /\ frames' = frames
  BY Zenon DEF CallDefWrongArity, AddMethod, World
<1>2. /\ frames # <<>> /\ Top.fp \in Int
      /\ Message.base \in Int /\ Message.argc \in Nat /\ Message.base >= Top.fp
  BY <1>1, MessageInWindow
<1>3. SameWindows
  BY <1>1 DEF SameWindows
<1>4. FrontStands
  <2>1. CASE AddMethod
    BY <2>1 DEF AddMethod, FrontStands
  <2>3. CASE CallDefWrongArity
    <3>1. IsDefined(Message) /\ regs' = SortedIn(Message)
      BY <2>3, Zenon DEF CallDefWrongArity
    <3> QED
      BY <1>1, <3>1, SortedInStands DEF FrontStands
  <2>2. CASE World
    <3> DEFINE used == Message.base + Message.argc
    <3>1. regs' = [r \in DOMAIN regs |-> IF r > used THEN JunkV ELSE regs[r]]
      BY <2>2, Zenon DEF World
    <3>2. used \in Int /\ used >= Top.fp
      BY <1>2
    <3>3. DOMAIN regs = 0 .. MaxReg
      BY DEF MachineInv, MethodsAreThere, RegistersHold
    <3> HIDE DEF used
    <3> QED
      BY <1>2, <3>1, <3>2, <3>3 DEF FrontStands
  <2> QED
    BY <2>1, <2>2, <2>3
<1> QED
  BY <1>2, <1>3, <1>4 DEF StepInWindow

LEMMA LeaveInWindow ==
  ASSUME MachineInv, Return_ \/ LongReturn \/ RaiseOut \/ PassException \/ TakeLongReturn
  PROVE  StepInWindow
<1>1. frames # <<>> /\ \E r : Leave(r)
  BY Zenon DEF Return_, LongReturn, RaiseOut, Raising, PassException, TakeLongReturn, Returned, At,
     InCode, Running
<1>2. frames' = Front(frames) /\ regs' = regs
  BY <1>1 DEF Leave
<1> QED
  BY <1>1, <1>2 DEF StepInWindow, LeavesWindow, FrontStands

LEMMA StopInWindow ==
  ASSUME MachineInv, ReturnStops \/ RaiseStops
  PROVE  StepInWindow
<1>1. frames # <<>> /\ Stop
  BY Zenon DEF ReturnStops, RaiseStops, At, InCode, Running
<1> QED
  BY <1>1 DEF Stop, StepInWindow, ClosesWindows, FrontStands

LEMMA HandleInWindow ==
  ASSUME MachineInv, RaiseCaught \/ TakeException
  PROVE  StepInWindow
<1>1. frames # <<>> /\ Top.es # <<>> /\ \E v : Handle_(v)
  BY Zenon DEF RaiseCaught, Raising, TakeException, Returned, At, InCode, Running
<1> DEFINE h == Last(Top.es)
           f == [Top EXCEPT !.es = Front(Top.es), !.ip = h.ip]
<1>2. \E v : /\ regs' = With(regs, Top.fp + h.reg, v)
             /\ frames' = [frames EXCEPT ![Len(frames)] = f]
  BY <1>1 DEF Handle_
<1>3. Top \in Activations(code, Len(closures))
  BY <1>1, FrameOf, FramesAre DEF Top
<1>4. h.reg \in 0 .. 255
  <2> DEFINE H == [reg : 0 .. 255, ip : Nat]
  <2>1. Top.es \in Seq(H)
    BY <1>3 DEF Activations
  <2>2. h \in H
    <3> HIDE DEF H
    <3> QED
      BY <1>1, <2>1, LastOf
  <2> QED
    BY <2>2
<1>5. f.fp = Top.fp
  BY <1>3 DEF Activations
<1> HIDE DEF f, h
<1> QED
  BY <1>1, <1>2, <1>4, <1>5, TopsWindow, SetInWindow DEF StepInWindow

LEMMA TakeValueInWindow ==
  ASSUME MachineInv, TakeValue
  PROVE  StepInWindow
<1>1. /\ Returned("value") /\ regs' = With(regs, Top.fp + Arg(0), ret.v)
      /\ Go(Top.ip + Length[OpName(Insn)])
  BY DEF TakeValue, SetReg
<1>2. Here /\ IsSend(Insn) /\ frames # <<>>
  BY <1>1, BackAtSend DEF Here
<1>3. PICK op \in Plain : Insn = Op[op] /\ Length[op] >= 2
  BY <1>2, PlainOps DEF IsSend, Length
<1>4. Arg(0) \in 0 .. 255
  BY <1>2, <1>3, FirstOperand DEF Plain
<1> QED
  BY <1>1, <1>2, <1>4, GoesInWindow, SetInWindow DEF StepInWindow

LEMMA StepsInWindow ==
  ASSUME MachineInv, Next
  PROVE  StepInWindow
<1> USE DEF Next
<1> QED
  BY LoadsInWindow, StaysInWindow, LoadcInWindow, CallInWindow, AnswerInWindow,
     LeaveInWindow, StopInWindow, HandleInWindow, TakeValueInWindow

LEMMA WindowsGoOn ==
  ASSUME MachineInv, WindowsNest, [Next]_vars
  PROVE  WindowsNest'
<1>1. CASE UNCHANGED vars
  BY <1>1 DEF vars, WindowsNest
<1>2. CASE Next
  <2>1. StepInWindow
    BY <1>2, StepsInWindow
  <2>2. /\ Len(frames) \in Nat /\ DOMAIN frames = 1 .. Len(frames)
        /\ \A i \in DOMAIN frames : frames[i].fp \in Int
        /\ Len(frames) \in DOMAIN frames /\ Top.fp \in Int
        /\ Top.fp = frames[Len(frames)].fp
    BY <2>1, FramesAre DEF StepInWindow, Top
  <2>3. frames \in Seq(Activations(code, Len(closures)))
    BY DEF MachineInv, ActivationsFit
  <2>4. CASE SameWindows
    BY <2>4 DEF SameWindows, WindowsNest
  <2>5. CASE LeavesWindow
    <3>1. /\ Front(frames) \in Seq(Activations(code, Len(closures)))
          /\ Len(Front(frames)) = Len(frames) - 1
          /\ \A i \in 1 .. Len(frames) - 1 : Front(frames)[i] = frames[i]
      BY <2>1, <2>3, FrontOf DEF StepInWindow
    <3>2. DOMAIN frames' = 1 .. Len(frames) - 1 /\ \A i \in DOMAIN frames' : frames'[i] = frames[i]
      BY <2>5, <3>1, LenProperties DEF LeavesWindow
    <3>3. DOMAIN frames' \subseteq DOMAIN frames
      BY <2>2, <3>2
    <3> QED
      BY <3>2, <3>3 DEF WindowsNest
  <2>6. CASE OpensWindow
    <3>1. PICK f : frames' = Append(frames, f) /\ f.fp \in Int /\ f.fp > Top.fp
      BY <2>6 DEF OpensWindow
    <3>2. /\ DOMAIN frames' = 1 .. Len(frames) + 1
          /\ \A i \in DOMAIN frames : frames'[i] = frames[i]
          /\ frames'[Len(frames) + 1] = f
      BY <2>2, <3>1, AppendIs
    <3>3. \A i \in DOMAIN frames : frames[i].fp <= Top.fp
      BY <2>2 DEF WindowsNest
    <3> SUFFICES ASSUME NEW i \in DOMAIN frames', NEW j \in DOMAIN frames', i < j
                 PROVE  frames'[i].fp < frames'[j].fp
      BY DEF WindowsNest
    <3>4. i \in DOMAIN frames /\ (j \in DOMAIN frames \/ j = Len(frames) + 1)
      BY <2>2, <3>2
    <3>5. CASE j \in DOMAIN frames
      BY <3>2, <3>4, <3>5 DEF WindowsNest
    <3>6. CASE j = Len(frames) + 1
      <4>1. frames[i].fp <= Top.fp /\ frames[i].fp \in Int
        BY <2>2, <3>3, <3>4
      <4>2. frames'[i] = frames[i] /\ frames'[j] = f
        BY <3>2, <3>4, <3>6
      <4> QED
        BY <2>2, <3>1, <4>1, <4>2
    <3> QED
      BY <3>4, <3>5, <3>6
  <2>7. CASE ClosesWindows
    BY <2>7 DEF ClosesWindows, WindowsNest
  <2> QED
    BY <2>1, <2>4, <2>5, <2>6, <2>7 DEF StepInWindow
<1> QED
  BY <1>1, <1>2

\* Nothing that runs touches what an activation cannot reach, and what a caller
\* keeps at and below the receiver of its send.
THEOREM CallersKeepTheirRegisters == Execution => RegistersStand
<1>1. Execution => WindowsNest
  BY DEF Execution, Boot, WindowsNest
<1>2. MachineInv /\ WindowsNest /\ [Next]_vars => WindowsNest'
  BY WindowsGoOn
<1> DEFINE stands == \A i \in DOMAIN frames, r \in 0 .. MaxReg :
                       r < frames[i].fp => regs'[r] = regs[r]
<1>3. MachineInv /\ WindowsNest /\ [Next]_vars => [stands]_vars
  <2> SUFFICES ASSUME MachineInv, WindowsNest, Next, NEW i \in DOMAIN frames,
                      NEW r \in 0 .. MaxReg, r < frames[i].fp
               PROVE  regs'[r] = regs[r]
    OBVIOUS
  <2>1. FrontStands /\ frames # <<>>
    BY StepsInWindow DEF StepInWindow
  <2>2. /\ Len(frames) \in Nat /\ DOMAIN frames = 1 .. Len(frames)
        /\ frames[i].fp \in Int /\ Top.fp \in Int
        /\ Len(frames) \in DOMAIN frames /\ Top.fp = frames[Len(frames)].fp
    BY <2>1, FramesAre DEF Top
  <2>3. frames[i].fp <= Top.fp
    <3>1. i = Len(frames) \/ i < Len(frames)
      BY <2>2
    <3> QED
      BY <2>2, <3>1 DEF WindowsNest
  <2>4. r < Top.fp
    BY <2>2, <2>3, MaxRegAssumption
  <2> QED
    BY <2>1, <2>4 DEF FrontStands
<1> HIDE DEF stands
<1>4. Execution => [][stands]_vars
  BY <1>1, <1>2, <1>3, MachineIsInductive, PTL DEF Execution
<1> QED
  BY <1>4 DEF RegistersStand, stands
=============================================================================
