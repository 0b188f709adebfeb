---------------------------- MODULE InterpProofs ----------------------------
(***************************************************************************)
(* Proofs about the control transfers of module Interp: the inductive      *)
(* invariant SoundControl, that a lambda's return seeks its home, and that *)
(* the interpreter implements module Control.                              *)
(***************************************************************************)
EXTENDS InterpProps, WellFoundedInduction, TLAPS

-----------------------------------------------------------------------------
(* Sequences. *)

LEMMA CutFacts ==
  ASSUME NEW S, NEW s \in Seq(S), NEW n \in 0 .. Len(s)
  PROVE  /\ Cut(s, n) \in Seq(S)
         /\ Len(Cut(s, n)) = n
         /\ \A j \in 1 .. n : Cut(s, n)[j] = s[j]
BY DEF Cut

LEMMA PopFacts ==
  ASSUME NEW S, NEW s \in Seq(S), s # <<>>
  PROVE  /\ Pop(s) \in Seq(S)
         /\ Len(s) \in Nat \ {0} /\ Len(Pop(s)) = Len(s) - 1
         /\ \A j \in 1 .. Len(s) - 1 : Pop(s)[j] = s[j]
<1>1. Len(s) \in Nat \ {0}
  OBVIOUS
<1> QED
  BY <1>1, CutFacts DEF Pop

LEMMA TopFacts ==
  ASSUME NEW s \in Seq(Activation), s # <<>>
  PROVE  Len(s) \in Nat \ {0} /\ s[Len(s)] \in Activation
OBVIOUS

LEMMA DropFacts ==
  ASSUME NEW f \in Activation, f.es # <<>>
  PROVE  /\ DropHandler(f) \in Activation
         /\ DropHandler(f).kind = f.kind /\ DropHandler(f).clos = f.clos
<1>1. Cut(f.es, Len(f.es) - 1) \in Seq(Handlers)
  BY PopFacts DEF Activation, Pop
<1> QED
  BY <1>1 DEF DropHandler, Activation
-----------------------------------------------------------------------------
(* The invariant. *)

\* The part of the invariant that speaks of stack s and closures cl.
StackOK(s, cl) ==
  /\ s \in Seq(Activation) /\ Len(s) <= MaxDepth
  /\ \A i \in 1 .. Len(s) :
       IF s[i].kind \in CodeKinds
         THEN /\ s[i].clos \in 1 .. Len(cl)
              /\ cl[s[i].clos].return_to <=> s[i].kind = "def"
         ELSE s[i].clos = 0 /\ s[i].es = <<>>

LEMMA StackOKIsInvariant ==
  ASSUME SoundControl PROVE StackOK(stack, closures)
BY DEF SoundControl, TypeOK, ActivationsAgree, StackOK

LEMMA PopKeepsStackOK ==
  ASSUME NEW s, NEW cl, StackOK(s, cl), s # <<>>
  PROVE  StackOK(Pop(s), cl)
<1>1. s \in Seq(Activation)
  BY DEF StackOK
<1>2. /\ Pop(s) \in Seq(Activation)
      /\ Len(s) \in Nat \ {0} /\ Len(Pop(s)) = Len(s) - 1
      /\ \A j \in 1 .. Len(s) - 1 : Pop(s)[j] = s[j]
  BY <1>1, PopFacts
<1> QED
  BY <1>2, BoundAssumption DEF StackOK

LEMMA ReplaceTopKeepsStackOK ==
  ASSUME NEW s, NEW cl, StackOK(s, cl), s # <<>>, NEW f \in Activation,
         s[Len(s)].kind \in CodeKinds,
         f.kind = s[Len(s)].kind, f.clos = s[Len(s)].clos
  PROVE  StackOK([s EXCEPT ![Len(s)] = f], cl)
<1>1. s \in Seq(Activation) /\ Len(s) \in Nat \ {0}
  BY DEF StackOK
<1> DEFINE t == [s EXCEPT ![Len(s)] = f]
<1>2. /\ t \in Seq(Activation) /\ Len(t) = Len(s)
      /\ \A j \in 1 .. Len(s) : t[j] = IF j = Len(s) THEN f ELSE s[j]
  BY <1>1
<1> HIDE DEF t
<1>3. StackOK(t, cl)
  BY <1>2, <1>1 DEF StackOK
<1> QED
  BY <1>3 DEF t

LEMMA PushKeepsStackOK ==
  ASSUME NEW s, NEW cl, StackOK(s, cl), Len(s) < MaxDepth, cl \in Seq([parent : 0 .. MaxClosures, return_to : BOOLEAN]),
         NEW k \in Kinds, NEW c \in 0 .. MaxClosures,
         IF k \in CodeKinds
           THEN c \in 1 .. Len(cl) /\ (cl[c].return_to <=> k = "def")
           ELSE c = 0
  PROVE  StackOK(Append(s, Activate(k, c)), cl)
<1> DEFINE f == Activate(k, c)
<1>1. f \in Activation /\ f.kind = k /\ f.clos = c /\ f.es = <<>>
  BY DEF Activate, Activation
<1>2. s \in Seq(Activation) /\ Len(s) \in Nat
  BY DEF StackOK
<1> HIDE DEF f
<1> DEFINE t == Append(s, f)
<1>3. /\ t \in Seq(Activation) /\ Len(t) = Len(s) + 1
      /\ \A j \in 1 .. Len(s) : t[j] = s[j]
      /\ t[Len(s) + 1] = f
  BY <1>1, <1>2
<1> HIDE DEF t
<1>4. Len(t) <= MaxDepth
  BY <1>2, <1>3, BoundAssumption
<1>5. ASSUME NEW i \in 1 .. Len(t)
      PROVE  IF t[i].kind \in CodeKinds
               THEN /\ t[i].clos \in 1 .. Len(cl)
                    /\ cl[t[i].clos].return_to <=> t[i].kind = "def"
               ELSE t[i].clos = 0 /\ t[i].es = <<>>
  <2>1. i \in 1 .. Len(s) \/ i = Len(s) + 1
    BY <1>2, <1>3
  <2>2. CASE i = Len(s) + 1
    BY <2>2, <1>1, <1>3
  <2>3. CASE i \in 1 .. Len(s)
    BY <2>3, <1>3 DEF StackOK
  <2> QED
    BY <2>1, <2>2, <2>3
<1>6. StackOK(t, cl)
  BY <1>3, <1>4, <1>5 DEF StackOK
<1> QED
  BY <1>6 DEF t, f

LEMMA MoreClosuresKeepStackOK ==
  ASSUME NEW s, NEW cl \in Seq([parent : 0 .. MaxClosures, return_to : BOOLEAN]),
         StackOK(s, cl),
         NEW c \in [parent : 0 .. MaxClosures, return_to : BOOLEAN]
  PROVE  StackOK(s, Append(cl, c))
<1> DEFINE R == [parent : 0 .. MaxClosures, return_to : BOOLEAN]
<1> HIDE DEF R
<1>1. cl \in Seq(R) /\ c \in R
  BY DEF R
<1>2. /\ Len(Append(cl, c)) = Len(cl) + 1 /\ Len(cl) \in Nat
      /\ \A j \in 1 .. Len(cl) : Append(cl, c)[j] = cl[j]
  BY <1>1
<1> QED
  BY <1>2 DEF StackOK

\* Conversely, what a step has to leave true.
LEMMA StackOKIsEnough ==
  ASSUME StackOK(stack, closures)'
  PROVE  /\ (stack \in Seq(Activation))' /\ (Len(stack) <= MaxDepth)'
         /\ ActivationsAgree'
BY DEF StackOK, ActivationsAgree

-----------------------------------------------------------------------------
(* The values a call can return. *)

Results ==
  {None} \cup {Value(v) : v \in Values} \cup {Unwinding(v) : v \in Values}
  \cup {LongReturn(v, t) : v \in Values, t \in 1 .. MaxClosures}
  \cup {Seeking(v, t) : v \in Values, t \in 0 .. MaxClosures}

LEMMA ResultKinds ==
  /\ None.how = "none"
  /\ \A v : Value(v).how = "value" /\ Value(v).val = v
  /\ \A v : Unwinding(v).how = "exception" /\ Unwinding(v).val = v
  /\ \A v, t : /\ LongReturn(v, t).how = "return" /\ LongReturn(v, t).val = v
               /\ LongReturn(v, t).target = t
  /\ \A v, t : /\ Seeking(v, t).how = "seek" /\ Seeking(v, t).val = v
               /\ Seeking(v, t).target = t
BY DEF None, Value, Unwinding, LongReturn, Seeking

LEMMA ResultFacts ==
  /\ \A v \in Values : Value(v) \in Results /\ Unwinding(v) \in Results
  /\ None \in Results
  /\ \A v \in Values : \A t \in 1 .. MaxClosures : LongReturn(v, t) \in Results
  /\ \A v \in Values : \A t \in 0 .. MaxClosures : Seeking(v, t) \in Results
BY DEF Results

LEMMA EachResult ==
  ASSUME NEW r \in Results
  PROVE  /\ r.how = "none" <=> r = None
         /\ r # None => r.val \in Values
         /\ r.how = "value" => r = Value(r.val)
         /\ r.how = "exception" => r = Unwinding(r.val)
         /\ r.how = "seek" => r.target \in 0 .. MaxClosures
         /\ r.how = "return" => /\ r.target \in 1 .. MaxClosures
                                /\ r = LongReturn(r.val, r.target)
         /\ r.how \in {"none", "value", "exception", "return", "seek"}
<1>1. CASE r = None
  BY <1>1, ResultKinds
<1>2. CASE \E v \in Values : r = Value(v)
  <2>1. PICK v \in Values : r = Value(v)
    BY <1>2
  <2> QED BY <2>1, ResultKinds
<1>3. CASE \E v \in Values : r = Unwinding(v)
  <2>1. PICK v \in Values : r = Unwinding(v)
    BY <1>3
  <2> QED BY <2>1, ResultKinds
<1>4. CASE \E v \in Values, t \in 1 .. MaxClosures : r = LongReturn(v, t)
  <2>1. PICK v \in Values, t \in 1 .. MaxClosures : r = LongReturn(v, t)
    BY <1>4
  <2> QED BY <2>1, ResultKinds
<1>5. CASE \E v \in Values, t \in 0 .. MaxClosures : r = Seeking(v, t)
  <2>1. PICK v \in Values, t \in 0 .. MaxClosures : r = Seeking(v, t)
    BY <1>5
  <2> QED BY <2>1, ResultKinds
<1> QED
  BY <1>1, <1>2, <1>3, <1>4, <1>5 DEF Results

LEMMA TypeOfRet == SoundControl => ret \in Results
BY DEF SoundControl, TypeOK, Results

-----------------------------------------------------------------------------
(* Each kind of step preserves the invariant. *)

LEMMA InitSound == Init => SoundControl
<1> SUFFICES ASSUME Init PROVE SoundControl
  OBVIOUS
<1> USE DEF Init
<1>1. TypeOK
  BY BoundAssumption, ResultFacts
  DEF TypeOK, Results, Activation, Activate, Kinds, CodeKinds
<1>2. ChainLeadsHome
  BY DEF ChainLeadsHome
<1>3. ActivationsAgree
  BY DEF ActivationsAgree, Activate, CodeKinds
<1>4. SearchIsOnTrack
  BY ResultKinds DEF SearchIsOnTrack
<1> QED
  BY <1>1, <1>2, <1>3, <1>4 DEF SoundControl

\* A step that leaves the closures alone, keeps the stack in order and
\* neither starts nor continues a search.
LEMMA SimpleStepSound ==
  ASSUME SoundControl, StackOK(stack, closures)',
         UNCHANGED <<closures, home>>, ret' \in Results, ret'.how # "seek",
         ret'.how = "return" => ret'.target <= Len(closures)
  PROVE  SoundControl'
<1>1. TypeOK'
  BY StackOKIsEnough DEF SoundControl, TypeOK, Results
<1>2. ChainLeadsHome'
  BY DEF SoundControl, ChainLeadsHome
<1>3. ActivationsAgree'
  BY StackOKIsEnough
<1>4. SearchIsOnTrack'
  BY DEF SearchIsOnTrack
<1> QED
  BY <1>1, <1>2, <1>3, <1>4 DEF SoundControl

LEMMA PassOnSound ==
  ASSUME SoundControl, stack # <<>>, NEW t \in Results, PassOn(t),
         t.how # "seek", t.how = "return" => t.target <= Len(closures)
  PROVE  SoundControl'
<1>1. StackOK(Pop(stack), closures)
  BY StackOKIsInvariant, PopKeepsStackOK
<1> QED
  BY <1>1, SimpleStepSound DEF PassOn

LEMMA ResumeAtHandlerSound ==
  ASSUME SoundControl, stack # <<>>, InCode, Top.es # <<>>,
         NEW v, ResumeAtHandler(v)
  PROVE  SoundControl'
<1>1. Top \in Activation /\ stack \in Seq(Activation)
  BY TopFacts DEF SoundControl, TypeOK, Top
<1>2. StackOK([stack EXCEPT ![Len(stack)] = DropHandler(Top)], closures)
  BY <1>1, StackOKIsInvariant, ReplaceTopKeepsStackOK, DropFacts DEF InCode, Top
<1>3. stack' = [stack EXCEPT ![Len(stack)] = DropHandler(Top)]
  BY <1>1, TopFacts DEF ResumeAtHandler, Top
<1>4. StackOK(stack, closures)'
  BY <1>2, <1>3 DEF ResumeAtHandler
<1> QED
  BY <1>4, SimpleStepSound, ResultFacts, ResultKinds DEF ResumeAtHandler

LEMMA CallCodeSound == SoundControl /\ CallCode => SoundControl'
<1> DEFINE R == [parent : 0 .. MaxClosures, return_to : BOOLEAN]
<1> SUFFICES ASSUME SoundControl,
                    NEW k \in CodeKinds, NEW c \in 1 .. Len(closures),
                    Running, Len(stack) < MaxDepth,
                    Len(closures) + 1 <= MaxClosures,
                    stack' = Append(stack, Activate(k, Len(closures) + 1)),
                    closures' = Append(closures, [parent |-> c, return_to |-> k = "def"]),
                    home' = Append(home, IF k = "def" THEN Len(closures) + 1 ELSE home[c]),
                    UNCHANGED ret
             PROVE  SoundControl'
  BY DEF CallCode
<1> DEFINE n == Len(closures) + 1
           new == [parent |-> c, return_to |-> k = "def"]
           h == IF k = "def" THEN n ELSE home[c]
<1>1. /\ closures \in Seq(R) /\ Len(closures) \in Nat
      /\ home \in Seq(0 .. MaxClosures) /\ Len(home) = Len(closures)
      /\ Len(closures) <= MaxClosures
  BY DEF SoundControl, TypeOK
<1>2. new \in R /\ new.parent = c /\ new.return_to = (k = "def")
  BY <1>1, BoundAssumption
<1>3. h \in 0 .. MaxClosures
  BY SMTT(30), <1>1, BoundAssumption
<1>4. closures' = Append(closures, new) /\ home' = Append(home, h)
  OBVIOUS
<1>5. /\ closures' \in Seq(R) /\ Len(closures') = n
      /\ \A j \in 1 .. Len(closures) : closures'[j] = closures[j]
      /\ closures'[n] = new
  <2> HIDE DEF R, new
  <2> QED BY <1>1, <1>2, <1>4
<1>6. /\ home' \in Seq(0 .. MaxClosures) /\ Len(home') = n
      /\ \A j \in 1 .. Len(home) : home'[j] = home[j]
      /\ home'[n] = h
  <2> HIDE DEF h
  <2> QED BY SMTT(30), <1>1, <1>3, <1>4
<1>7. StackOK(stack, closures)'
  <2>1. StackOK(stack, Append(closures, new))
    BY <1>1, <1>2, StackOKIsInvariant, MoreClosuresKeepStackOK
  <2>2. StackOK(stack, closures')
    BY <2>1, <1>4
  <2>3. k \in Kinds /\ n \in 0 .. MaxClosures
    BY <1>1, BoundAssumption DEF Kinds
  <2>4. n \in 1 .. Len(closures') /\ (closures'[n].return_to <=> k = "def")
    <3>1. n \in 1 .. n
      BY <1>1
    <3> HIDE DEF R, new, n
    <3> QED BY <3>1, <1>2, <1>5
  <2>5. StackOK(Append(stack, Activate(k, n)), closures')
    BY <1>5, <2>2, <2>3, <2>4, PushKeepsStackOK
  <2> QED
    BY <2>5
<1>8. TypeOK'
  <2>1. /\ (stack \in Seq(Activation) /\ Len(stack) <= MaxDepth)'
        /\ Len(closures') <= MaxClosures
    BY <1>5, <1>7 DEF StackOK
  <2>2. ret' \in {None} \cup {Value(v) : v \in Values}
               \cup {Unwinding(v) : v \in Values}
               \cup {LongReturn(v, t) : v \in Values, t \in 1 .. MaxClosures}
               \cup {Seeking(v, t) : v \in Values, t \in 0 .. MaxClosures}
    BY DEF SoundControl, TypeOK
  <2> QED
    BY <1>5, <1>6, <2>1, <2>2 DEF TypeOK
<1>9. ChainLeadsHome'
  <2> SUFFICES ASSUME NEW j \in 1 .. n
               PROVE  /\ closures'[j].parent < j
                      /\ home'[j] = IF closures'[j].return_to THEN j
                                    ELSE IF closures'[j].parent = 0 THEN 0
                                    ELSE home'[closures'[j].parent]
    BY <1>5 DEF ChainLeadsHome
  <2>1. CASE j = n
    <3>1. home'[c] = home[c]
      BY <1>1, <1>6
    <3>2. home[c] = home'[c] /\ c # 0 /\ c < n
      BY <3>1, <1>1
    <3> HIDE DEF R, new, n
    <3> QED
      BY <2>1, <3>2, <1>2, <1>5, <1>6
  <2>2. CASE j # n
    <3>1. j \in 1 .. Len(closures) /\ closures'[j] = closures[j] /\ home'[j] = home[j]
      <4> HIDE DEF R, new, h
      <4> QED BY <2>2, <1>1, <1>5, <1>6
    <3>2. /\ closures[j].parent < j
          /\ home[j] = IF closures[j].return_to THEN j
                       ELSE IF closures[j].parent = 0 THEN 0
                       ELSE home[closures[j].parent]
      BY <3>1 DEF SoundControl, ChainLeadsHome
    <3>3. closures[j].parent \in Nat
      <4>1. closures[j] \in R
        <5> HIDE DEF R
        <5> QED BY <1>1, <3>1
      <4> QED
        BY <4>1, BoundAssumption
    <3>4. closures[j].parent # 0 => home'[closures[j].parent] = home[closures[j].parent]
      BY SMTT(30), <1>1, <1>6, <3>1, <3>2, <3>3
    <3> QED
      BY <3>1, <3>2, <3>4
  <2> QED
    BY <2>1, <2>2
<1>10. SearchIsOnTrack'
  BY ResultKinds DEF Running, SearchIsOnTrack
<1> QED
  BY <1>7, <1>8, <1>9, <1>10, StackOKIsEnough DEF SoundControl

LEMMA CallNativeSound == SoundControl /\ CallNative => SoundControl'
<1> SUFFICES ASSUME SoundControl, CallNative PROVE SoundControl'
  OBVIOUS
<1>1. PICK k \in NativeKinds : stack' = Append(stack, Activate(k, 0))
  BY DEF CallNative
<1>2. k \in Kinds /\ k \notin CodeKinds /\ 0 \in 0 .. MaxClosures
  BY BoundAssumption DEF NativeKinds, CodeKinds, Kinds
<1>3. closures \in Seq([parent : 0 .. MaxClosures, return_to : BOOLEAN])
  BY DEF SoundControl, TypeOK
<1>4. StackOK(Append(stack, Activate(k, 0)), closures)
  BY <1>2, <1>3, StackOKIsInvariant, PushKeepsStackOK DEF CallNative
<1>5. StackOK(stack, closures)'
  BY <1>1, <1>4 DEF CallNative
<1> QED
  BY <1>5, SimpleStepSound, ResultFacts, ResultKinds DEF CallNative, Running

LEMMA RETSound == SoundControl /\ RET => SoundControl'
<1> SUFFICES ASSUME SoundControl, RET PROVE SoundControl'
  OBVIOUS
<1>1. PICK v \in Values : PassOn(Value(v)) /\ stack # <<>>
  BY DEF RET, PassOn, Running
<1> QED
  BY <1>1, PassOnSound, ResultFacts, ResultKinds

LEMMA REGESound == SoundControl /\ REGE => SoundControl'
<1> SUFFICES ASSUME SoundControl, REGE PROVE SoundControl'
  OBVIOUS
<1>1. PICK h \in Handlers :
        stack' = [stack EXCEPT ![Len(stack)].es = Append(@, h)]
  BY DEF REGE
<1>2. stack # <<>> /\ stack \in Seq(Activation) /\ Top \in Activation
  BY TopFacts DEF REGE, Running, SoundControl, TypeOK, Top
<1> DEFINE f == [Top EXCEPT !.es = Append(Top.es, h)]
<1>3. f \in Activation /\ f.kind = Top.kind /\ f.clos = Top.clos
  <2>1. Append(Top.es, h) \in Seq(Handlers)
    BY <1>2 DEF Activation
  <2> QED
    BY <1>2, <2>1 DEF Activation
<1>4. stack' = [stack EXCEPT ![Len(stack)] = f]
  BY <1>1, <1>2 DEF Top
<1> HIDE DEF f
<1>5. StackOK([stack EXCEPT ![Len(stack)] = f], closures)
  BY <1>2, <1>3, StackOKIsInvariant, ReplaceTopKeepsStackOK
  DEF REGE, InCode, Top
<1>6. StackOK(stack, closures)'
  BY <1>4, <1>5 DEF REGE
<1> QED
  BY <1>6, SimpleStepSound, ResultFacts, ResultKinds DEF REGE, Running

LEMMA POPESound == SoundControl /\ POPE => SoundControl'
<1> SUFFICES ASSUME SoundControl, POPE PROVE SoundControl'
  OBVIOUS
<1>1. stack # <<>> /\ stack \in Seq(Activation) /\ Top \in Activation
  BY TopFacts DEF POPE, Running, SoundControl, TypeOK, Top
<1>2. stack' = [stack EXCEPT ![Len(stack)] = DropHandler(Top)]
  BY <1>1, TopFacts DEF POPE, Top
<1>3. StackOK([stack EXCEPT ![Len(stack)] = DropHandler(Top)], closures)
  BY <1>1, StackOKIsInvariant, ReplaceTopKeepsStackOK, DropFacts
  DEF POPE, InCode, Top
<1>4. StackOK(stack, closures)'
  BY <1>2, <1>3 DEF POPE
<1> QED
  BY <1>4, SimpleStepSound, ResultFacts, ResultKinds DEF POPE, Running

LEMMA RAISESound == SoundControl /\ RAISE => SoundControl'
<1> SUFFICES ASSUME SoundControl, RAISE PROVE SoundControl'
  OBVIOUS
<1>1. stack # <<>> /\ InCode
  BY DEF RAISE, Running
<1>2. PICK v \in Values : IF Top.es # <<>> THEN ResumeAtHandler(v)
                                           ELSE PassOn(Unwinding(v))
  BY DEF RAISE
<1>3. Unwinding(v) \in Results /\ Unwinding(v).how = "exception"
  BY ResultFacts, ResultKinds
<1> QED
  BY <1>1, <1>2, <1>3, ResumeAtHandlerSound, PassOnSound

LEMMA NativeRaiseSound == SoundControl /\ NativeRaise => SoundControl'
<1> SUFFICES ASSUME SoundControl, NativeRaise PROVE SoundControl'
  OBVIOUS
<1>1. PICK v \in Values : PassOn(Unwinding(v))
  BY DEF NativeRaise
<1>2. Unwinding(v) \in Results /\ Unwinding(v).how = "exception"
  BY ResultFacts, ResultKinds
<1> QED
  BY <1>1, <1>2, PassOnSound DEF NativeRaise, Running

LEMMA ReceiveExceptionSound ==
  SoundControl /\ ReceiveException => SoundControl'
<1> SUFFICES ASSUME SoundControl, ReceiveException PROVE SoundControl'
  OBVIOUS
<1>1. stack # <<>> /\ InCode /\ ret.how = "exception" /\ ret \in Results
  BY TypeOfRet DEF ReceiveException, Returned
<1> QED
  BY <1>1, ResumeAtHandlerSound, PassOnSound DEF ReceiveException

\* A lambda's closure: it is no method's, so its home is its parent's.
LEMMA LambdaChain ==
  ASSUME SoundControl, stack # <<>>, Top.kind = "lambda"
  PROVE  /\ Top.clos \in 1 .. Len(closures)
         /\ closures[Top.clos].parent \in 0 .. Len(closures)
         /\ home[Top.clos] = IF closures[Top.clos].parent = 0 THEN 0
                             ELSE home[closures[Top.clos].parent]
<1>1. Len(stack) \in 1 .. Len(stack) /\ "lambda" \in CodeKinds
  BY TopFacts DEF SoundControl, TypeOK, CodeKinds
<1>2. Top.clos \in 1 .. Len(closures) /\ ~closures[Top.clos].return_to
  BY <1>1 DEF SoundControl, ActivationsAgree, Top
<1> DEFINE R == [parent : 0 .. MaxClosures, return_to : BOOLEAN]
<1>3. closures \in Seq(R) /\ Len(closures) \in Nat
  BY DEF SoundControl, TypeOK
<1>4. closures[Top.clos] \in R
  <2> HIDE DEF R
  <2> QED BY <1>2, <1>3
<1>5. closures[Top.clos].parent \in Nat
  BY <1>4, BoundAssumption
<1> HIDE DEF R
<1>6. /\ closures[Top.clos].parent < Top.clos
      /\ home[Top.clos] = IF closures[Top.clos].parent = 0 THEN 0
                          ELSE home[closures[Top.clos].parent]
  BY <1>2 DEF SoundControl, ChainLeadsHome
<1> QED
  BY <1>2, <1>3, <1>5, <1>6

\* A search that starts or goes on.
LEMMA SearchStepSound ==
  ASSUME SoundControl, stack # <<>>, Top.kind = "lambda",
         NEW v \in Values, NEW t \in 0 .. Len(closures),
         home[Top.clos] = (IF t = 0 THEN 0 ELSE home[t]),
         ret' = Seeking(v, t), UNCHANGED <<stack, closures, home>>
  PROVE  SoundControl'
<1>1. t \in 0 .. MaxClosures
  BY BoundAssumption DEF SoundControl, TypeOK
<1>2. TypeOK'
  <2>1. ret' \in Results
    BY <1>1, ResultFacts
  <2> QED
    BY <2>1 DEF SoundControl, TypeOK, Results
<1>3. ChainLeadsHome' /\ ActivationsAgree'
  BY DEF SoundControl, ChainLeadsHome, ActivationsAgree
<1>4. SearchIsOnTrack'
  BY <1>1, ResultKinds DEF SearchIsOnTrack, Top
<1> QED
  BY <1>2, <1>3, <1>4 DEF SoundControl

LEMMA LRETSound == SoundControl /\ LRET => SoundControl'
<1> SUFFICES ASSUME SoundControl, LRET PROVE SoundControl'
  OBVIOUS
<1>1. PICK v \in Values : ret' = Seeking(v, closures[Top.clos].parent)
  BY DEF LRET
<1>2. stack # <<>> /\ Top.kind = "lambda" /\ UNCHANGED <<stack, closures, home>>
  BY DEF LRET, Running
<1> QED
  BY <1>1, <1>2, LambdaChain, SearchStepSound

LEMMA SeekSound == SoundControl /\ Seek => SoundControl'
<1> SUFFICES ASSUME SoundControl, Seek PROVE SoundControl'
  OBVIOUS
<1>1. /\ stack # <<>> /\ ret.how = "seek" /\ ret.target # 0
      /\ ret \in Results /\ ret # None
  BY TypeOfRet, ResultKinds DEF Seek, Returned
<1>2. ret.val \in Values /\ ret.target \in 0 .. MaxClosures
  BY <1>1, EachResult
<1>3. /\ Top.kind = "lambda" /\ ret.target <= Len(closures)
      /\ home[Top.clos] = home[ret.target]
  BY <1>1 DEF SoundControl, SearchIsOnTrack
<1> DEFINE t == ret.target
           R == [parent : 0 .. MaxClosures, return_to : BOOLEAN]
<1>4. closures \in Seq(R) /\ Len(closures) \in Nat
  BY DEF SoundControl, TypeOK
<1>5. t \in 1 .. Len(closures) /\ t \in 1 .. MaxClosures
  BY <1>1, <1>2, <1>3, <1>4, BoundAssumption
<1>6. CASE closures[t].return_to
  <2>1. PassOn(LongReturn(ret.val, t))
    BY <1>6 DEF Seek
  <2>2. LongReturn(ret.val, t) \in Results
    BY <1>2, <1>5, ResultFacts
  <2> HIDE DEF t, R
  <2> QED
    BY <1>1, <1>5, <2>1, <2>2, PassOnSound, ResultKinds
<1>7. CASE ~closures[t].return_to
  <2>1. /\ ret' = Seeking(ret.val, closures[t].parent)
        /\ UNCHANGED <<stack, closures, home>>
    BY <1>7 DEF Seek
  <2>2. closures[t] \in R
    <3> HIDE DEF R, t
    <3> QED BY <1>4, <1>5
  <2>3. closures[t].parent \in Nat
    BY <2>2, BoundAssumption
  <2>4. /\ closures[t].parent < t
        /\ home[t] = IF closures[t].parent = 0 THEN 0
                     ELSE home[closures[t].parent]
    BY <1>5, <1>7 DEF SoundControl, ChainLeadsHome
  <2>5. closures[t].parent \in 0 .. Len(closures)
    BY <1>4, <1>5, <2>3, <2>4
  <2> QED
    BY <1>1, <1>2, <1>3, <2>1, <2>4, <2>5, SearchStepSound
<1> QED
  BY <1>6, <1>7

LEMMA EmptyStackOK ==
  ASSUME NEW cl PROVE StackOK(<<>>, cl)
BY BoundAssumption DEF StackOK

LEMMA StopsSound ==
  SoundControl /\ (SeekFails \/ ConvertAborts \/ EndOfMain) => SoundControl'
<1> SUFFICES ASSUME SoundControl, SeekFails \/ ConvertAborts \/ EndOfMain
             PROVE  SoundControl'
  OBVIOUS
<1>1. stack' = <<>> /\ ret' = None /\ UNCHANGED <<closures, home>>
  BY DEF SeekFails, ConvertAborts, EndOfMain
<1>2. StackOK(stack, closures)'
  BY <1>1, EmptyStackOK
<1> QED
  BY <1>1, <1>2, SimpleStepSound, ResultFacts, ResultKinds

LEMMA GoesOnSound ==
  SoundControl /\ (ReceiveValue \/ EqualGoesOn) => SoundControl'
<1> SUFFICES ASSUME SoundControl, ReceiveValue \/ EqualGoesOn
             PROVE  SoundControl'
  OBVIOUS
<1>1. ret' = None /\ UNCHANGED <<stack, closures, home>>
  BY DEF ReceiveValue, EqualGoesOn
<1>2. StackOK(stack, closures)'
  BY <1>1, StackOKIsInvariant
<1> QED
  BY <1>1, <1>2, SimpleStepSound, ResultFacts, ResultKinds

LEMMA PassesSound ==
  SoundControl /\ (ReceiveReturn \/ NativePasses) => SoundControl'
<1> SUFFICES ASSUME SoundControl, ReceiveReturn \/ NativePasses
             PROVE  SoundControl'
  OBVIOUS
<1>1. /\ stack # <<>> /\ ret \in Results
      /\ ret.how \in {"exception", "return"} /\ ret # None
  BY TypeOfRet, ResultKinds DEF ReceiveReturn, NativePasses, Returned
<1>2. ret.val \in Values
  BY <1>1, EachResult
<1>3. ret.how = "return" => ret.target <= Len(closures)
  BY DEF SoundControl, SearchIsOnTrack
<1>4. PassOn(ret) \/ PassOn(Value(ret.val))
  BY DEF ReceiveReturn, NativePasses
<1>5. PassOn(ret) => SoundControl'
  BY <1>1, <1>3, PassOnSound
<1>6. PassOn(Value(ret.val)) => SoundControl'
  BY <1>1, <1>2, PassOnSound, ResultFacts, ResultKinds
<1> QED
  BY <1>4, <1>5, <1>6

LEMMA StutterSound == SoundControl /\ UNCHANGED vars => SoundControl'
BY DEF vars, SoundControl, TypeOK, ChainLeadsHome, ActivationsAgree,
       SearchIsOnTrack, Top

\* Closures, search and activations agree in every reachable state.
THEOREM ControlIsSound == Spec => []SoundControl
<1>1. SoundControl /\ [Next]_vars => SoundControl'
  <2> SUFFICES ASSUME SoundControl, [Next]_vars PROVE SoundControl'
    OBVIOUS
  <2>1. CASE Execute
    BY <2>1, CallCodeSound, CallNativeSound, RETSound, REGESound, POPESound,
       RAISESound, NativeRaiseSound, LRETSound DEF Execute
  <2>2. CASE CheckUnwind
    BY <2>2, SeekSound, StopsSound, GoesOnSound, ReceiveExceptionSound,
       PassesSound DEF CheckUnwind
  <2>3. CASE UNCHANGED vars
    BY <2>3, StutterSound
  <2> QED
    BY <2>1, <2>2, <2>3 DEF Next
<1> QED
  BY <1>1, InitSound, PTL DEF Spec

-----------------------------------------------------------------------------
(* Returns go home. *)

LEMMA SeekIsAlone ==
  ASSUME SoundControl, ret.how = "seek", Next
  PROVE  Seek \/ SeekFails
<1>1. ret # None /\ ~Running
  BY ResultKinds DEF Running
<1>2. stack # <<>>
  BY DEF SoundControl, SearchIsOnTrack
<1>3. ~Execute
  BY <1>1 DEF Execute, CallCode, CallNative, RET, REGE, POPE, RAISE,
              NativeRaise, LRET
<1>4. /\ ~ReceiveValue /\ ~ReceiveException /\ ~ReceiveReturn
      /\ ~NativePasses /\ ~EqualGoesOn
  BY DEF ReceiveValue, ReceiveException, ReceiveReturn, NativePasses,
         EqualGoesOn, Returned
<1>5. ~ConvertAborts /\ ~EndOfMain
  BY <1>1, <1>2 DEF ConvertAborts, EndOfMain
<1> QED
  BY <1>3, <1>4, <1>5 DEF Next, CheckUnwind

\* A lambda's return seeks the method activation its code was written in.
THEOREM LambdasReturnHome == Spec => ReturnsSeekHome
<1>1. SoundControl /\ [Next]_vars
        => [ret.how = "seek" /\ ret'.how = "return"
              => ret'.target = home[Top.clos]]_vars
  <2> SUFFICES ASSUME SoundControl, Next, ret.how = "seek", ret'.how = "return"
               PROVE  ret'.target = home[Top.clos]
    BY DEF vars
  <2>1. Seek
    BY SeekIsAlone, ResultKinds DEF SeekFails
  <2>2. /\ ret' = LongReturn(ret.val, ret.target)
        /\ closures[ret.target].return_to /\ ret.target # 0
    BY <2>1, ResultKinds DEF Seek, PassOn
  <2>3. ret \in Results /\ ret.target \in 0 .. MaxClosures
    BY TypeOfRet, EachResult
  <2>4. Len(closures) \in Nat /\ ret.target \in 1 .. Len(closures)
    BY <2>2, <2>3, BoundAssumption
    DEF SoundControl, TypeOK, SearchIsOnTrack
  <2>5. home[ret.target] = ret.target
    BY <2>2, <2>4 DEF SoundControl, ChainLeadsHome
  <2>6. home[Top.clos] = home[ret.target]
    BY <2>2 DEF SoundControl, SearchIsOnTrack
  <2> QED
    BY <2>2, <2>5, <2>6, ResultKinds
<1> QED
  BY <1>1, ControlIsSound, PTL DEF Spec, ReturnsSeekHome

-----------------------------------------------------------------------------
(* The interpreter implements the language: a step of an unwinding is a *)
(* stutter, and the step that starts it is the language's whole jump. *)

-----------------------------------------------------------------------------
(* Where an unwinding stops. *)

Less == {ss \in Nat \X Nat : ss[1] < ss[2]}

LEMMA LessWF == IsWellFoundedOn(Less, Nat)
BY NatLessThanWellFounded DEF OpToRel, Less

LEMMA GreatestElement ==
  ASSUME NEW n \in Nat, NEW S, S \subseteq 0 .. n, S # {}
  PROVE  \E m \in S : \A k \in S : k <= m
<1> DEFINE T == {n - i : i \in S}
<1>1. T \subseteq Nat
  OBVIOUS
<1>2. T # {}
  OBVIOUS
<1>3. PICK x \in T : \A y \in T : ~ (<<y, x>> \in Less)
  <2> HIDE DEF T
  <2> QED BY <1>1, <1>2, LessWF, WFMin
<1>4. PICK m \in S : x = n - m
  OBVIOUS
<1>5. \A k \in S : k <= m
  <2> SUFFICES ASSUME NEW k \in S PROVE k <= m
    OBVIOUS
  <2>1. n - k \in T /\ n - k \in Nat /\ x \in Nat
    OBVIOUS
  <2>2. <<n - k, x>> \notin Less
    BY <1>3, <2>1
  <2>3. ~(n - k < x)
    BY <2>1, <2>2 DEF Less
  <2> QED BY <2>3, <1>4
<1> QED
  BY <1>5

LEMMA LandingExists ==
  ASSUME NEW s \in Seq(Activation), NEW p
  PROVE  \E i \in 0 .. Len(s) : C!IsLanding(s, p, i)
<1> DEFINE S == {0} \cup {i \in 1 .. Len(s) : C!Stops(s[i], p)}
<1>1. Len(s) \in Nat /\ S \subseteq 0 .. Len(s) /\ S # {}
  OBVIOUS
<1>2. PICK m \in S : \A k \in S : k <= m
  <2> HIDE DEF S
  <2> QED BY <1>1, GreatestElement
<1>3. m \in 0 .. Len(s) /\ (m > 0 => C!Stops(s[m], p))
  BY <1>1
<1>4. ASSUME NEW j \in m + 1 .. Len(s) PROVE ~C!Stops(s[j], p)
  <2>1. j \in 1 .. Len(s) /\ ~(j <= m)
    BY <1>3
  <2> QED
    BY <1>2, <2>1
<1> QED
  BY <1>3, <1>4 DEF C!IsLanding

LEMMA LandingUnique ==
  ASSUME NEW s \in Seq(Activation), NEW p, NEW i, NEW k,
         C!IsLanding(s, p, i), C!IsLanding(s, p, k)
  PROVE  i = k
<1>1. /\ i \in 0 .. Len(s) /\ k \in 0 .. Len(s) /\ Len(s) \in Nat
      /\ i > 0 => C!Stops(s[i], p)
      /\ k > 0 => C!Stops(s[k], p)
      /\ \A j \in i + 1 .. Len(s) : ~C!Stops(s[j], p)
      /\ \A j \in k + 1 .. Len(s) : ~C!Stops(s[j], p)
  BY DEF C!IsLanding
<1>2. ~(i < k)
  <2> SUFFICES ASSUME i < k PROVE FALSE
    OBVIOUS
  <2>1. k > 0 /\ k \in i + 1 .. Len(s)
    BY <1>1
  <2> QED
    BY <1>1, <2>1
<1>3. ~(k < i)
  <2> SUFFICES ASSUME k < i PROVE FALSE
    OBVIOUS
  <2>1. i > 0 /\ i \in k + 1 .. Len(s)
    BY <1>1
  <2> QED
    BY <1>1, <2>1
<1> QED
  BY <1>1, <1>2, <1>3

LEMMA LandingOfIs ==
  ASSUME NEW s \in Seq(Activation), NEW p, NEW i, C!IsLanding(s, p, i)
  PROVE  LandingOf(s, p) = i
<1>1. i \in 0 .. Len(s)
  BY DEF C!IsLanding
<1>2. C!IsLanding(s, p, LandingOf(s, p))
  BY <1>1 DEF LandingOf
<1> QED
  BY <1>2, LandingUnique

\* An activation that does not stop p may as well be gone.
LEMMA PassingKeepsLanding ==
  ASSUME NEW s \in Seq(Activation), s # <<>>, NEW p, NEW i,
         ~C!Stops(s[Len(s)], p), C!IsLanding(Pop(s), p, i)
  PROVE  /\ C!IsLanding(s, p, i)
         /\ C!StackAt(Pop(s), p, i) = C!StackAt(s, p, i)
         /\ C!GotAt(Pop(s), p, i) = C!GotAt(s, p, i)
<1> DEFINE t == Pop(s)
<1>1. /\ t \in Seq(Activation)
      /\ Len(s) \in Nat \ {0} /\ Len(t) = Len(s) - 1
      /\ \A j \in 1 .. Len(s) - 1 : t[j] = s[j]
  BY PopFacts
<1> HIDE DEF t
<1>2. /\ i \in 0 .. Len(t)
      /\ i > 0 => C!Stops(t[i], p)
      /\ \A j \in i + 1 .. Len(t) : ~C!Stops(t[j], p)
  BY DEF C!IsLanding, t
<1>3. i \in 0 .. Len(s) /\ (i > 0 => t[i] = s[i])
  BY <1>1, <1>2
<1>4. C!IsLanding(s, p, i)
  <2>1. ASSUME NEW j \in i + 1 .. Len(s) PROVE ~C!Stops(s[j], p)
    <3>1. CASE j = Len(s)
      BY <3>1
    <3>2. CASE j # Len(s)
      <4>1. j \in i + 1 .. Len(t) /\ t[j] = s[j]
        BY <3>2, <1>1, <1>2
      <4> QED
        BY <4>1, <1>2
    <3> QED
      BY <3>1, <3>2
  <2> QED
    BY <2>1, <1>2, <1>3 DEF C!IsLanding
<1>5. C!Cut(t, i) = C!Cut(s, i)
  BY <1>1, <1>2 DEF C!Cut
<1>6. i > 0 => C!Cut(t, i - 1) = C!Cut(s, i - 1)
  BY <1>1, <1>2 DEF C!Cut
<1>7. /\ C!StackAt(t, p, i) = C!StackAt(s, p, i)
      /\ C!GotAt(t, p, i) = C!GotAt(s, p, i)
  BY <1>3, <1>5, <1>6 DEF C!StackAt, C!GotAt
<1> QED
  BY <1>4, <1>7 DEF t

\* The language's view right after a result p that unwinds is passed on.
LEMMA PassOnView ==
  ASSUME SoundControl, stack # <<>>, NEW p, PassOn(p),
         p.how \in {"exception", "return"}, ~C!Stops(Top, p)
  PROVE  \E i \in 0 .. Len(stack) :
           /\ C!IsLanding(stack, p, i)
           /\ LandingOf(stack, p) = i
           /\ LanguageStack' = C!StackAt(stack, p, i)
           /\ LanguageGot' = C!GotAt(stack, p, i)
<1>1. stack \in Seq(Activation) /\ Pop(stack) \in Seq(Activation)
  BY PopFacts DEF SoundControl, TypeOK
<1>2. PICK i \in 0 .. Len(Pop(stack)) : C!IsLanding(Pop(stack), p, i)
  BY <1>1, LandingExists
<1>3. LandingOf(Pop(stack), p) = i
  BY <1>1, <1>2, LandingOfIs
<1>4. /\ C!IsLanding(stack, p, i)
      /\ C!StackAt(Pop(stack), p, i) = C!StackAt(stack, p, i)
      /\ C!GotAt(Pop(stack), p, i) = C!GotAt(stack, p, i)
  BY <1>1, <1>2, PassingKeepsLanding DEF Top
<1>5. LandingOf(stack, p) = i
  BY <1>1, <1>4, LandingOfIs
<1>6. ret' = p /\ stack' = Pop(stack)
  BY DEF PassOn
<1>7. i \in 0 .. Len(stack)
  BY <1>4 DEF C!IsLanding
<1> QED
  BY <1>3, <1>4, <1>5, <1>6, <1>7 DEF LanguageStack, LanguageGot, Unwinds

LEMMA LandsOnTop ==
  ASSUME NEW s \in Seq(Activation), s # <<>>, NEW p, C!Stops(s[Len(s)], p)
  PROVE  /\ Len(s) \in 1 .. Len(s) /\ C!IsLanding(s, p, Len(s))
         /\ LandingOf(s, p) = Len(s)
<1>1. C!IsLanding(s, p, Len(s))
  BY DEF C!IsLanding
<1> QED
  BY <1>1, LandingOfIs

LEMMA WholeCut ==
  ASSUME NEW s \in Seq(Activation) PROVE C!Cut(s, Len(s)) = s
BY DEF C!Cut

\* Module Control is instantiated twice, with the same operators on data.
LEMMA SameOperators ==
  ASSUME NEW s, NEW p, NEW i
  PROVE  /\ Language!IsLanding(s, p, i) <=> C!IsLanding(s, p, i)
         /\ Language!StackAt(s, p, i) = C!StackAt(s, p, i)
         /\ Language!GotAt(s, p, i) = C!GotAt(s, p, i)
<1>1. \A f : Language!Stops(f, p) <=> C!Stops(f, p)
  BY DEF Language!Stops, C!Stops, Language!Barrier, C!Barrier
<1>2. \A n : Language!Cut(s, n) = C!Cut(s, n)
  BY DEF Language!Cut, C!Cut
<1>3. \A f : Language!DropHandler(f) = C!DropHandler(f)
  BY DEF Language!DropHandler, C!DropHandler, Language!Cut, C!Cut
<1>4. Language!CodeKinds = C!CodeKinds
  BY DEF Language!CodeKinds, C!CodeKinds
<1>5. /\ \A v : Language!Result(v) = C!Result(v)
      /\ \A v : Language!Uncaught(v) = C!Uncaught(v)
      /\ \A h, v : Language!Caught(h, v) = C!Caught(h, v)
      /\ Language!Aborted = C!Aborted
  BY DEF Language!Result, C!Result, Language!Uncaught, C!Uncaught,
         Language!Caught, C!Caught, Language!Aborted, C!Aborted
<1>6. Language!IsLanding(s, p, i) <=> C!IsLanding(s, p, i)
  BY <1>1 DEF Language!IsLanding, C!IsLanding
<1>7. Language!StackAt(s, p, i) = C!StackAt(s, p, i)
  BY <1>2, <1>3, <1>4 DEF Language!StackAt, C!StackAt
<1>8. Language!GotAt(s, p, i) = C!GotAt(s, p, i)
  BY <1>4, <1>5 DEF Language!GotAt, C!GotAt
<1> QED
  BY <1>6, <1>7, <1>8

-----------------------------------------------------------------------------
(* What the view is when nothing unwinds. *)

LEMMA PlainView ==
  /\ ret = None => LanguageStack = stack /\ LanguageGot = got
  /\ ret.how = "seek" => LanguageStack = stack /\ LanguageGot = got
  /\ ret.how = "value" => LanguageStack = stack /\ LanguageGot = Result(ret.val)
BY ResultKinds DEF LanguageStack, LanguageGot, Unwinds

LEMMA PlainViewNext ==
  /\ ret' = None => LanguageStack' = stack' /\ LanguageGot' = got'
  /\ ret'.how = "seek" => LanguageStack' = stack' /\ LanguageGot' = got'
  /\ ret'.how = "value" => LanguageStack' = stack' /\ LanguageGot' = Result(ret'.val)
BY ResultKinds DEF LanguageStack, LanguageGot, Unwinds

\* What the view is when the running activation stops an unwinding.
LEMMA TopView ==
  ASSUME SoundControl, stack # <<>>, Unwinds, C!Stops(Top, ret)
  PROVE  /\ LanguageStack = C!StackAt(stack, ret, Len(stack))
         /\ LanguageGot = C!GotAt(stack, ret, Len(stack))
BY LandsOnTop DEF SoundControl, TypeOK, Top, LanguageStack, LanguageGot

LStutter == UNCHANGED <<LanguageStack, home, LanguageGot>>

-----------------------------------------------------------------------------
(* Steps of the running activation. *)

LEMMA CallCodeStep == SoundControl /\ CallCode => Language!CallCode
<1> SUFFICES ASSUME SoundControl, CallCode PROVE Language!CallCode
  OBVIOUS
<1>1. ret = None /\ ret' = None /\ stack # <<>>
  BY DEF CallCode, Running
<1>2. Len(home) = Len(closures)
  BY DEF SoundControl, TypeOK
<1>3. Language!CodeKinds = CodeKinds /\ Language!Nothing = Nothing
      /\ \A k, c : Language!Activate(k, c) = Activate(k, c)
  BY DEF Language!CodeKinds, CodeKinds, Language!Nothing, Nothing,
         Language!Activate, Activate
<1> QED
  BY <1>1, <1>2, <1>3, PlainView, PlainViewNext
  DEF CallCode, Language!CallCode, Language!Running

LEMMA CallNativeStep == SoundControl /\ CallNative => Language!CallNative
<1> SUFFICES ASSUME SoundControl, CallNative PROVE Language!CallNative
  OBVIOUS
<1>1. ret = None /\ ret' = None /\ stack # <<>>
  BY DEF CallNative, Running
<1>2. Language!NativeKinds = NativeKinds /\ Language!Nothing = Nothing
      /\ \A k, c : Language!Activate(k, c) = Activate(k, c)
  BY DEF Language!NativeKinds, NativeKinds, Language!Nothing, Nothing,
         Language!Activate, Activate
<1> QED
  BY <1>1, <1>2, PlainView, PlainViewNext
  DEF CallNative, Language!CallNative, Language!Running

LEMMA RETStep == SoundControl /\ RET => Language!Finish
<1> SUFFICES ASSUME SoundControl, RET PROVE Language!Finish
  OBVIOUS
<1>1. PICK v \in Values : ret' = Value(v)
  BY DEF RET
<1>2. ret = None /\ stack # <<>> /\ stack' = Pop(stack) /\ UNCHANGED home
  BY DEF RET, Running
<1>3. LanguageStack' = stack' /\ LanguageGot' = Result(v) /\ LanguageStack = stack
  BY <1>1, <1>2, PlainView, PlainViewNext, ResultKinds
<1>4. Language!Pop(stack) = Pop(stack) /\ Language!Result(v) = Result(v)
  BY DEF Language!Pop, Pop, Language!Cut, Cut, Language!Result, Result
<1> QED
  BY <1>2, <1>3, <1>4 DEF Language!Finish, Language!Running

LEMMA REGEStep == SoundControl /\ REGE => Language!EnterTry
<1> SUFFICES ASSUME SoundControl, REGE PROVE Language!EnterTry
  OBVIOUS
<1>1. /\ ret = None /\ ret' = None /\ stack # <<>> /\ UNCHANGED home
      /\ Top.kind \in CodeKinds /\ Len(Top.es) < MaxHandlers /\ got' = Nothing
  BY DEF REGE, Running, InCode
<1>2. Language!CodeKinds = CodeKinds /\ Language!Nothing = Nothing
  BY DEF Language!CodeKinds, CodeKinds, Language!Nothing, Nothing
<1>3. Language!Top = Top
  BY <1>1, PlainView DEF Language!Top, Top
<1> QED
  BY <1>1, <1>2, <1>3, PlainView, PlainViewNext
  DEF REGE, Language!EnterTry, Language!Running

LEMMA POPEStep == SoundControl /\ POPE => Language!LeaveTry
<1> SUFFICES ASSUME SoundControl, POPE PROVE Language!LeaveTry
  OBVIOUS
<1>1. /\ ret = None /\ ret' = None /\ stack # <<>> /\ UNCHANGED home
      /\ Top.es # <<>> /\ got' = Nothing
  BY DEF POPE, Running
<1>2. Language!Nothing = Nothing /\ \A f : Language!DropHandler(f) = DropHandler(f)
  BY DEF Language!Nothing, Nothing, Language!DropHandler, DropHandler,
         Language!Cut, Cut
<1>3. Language!Top = Top
  BY <1>1, PlainView DEF Language!Top, Top
<1> QED
  BY <1>1, <1>2, <1>3, PlainView, PlainViewNext
  DEF POPE, Language!LeaveTry, Language!Running

LEMMA SameRecords ==
  /\ \A v : Language!Exception(v) = Unwinding(v)
  /\ \A v, t : Language!Return(v, t) = LongReturn(v, t)
  /\ Language!Barrier = {"equal", "convert"} /\ Language!CodeKinds = CodeKinds
  /\ C!CodeKinds = CodeKinds /\ C!Barrier = {"equal", "convert"}
  /\ \A f : C!DropHandler(f) = DropHandler(f)
  /\ \A s, n : C!Cut(s, n) = Cut(s, n)
  /\ \A v : C!Result(v) = Result(v)
  /\ \A v : C!Uncaught(v) = Uncaught(v)
  /\ \A h, v : C!Caught(h, v) = Caught(h, v)
  /\ C!Aborted = Aborted /\ Language!Aborted = Aborted
<1>1. \A f : C!DropHandler(f) = DropHandler(f)
  BY DEF C!DropHandler, DropHandler, C!Cut, Cut
<1>2. \A s, n : C!Cut(s, n) = Cut(s, n)
  BY DEF C!Cut, Cut
<1>3. Language!CodeKinds = CodeKinds /\ C!CodeKinds = CodeKinds
  BY DEF Language!CodeKinds, CodeKinds, C!CodeKinds
<1>4. /\ \A v : Language!Exception(v) = Unwinding(v)
      /\ \A v, t : Language!Return(v, t) = LongReturn(v, t)
  BY DEF Language!Exception, Unwinding, Language!Return, LongReturn
<1>5. /\ \A v : C!Result(v) = Result(v)
      /\ \A v : C!Uncaught(v) = Uncaught(v)
      /\ \A h, v : C!Caught(h, v) = Caught(h, v)
      /\ C!Aborted = Aborted /\ Language!Aborted = Aborted
  BY DEF C!Result, Result, C!Uncaught, Uncaught, C!Caught, Caught,
         C!Aborted, Aborted, Language!Aborted
<1> QED
  BY <1>1, <1>2, <1>3, <1>4, <1>5 DEF Language!Barrier, C!Barrier

LEMMA TopIsActivation ==
  ASSUME SoundControl, stack # <<>>
  PROVE  /\ stack \in Seq(Activation) /\ Top \in Activation
         /\ Len(stack) \in Nat \ {0}
         /\ IF Top.kind \in CodeKinds
              THEN /\ Top.clos \in 1 .. Len(closures)
                   /\ closures[Top.clos].return_to <=> Top.kind = "def"
              ELSE Top.clos = 0 /\ Top.es = <<>>
<1>1. stack \in Seq(Activation) /\ Top \in Activation /\ Len(stack) \in Nat \ {0}
  BY TopFacts DEF SoundControl, TypeOK, Top
<1>2. Len(stack) \in 1 .. Len(stack)
  BY <1>1
<1> QED
  BY <1>1, <1>2 DEF SoundControl, ActivationsAgree, Top

\* What a handler is handed, and what the stack is then.
LEMMA CaughtAtTop ==
  ASSUME SoundControl, stack # <<>>, InCode, Top.es # <<>>,
         NEW p, p.how = "exception"
  PROVE  /\ C!Stops(Top, p)
         /\ C!StackAt(stack, p, Len(stack))
              = [stack EXCEPT ![Len(stack)] = DropHandler(@)]
         /\ C!GotAt(stack, p, Len(stack)) = Caught(Top.es[Len(Top.es)], p.val)
<1>1. C!Stops(Top, p)
  BY DEF C!Stops
<1>2. /\ Len(stack) > 0 /\ Top.kind \in C!CodeKinds /\ Top.kind # "equal"
      /\ C!Cut(stack, Len(stack)) = stack
  BY TopIsActivation, SameRecords, WholeCut DEF InCode, CodeKinds
<1>3. C!StackAt(stack, p, Len(stack))
        = [stack EXCEPT ![Len(stack)] = C!DropHandler(stack[Len(stack)])]
  BY <1>2 DEF C!StackAt, Top
<1>4. C!GotAt(stack, p, Len(stack)) = C!Caught(Top.es[Len(Top.es)], p.val)
  BY <1>2 DEF C!GotAt, Top
<1> QED
  BY <1>1, <1>3, <1>4, SameRecords, TopIsActivation DEF Top

\* An unwinding that starts at a running activation is the language's jump.
LEMMA JumpStarts ==
  ASSUME SoundControl, ret = None, stack # <<>>, NEW p, PassOn(p),
         p.how \in {"exception", "return"}, ~C!Stops(Top, p)
  PROVE  Language!Unwind(p)
<1>1. PICK i \in 0 .. Len(stack) :
        /\ C!IsLanding(stack, p, i)
        /\ LanguageStack' = C!StackAt(stack, p, i)
        /\ LanguageGot' = C!GotAt(stack, p, i)
  BY PassOnView
<1>2. LanguageStack = stack /\ UNCHANGED home
  BY PlainView DEF PassOn
<1> QED
  BY <1>1, <1>2, SameOperators DEF Language!Unwind

LEMMA RAISEStep == SoundControl /\ RAISE => Language!Raise
<1> SUFFICES ASSUME SoundControl, RAISE PROVE Language!Raise
  OBVIOUS
<1>1. ret = None /\ stack # <<>> /\ InCode
  BY DEF RAISE, Running
<1>2. PICK v \in Values : IF Top.es # <<>> THEN ResumeAtHandler(v)
                                           ELSE PassOn(Unwinding(v))
  BY DEF RAISE
<1> DEFINE p == Unwinding(v)
<1>3. p.how = "exception" /\ p.val = v
  BY ResultKinds
<1> HIDE DEF p
<1>4. LanguageStack = stack /\ Language!Top = Top
  BY <1>1, PlainView DEF Language!Top, Top
<1>5. ASSUME Top.es # <<>> PROVE Language!Unwind(p)
  <2>1. /\ stack' = [stack EXCEPT ![Len(stack)] = DropHandler(@)]
        /\ got' = Caught(Top.es[Len(Top.es)], v)
        /\ ret' = None /\ UNCHANGED home
    BY <1>2, <1>5 DEF ResumeAtHandler
  <2>2. /\ LanguageStack' = C!StackAt(stack, p, Len(stack))
        /\ LanguageGot' = C!GotAt(stack, p, Len(stack))
    BY <1>1, <1>3, <1>5, <2>1, CaughtAtTop, PlainViewNext
  <2>3. C!Stops(Top, p)
    BY <1>1, <1>3, <1>5, CaughtAtTop
  <2>4. C!IsLanding(stack, p, Len(stack)) /\ Len(stack) \in 0 .. Len(stack)
    BY <1>1, <2>3, LandsOnTop DEF SoundControl, TypeOK, Top
  <2> QED
    BY <1>4, <2>1, <2>2, <2>4, SameOperators DEF Language!Unwind
<1>6. ASSUME Top.es = <<>> PROVE Language!Unwind(p)
  <2>1. ~C!Stops(Top, p)
    BY <1>1, <1>3, <1>6, SameRecords DEF C!Stops, InCode, CodeKinds
  <2> QED
    BY <1>1, <1>2, <1>3, <1>6, <2>1, JumpStarts DEF p
<1>7. Language!Unwind(Language!Exception(v))
  BY <1>5, <1>6, SameRecords DEF p
<1> QED
  BY <1>1, <1>4, <1>7, SameRecords
  DEF Language!Raise, Language!Running, InCode, CodeKinds

LEMMA NativeRaiseStep == SoundControl /\ NativeRaise => Language!Raise
<1> SUFFICES ASSUME SoundControl, NativeRaise PROVE Language!Raise
  OBVIOUS
<1>1. ret = None /\ stack # <<>> /\ Top.kind = "pass"
  BY DEF NativeRaise, Running
<1>2. PICK v \in Values : PassOn(Unwinding(v))
  BY DEF NativeRaise
<1>3. Top.es = <<>>
  BY <1>1, TopIsActivation DEF CodeKinds
<1>4. ~C!Stops(Top, Unwinding(v))
  BY <1>1, <1>3, ResultKinds, SameRecords DEF C!Stops
<1>5. Language!Unwind(Unwinding(v))
  BY <1>1, <1>2, <1>4, ResultKinds, JumpStarts
<1>6. LanguageStack = stack /\ Language!Top = Top
  BY <1>1, PlainView DEF Language!Top, Top
<1> QED
  BY <1>1, <1>5, <1>6, SameRecords DEF Language!Raise, Language!Running

-----------------------------------------------------------------------------
(* Returns out of lambdas. *)

LEMMA LRETStep == SoundControl /\ LRET => LStutter
<1> SUFFICES ASSUME SoundControl, LRET PROVE LStutter
  OBVIOUS
<1>1. ret = None /\ ret'.how = "seek" /\ UNCHANGED <<stack, home, got>>
  BY ResultKinds DEF LRET, Running
<1> QED
  BY <1>1, PlainView, PlainViewNext DEF LStutter

LEMMA SeekStep ==
  SoundControl /\ Seek => Language!ReturnHome \/ LStutter
<1> SUFFICES ASSUME SoundControl, Seek PROVE Language!ReturnHome \/ LStutter
  OBVIOUS
<1>1. /\ stack # <<>> /\ ret.how = "seek" /\ ret.target # 0
      /\ ret \in Results /\ ret # None
  BY TypeOfRet, ResultKinds DEF Seek, Returned
<1>2. ret.val \in Values /\ ret.target \in 0 .. MaxClosures
  BY <1>1, EachResult
<1>3. /\ Top.kind = "lambda" /\ ret.target \in 1 .. Len(closures)
      /\ home[Top.clos] = home[ret.target]
  BY <1>1, <1>2, BoundAssumption DEF SoundControl, TypeOK, SearchIsOnTrack
<1>4. LanguageStack = stack /\ LanguageGot = got /\ Language!Top = Top
  BY <1>1, PlainView DEF Language!Top, Top
<1>5. CASE ~closures[ret.target].return_to
  <2>1. ret'.how = "seek" /\ UNCHANGED <<stack, home, got>>
    BY <1>5, ResultKinds DEF Seek
  <2> QED
    BY <1>4, <2>1, PlainViewNext DEF LStutter
<1>6. CASE closures[ret.target].return_to
  <2> DEFINE p == LongReturn(ret.val, ret.target)
  <2>1. PassOn(p)
    BY <1>6 DEF Seek
  <2>2. p.how = "return" /\ p.target = ret.target
    BY ResultKinds
  <2> HIDE DEF p
  <2>3. Top.clos # ret.target
    BY <1>1, <1>3, <1>6, TopIsActivation DEF CodeKinds
  <2>4. ~C!Stops(Top, p)
    BY <1>3, <2>2, <2>3, SameRecords DEF C!Stops
  <2>5. PICK i \in 0 .. Len(stack) :
          /\ C!IsLanding(stack, p, i)
          /\ LanguageStack' = C!StackAt(stack, p, i)
          /\ LanguageGot' = C!GotAt(stack, p, i)
    BY <1>1, <2>1, <2>2, <2>4, PassOnView
  <2>6. Language!Unwind(p)
    BY <1>4, <2>1, <2>5, SameOperators DEF Language!Unwind, PassOn
  <2>7. home[Top.clos] = ret.target /\ home[Top.clos] # 0
    BY <1>1, <1>3, <1>6 DEF SoundControl, ChainLeadsHome
  <2>8. Language!Unwind(Language!Return(ret.val, home[Top.clos]))
    BY <2>6, <2>7, SameRecords DEF p
  <2> QED
    BY <1>1, <1>2, <1>3, <1>4, <2>7, <2>8
    DEF Language!ReturnHome, Language!Running
<1> QED
  BY <1>5, <1>6

LEMMA SeekFailsStep == SoundControl /\ SeekFails => Language!Abort
<1> SUFFICES ASSUME SoundControl, SeekFails PROVE Language!Abort
  OBVIOUS
<1>1. /\ stack # <<>> /\ ret.how = "seek" /\ ret.target = 0
      /\ stack' = <<>> /\ ret' = None /\ got' = Aborted /\ UNCHANGED home
  BY DEF SeekFails, Returned
<1>2. Top.kind = "lambda" /\ home[Top.clos] = 0
  BY <1>1 DEF SoundControl, SearchIsOnTrack
<1>3. LanguageStack = stack /\ Language!Top = Top
  BY <1>1, PlainView DEF Language!Top, Top
<1> QED
  BY <1>1, <1>2, <1>3, PlainViewNext, SameRecords
  DEF Language!Abort, Language!Running

-----------------------------------------------------------------------------
(* The callers an unwinding goes through. *)

\* Passing an unwinding on does not change the language's view.
LEMMA PassOnIsStutter ==
  ASSUME SoundControl, stack # <<>>, Unwinds, PassOn(ret), ~C!Stops(Top, ret)
  PROVE  LStutter
<1>1. PICK i \in 0 .. Len(stack) :
        /\ LandingOf(stack, ret) = i
        /\ LanguageStack' = C!StackAt(stack, ret, i)
        /\ LanguageGot' = C!GotAt(stack, ret, i)
  BY PassOnView DEF Unwinds
<1> QED
  BY <1>1 DEF LStutter, LanguageStack, LanguageGot, PassOn

LEMMA ReceiveExceptionStep == SoundControl /\ ReceiveException => LStutter
<1> SUFFICES ASSUME SoundControl, ReceiveException PROVE LStutter
  OBVIOUS
<1>1. stack # <<>> /\ ret.how = "exception" /\ InCode /\ Unwinds
  BY DEF ReceiveException, Returned, Unwinds
<1>2. CASE Top.es # <<>>
  <2>1. /\ stack' = [stack EXCEPT ![Len(stack)] = DropHandler(@)]
        /\ got' = Caught(Top.es[Len(Top.es)], ret.val)
        /\ ret' = None /\ UNCHANGED home
    BY <1>2 DEF ReceiveException, ResumeAtHandler
  <2>2. C!Stops(Top, ret)
    BY <1>1, <1>2, CaughtAtTop
  <2>3. /\ LanguageStack = C!StackAt(stack, ret, Len(stack))
        /\ LanguageGot = C!GotAt(stack, ret, Len(stack))
    BY <1>1, <2>2, TopView
  <2>4. /\ C!StackAt(stack, ret, Len(stack))
             = [stack EXCEPT ![Len(stack)] = DropHandler(@)]
        /\ C!GotAt(stack, ret, Len(stack)) = Caught(Top.es[Len(Top.es)], ret.val)
    BY <1>1, <1>2, CaughtAtTop
  <2> QED
    BY <2>1, <2>3, <2>4, PlainViewNext DEF LStutter
<1>3. CASE Top.es = <<>>
  <2>1. ~C!Stops(Top, ret)
    BY <1>1, <1>3, SameRecords DEF C!Stops, InCode, CodeKinds
  <2>2. PassOn(ret)
    BY <1>3 DEF ReceiveException
  <2> QED
    BY <1>1, <2>1, <2>2, PassOnIsStutter
<1> QED
  BY <1>2, <1>3

LEMMA ReceiveReturnStep == SoundControl /\ ReceiveReturn => LStutter
<1> SUFFICES ASSUME SoundControl, ReceiveReturn PROVE LStutter
  OBVIOUS
<1>1. stack # <<>> /\ ret.how = "return" /\ InCode /\ Unwinds
  BY DEF ReceiveReturn, Returned, Unwinds
<1>2. CASE ret.target = Top.clos
  <2>1. /\ stack' = Pop(stack) /\ ret' = Value(ret.val) /\ UNCHANGED home
    BY <1>2 DEF ReceiveReturn, PassOn
  <2>2. LanguageStack' = Pop(stack) /\ LanguageGot' = Result(ret.val)
    BY <2>1, PlainViewNext, ResultKinds
  <2>3. C!Stops(Top, ret)
    BY <1>1, <1>2 DEF C!Stops
  <2>4. /\ LanguageStack = C!StackAt(stack, ret, Len(stack))
        /\ LanguageGot = C!GotAt(stack, ret, Len(stack))
    BY <1>1, <2>3, TopView
  <2>5. /\ Len(stack) > 0 /\ stack[Len(stack)].kind \in C!CodeKinds
        /\ stack[Len(stack)].kind # "equal"
    BY <1>1, TopIsActivation, SameRecords DEF InCode, CodeKinds, Top
  <2>6. C!StackAt(stack, ret, Len(stack)) = C!Cut(stack, Len(stack) - 1)
    BY <1>1, <2>5 DEF C!StackAt
  <2>7. C!GotAt(stack, ret, Len(stack)) = C!Result(ret.val)
    BY <1>1, <2>5 DEF C!GotAt
  <2> QED
    BY <2>1, <2>2, <2>4, <2>6, <2>7, SameRecords DEF LStutter, Pop
<1>3. CASE ret.target # Top.clos
  <2>1. ~C!Stops(Top, ret)
    BY <1>1, <1>3, SameRecords DEF C!Stops, InCode, CodeKinds
  <2>2. PassOn(ret)
    BY <1>3 DEF ReceiveReturn
  <2> QED
    BY <1>1, <2>1, <2>2, PassOnIsStutter
<1> QED
  BY <1>2, <1>3

LEMMA NativePassesStep == SoundControl /\ NativePasses => LStutter
<1> SUFFICES ASSUME SoundControl, NativePasses PROVE LStutter
  OBVIOUS
<1>1. stack # <<>> /\ Unwinds /\ Top.kind = "pass" /\ PassOn(ret)
  BY DEF NativePasses, Returned, Unwinds
<1>2. Top.es = <<>> /\ Top.clos = 0
  BY <1>1, TopIsActivation DEF CodeKinds
<1>3. ret.how = "return" => ret.target # 0
  BY TypeOfRet, EachResult
<1>4. ~C!Stops(Top, ret)
  BY <1>1, <1>2, <1>3, SameRecords DEF C!Stops
<1> QED
  BY <1>1, <1>4, PassOnIsStutter

LEMMA EqualGoesOnStep == SoundControl /\ EqualGoesOn => LStutter
<1> SUFFICES ASSUME SoundControl, EqualGoesOn PROVE LStutter
  OBVIOUS
<1>1. /\ stack # <<>> /\ Unwinds /\ Top.kind = "equal"
      /\ UNCHANGED <<stack, home>> /\ ret' = None /\ got' = Result(ret.val)
  BY DEF EqualGoesOn, Returned, Unwinds
<1>2. C!Stops(Top, ret)
  BY <1>1, SameRecords DEF C!Stops
<1>3. /\ LanguageStack = C!StackAt(stack, ret, Len(stack))
      /\ LanguageGot = C!GotAt(stack, ret, Len(stack))
  BY <1>1, <1>2, TopView
<1>4. /\ Len(stack) > 0 /\ stack[Len(stack)].kind = "equal"
      /\ "equal" \notin C!CodeKinds
  BY <1>1, TopIsActivation, SameRecords DEF Top, CodeKinds
<1>5. C!StackAt(stack, ret, Len(stack)) = stack
  BY <1>1, <1>4, TopIsActivation, WholeCut DEF C!StackAt
<1>6. C!GotAt(stack, ret, Len(stack)) = C!Result(ret.val)
  BY <1>4 DEF C!GotAt
<1> QED
  BY <1>1, <1>3, <1>5, <1>6, PlainViewNext, SameRecords DEF LStutter

LEMMA ConvertAbortsStep ==
  SoundControl /\ ConvertAborts => Language!Abort \/ LStutter
<1> SUFFICES ASSUME SoundControl, ConvertAborts
             PROVE  Language!Abort \/ LStutter
  OBVIOUS
<1>1. /\ stack # <<>> /\ Top.kind = "convert" /\ (Unwinds \/ ret = None)
      /\ stack' = <<>> /\ ret' = None /\ got' = Aborted /\ UNCHANGED home
  BY DEF ConvertAborts, Unwinds
<1>2. LanguageStack' = <<>> /\ LanguageGot' = Aborted
  BY <1>1, PlainViewNext
<1>3. CASE ret = None
  <2>1. LanguageStack = stack /\ Language!Top = Top
    BY <1>3, PlainView DEF Language!Top, Top
  <2> QED
    BY <1>1, <1>2, <2>1, SameRecords DEF Language!Abort, Language!Running
<1>4. CASE Unwinds
  <2>1. C!Stops(Top, ret)
    BY <1>1, SameRecords DEF C!Stops
  <2>2. /\ LanguageStack = C!StackAt(stack, ret, Len(stack))
        /\ LanguageGot = C!GotAt(stack, ret, Len(stack))
    BY <1>1, <1>4, <2>1, TopView
  <2>3. Len(stack) > 0 /\ stack[Len(stack)].kind = "convert"
    BY <1>1, TopIsActivation DEF Top
  <2>4. "convert" \notin C!CodeKinds
    BY SameRecords DEF CodeKinds
  <2>5. C!StackAt(stack, ret, Len(stack)) = <<>>
    BY <2>3, <2>4 DEF C!StackAt
  <2>6. C!GotAt(stack, ret, Len(stack)) = C!Aborted
    BY <2>3, <2>4 DEF C!GotAt
  <2> QED
    BY <1>1, <1>2, <2>2, <2>5, <2>6, SameRecords DEF LStutter
<1> QED
  BY <1>1, <1>3, <1>4

LEMMA ReceiveValueStep == SoundControl /\ ReceiveValue => LStutter
<1> SUFFICES ASSUME SoundControl, ReceiveValue PROVE LStutter
  OBVIOUS
<1>1. /\ ret.how = "value" /\ ret' = None /\ got' = Result(ret.val)
      /\ UNCHANGED <<stack, home>>
  BY DEF ReceiveValue, Returned
<1> QED
  BY <1>1, PlainView, PlainViewNext DEF LStutter

LEMMA EndOfMainStep == SoundControl /\ EndOfMain => LStutter
<1> SUFFICES ASSUME SoundControl, EndOfMain PROVE LStutter
  OBVIOUS
<1>1. /\ stack = <<>> /\ stack' = stack /\ ret' = None /\ UNCHANGED home
      /\ ret \in Results /\ ret # None
  BY TypeOfRet DEF EndOfMain
<1>2. LanguageStack' = <<>> /\ LanguageGot' = got'
  BY <1>1, PlainViewNext
<1>3. ret.how \in {"value", "exception", "return"}
  BY <1>1, EachResult DEF SoundControl, SearchIsOnTrack
<1>4. CASE ret.how = "value"
  BY <1>1, <1>2, <1>4, PlainView DEF EndOfMain, LStutter
<1>5. CASE Unwinds
  <2>1. C!IsLanding(stack, ret, 0)
    BY <1>1 DEF C!IsLanding
  <2>2. LandingOf(stack, ret) = 0
    <3>1. stack \in Seq(Activation)
      BY DEF SoundControl, TypeOK
    <3> QED
      BY <2>1, <3>1, LandingOfIs
  <2>3. C!StackAt(stack, ret, 0) = <<>>
    BY DEF C!StackAt
  <2>4. C!GotAt(stack, ret, 0) = IF ret.how = "exception"
                                   THEN C!Uncaught(ret.val) ELSE C!Aborted
    BY DEF C!GotAt
  <2>5. got' = IF ret.how = "exception" THEN Uncaught(ret.val) ELSE Aborted
    BY <1>5 DEF EndOfMain, Unwinds
  <2> QED
    BY <1>1, <1>2, <1>5, <2>2, <2>3, <2>4, <2>5, SameRecords
    DEF LStutter, LanguageStack, LanguageGot
<1> QED
  BY <1>3, <1>4, <1>5 DEF Unwinds

-----------------------------------------------------------------------------
LEMMA InitRefines == Init => Language!Init
<1> SUFFICES ASSUME Init PROVE Language!Init
  OBVIOUS
<1>1. LanguageStack = stack /\ LanguageGot = got
  BY PlainView DEF Init
<1>2. Language!Activate("body", 1) = Activate("body", 1)
      /\ Language!Nothing = Nothing
  BY DEF Language!Activate, Activate, Language!Nothing, Nothing
<1> QED
  BY <1>1, <1>2 DEF Init, Language!Init

LEMMA StepRefines ==
  SoundControl /\ [Next]_vars => [Language!Next]_(Language!vars)
<1> SUFFICES ASSUME SoundControl, [Next]_vars
             PROVE  Language!Next \/ LStutter
  BY DEF LStutter, Language!vars
<1>1. CASE Execute
  BY <1>1, CallCodeStep, CallNativeStep, RETStep, REGEStep, POPEStep, RAISEStep,
     NativeRaiseStep, LRETStep DEF Execute, Language!Next
<1>2. CASE CheckUnwind
  BY <1>2, SeekStep, SeekFailsStep, ReceiveValueStep, ReceiveExceptionStep,
     ReceiveReturnStep, NativePassesStep, EqualGoesOnStep, ConvertAbortsStep,
     EndOfMainStep DEF CheckUnwind, Language!Next
<1>3. CASE UNCHANGED vars
  BY <1>3 DEF vars, LStutter, LanguageStack, LanguageGot, Unwinds
<1> QED
  BY <1>1, <1>2, <1>3 DEF Next

\* Unwinding one C++ call at a time, with every caller deciding on its own,
\* implements the language's jumps (check_unwind, vm.cpp:154-184).
THEOREM InterpImplementsControl == Spec => ImplementsControl
<1>1. Init => Language!Init
  BY InitRefines
<1>2. SoundControl /\ [Next]_vars => [Language!Next]_(Language!vars)
  BY StepRefines
<1> QED
  BY <1>1, <1>2, ControlIsSound, PTL DEF Spec, ImplementsControl, Language!Spec
=============================================================================
