---------------------------- MODULE InterpProps ----------------------------
(***************************************************************************)
(* What the control transfers of module Interp guarantee.                  *)
(***************************************************************************)
EXTENDS Interp

\* Every variable has its type: the state VM::run keeps per call (vm.cpp:58-82).
TypeOK ==
  /\ stack \in Seq(Activation) /\ Len(stack) <= MaxDepth
  /\ closures \in Seq([parent : 0 .. MaxClosures, return_to : BOOLEAN])
  /\ Len(closures) <= MaxClosures
  /\ home \in Seq(0 .. MaxClosures) /\ Len(home) = Len(closures)
  /\ ret \in {None} \cup {Value(v) : v \in Values}
             \cup {Unwinding(v) : v \in Values}
             \cup {LongReturn(v, t) : v \in Values, t \in 1 .. MaxClosures}
             \cup {Seeking(v, t) : v \in Values, t \in 0 .. MaxClosures}

-----------------------------------------------------------------------------
\* Walking from a closure towards its ancestors until return_to is found ends
\* at the method around the code, or at the globals if there is none.
ChainLeadsHome ==
  \A c \in 1 .. Len(closures) :
    /\ closures[c].parent < c
    /\ home[c] = IF closures[c].return_to THEN c
                 ELSE IF closures[c].parent = 0 THEN 0
                 ELSE home[closures[c].parent]

\* Only native functions have neither closure nor handlers, and only the
\* activation of a method can be returned from out of a lambda.
ActivationsAgree ==
  \A i \in 1 .. Len(stack) :
    IF stack[i].kind \in CodeKinds
      THEN /\ stack[i].clos \in 1 .. Len(closures)
           /\ closures[stack[i].clos].return_to <=> stack[i].kind = "def"
      ELSE stack[i].clos = 0 /\ stack[i].es = <<>>

\* The search of LRET, in the lambda's activation, is still on its way home.
SearchIsOnTrack ==
  /\ ret.how = "seek" =>
       /\ stack # <<>> /\ Top.kind = "lambda"
       /\ ret.target <= Len(closures)
       /\ home[Top.clos] = IF ret.target = 0 THEN 0 ELSE home[ret.target]
  /\ ret.how = "return" => ret.target <= Len(closures)

\* The inductive invariant: closures, search and activations agree on where a
\* return inside a lambda belongs (Method::return_to, method.cpp:34-42).
SoundControl ==
  TypeOK /\ ChainLeadsHome /\ ActivationsAgree /\ SearchIsOnTrack

-----------------------------------------------------------------------------
\* The language's view: while a result unwinds, the stack is already what it
\* will be when the unwinding stops.
C == INSTANCE Control

Unwinds == ret.how \in {"exception", "return"}
LandingOf(s, p) == CHOOSE i \in 0 .. Len(s) : C!IsLanding(s, p, i)

LanguageStack ==
  IF Unwinds THEN C!StackAt(stack, ret, LandingOf(stack, ret)) ELSE stack
LanguageGot ==
  IF Unwinds THEN C!GotAt(stack, ret, LandingOf(stack, ret))
  ELSE IF ret.how = "value" THEN Result(ret.val)
  ELSE got

Language == INSTANCE Control WITH stack <- LanguageStack, got <- LanguageGot

\* Unwinding one C++ call at a time, each caller deciding on its own, adds up
\* to the single jump of module Control: to the innermost handler, or out of
\* the method around the lambda, over any number of activations and native
\* calls in between (check_unwind, vm.cpp:154-184).
ImplementsControl == Language!Spec

\* The closure a lambda's return seeks is the one of the method activation
\* the lambda was written in, however deep lambdas nest and however often
\* the method is active (Method::return_to, method.cpp:34-42).
ReturnsSeekHome ==
  [][ret.how = "seek" /\ ret'.how = "return" => ret'.target = home[Top.clos]]_vars

\* An unwinding, and the search for a return's target, come to an end
\* (vm.cpp:163-172, method.cpp:36-39).
UnwindEnds == ret # None ~> ret = None

=============================================================================
