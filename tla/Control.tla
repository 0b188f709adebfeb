------------------------------ MODULE Control ------------------------------
(***************************************************************************)
(* Non-local control as the language promises it, each transfer a single   *)
(* step: an exception goes on at the innermost handler registered, a       *)
(* return inside a lambda ends the method the lambda was written in, and   *)
(* neither leaves anything above it on the stack or touches what is below. *)
(* A native comparison or conversion in between is where both stop short.  *)
(***************************************************************************)
EXTENDS Activations

VARIABLES
  stack,        \* the activations, the running one last
  home,         \* per closure: the method activation its code returns from
  got           \* what the running activation has just been handed

vars == <<stack, home, got>>

\* Native functions at which an unwinding ends.
Barrier == {"equal", "convert"}

\* An exception p, or a return p to the activation p.target, stops at f.
Stops(f, p) ==
  \/ f.kind \in Barrier
  \/ p.how = "exception" /\ f.es # <<>>
  \/ p.how = "return" /\ f.clos = p.target

\* Activation i of stack s is where p stops; 0 if nothing stops it.
IsLanding(s, p, i) ==
  /\ i \in 0 .. Len(s)
  /\ i > 0 => Stops(s[i], p)
  /\ \A j \in i + 1 .. Len(s) : ~Stops(s[j], p)

\* The stack once p has stopped at i, and what its top is handed.
StackAt(s, p, i) ==
  CASE i > 0 /\ s[i].kind = "equal" -> Cut(s, i)
    [] i > 0 /\ s[i].kind \in CodeKinds /\ p.how = "exception" ->
         [Cut(s, i) EXCEPT ![i] = DropHandler(s[i])]
    [] i > 0 /\ s[i].kind \in CodeKinds /\ p.how = "return" -> Cut(s, i - 1)
    [] OTHER -> <<>>

GotAt(s, p, i) ==
  CASE i > 0 /\ s[i].kind = "equal" -> Result(p.val)
    [] i > 0 /\ s[i].kind \in CodeKinds /\ p.how = "exception" ->
         Caught(s[i].es[Len(s[i].es)], p.val)
    [] i > 0 /\ s[i].kind \in CodeKinds /\ p.how = "return" -> Result(p.val)
    [] i = 0 /\ p.how = "exception" -> Uncaught(p.val)
    [] OTHER -> Aborted

Exception(v) == [how |-> "exception", val |-> v]
Return(v, t) == [how |-> "return", val |-> v, target |-> t]

-----------------------------------------------------------------------------
Top == stack[Len(stack)]
Running == stack # <<>>

Init ==
  /\ stack = <<Activate("body", 1)>>
  /\ home = <<0>>
  /\ got = Nothing

\* Code written in activation c is called.
CallCode ==
  \E k \in CodeKinds, c \in 1 .. Len(home) :
    LET n == Len(home) + 1 IN
    /\ Running /\ Len(stack) < MaxDepth /\ n <= MaxClosures
    /\ stack' = Append(stack, Activate(k, n))
    /\ home' = Append(home, IF k = "def" THEN n ELSE home[c])
    /\ got' = Nothing

CallNative ==
  /\ Running /\ Len(stack) < MaxDepth
  /\ \E k \in NativeKinds : stack' = Append(stack, Activate(k, 0))
  /\ got' = Nothing
  /\ UNCHANGED home

Finish ==
  /\ Running
  /\ stack' = Pop(stack)
  /\ \E v \in Values : got' = Result(v)
  /\ UNCHANGED home

EnterTry ==
  /\ Running /\ Top.kind \in CodeKinds /\ Len(Top.es) < MaxHandlers
  /\ \E h \in Handlers :
       stack' = [stack EXCEPT ![Len(stack)].es = Append(@, h)]
  /\ got' = Nothing
  /\ UNCHANGED home

LeaveTry ==
  /\ Running /\ Top.es # <<>>
  /\ stack' = [stack EXCEPT ![Len(stack)] = DropHandler(@)]
  /\ got' = Nothing
  /\ UNCHANGED home

Unwind(p) ==
  \E i \in 0 .. Len(stack) :
    /\ IsLanding(stack, p, i)
    /\ stack' = StackAt(stack, p, i)
    /\ got' = GotAt(stack, p, i)
    /\ UNCHANGED home

Raise ==
  /\ Running /\ Top.kind \notin Barrier
  /\ \E v \in Values : Unwind(Exception(v))

ReturnHome ==
  /\ Running /\ Top.kind = "lambda" /\ home[Top.clos] # 0
  /\ \E v \in Values : Unwind(Return(v, home[Top.clos]))

\* A return with no method around it, or a conversion to the wrong type.
Abort ==
  /\ Running
  /\ Top.kind = "convert" \/ (Top.kind = "lambda" /\ home[Top.clos] = 0)
  /\ stack' = <<>> /\ got' = Aborted
  /\ UNCHANGED home

Next ==
  \/ CallCode \/ CallNative \/ Finish \/ EnterTry \/ LeaveTry
  \/ Raise \/ ReturnHome \/ Abort

Spec == Init /\ [][Next]_vars
=============================================================================
