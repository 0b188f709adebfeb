------------------------------- MODULE Interp -------------------------------
(***************************************************************************)
(* How VM::run (vm/vm.cpp) transfers control: activations are C++ calls of *)
(* VM::run and of native functions, each returning an OOP that is a value  *)
(* or one of two unwinding kinds, and every caller decides for itself what *)
(* to do with it (check_unwind).  The program is arbitrary: at each step   *)
(* the running activation executes any instruction the compiler can emit   *)
(* there.  Registers, operands and the selection of methods are left out.  *)
(***************************************************************************)
EXTENDS Activations

VARIABLES
  stack,        \* the activations, the running one last
  closures,     \* per closure: its parent (0: the globals) and return_to
  ret,          \* what a call has just returned and its caller not yet seen
  got,          \* what the running activation has just been handed
  home          \* history: the method activation around a closure's code

vars == <<stack, closures, ret, got, home>>

None == [how |-> "none"]
Value(v) == [how |-> "value", val |-> v]
Unwinding(v) == [how |-> "exception", val |-> v]
LongReturn(v, t) == [how |-> "return", val |-> v, target |-> t]
\* LongReturn::make has come to closure t in its search.
Seeking(v, t) == [how |-> "seek", val |-> v, target |-> t]

Top == stack[Len(stack)]
Running == stack # <<>> /\ ret = None
Returned(how) == stack # <<>> /\ ret.how = how
InCode == Top.kind \in CodeKinds

-----------------------------------------------------------------------------
\* main: the file's code runs with the globals as the parent of its closure.
Init ==
  /\ stack = <<Activate("body", 1)>>
  /\ closures = <<[parent |-> 0, return_to |-> FALSE]>>
  /\ home = <<0>>
  /\ ret = None
  /\ got = Nothing

\* Faulty: the code of a method is compiled without its return_to mark.
CallCodeUnmarked ==
  \E k \in CodeKinds, c \in 1 .. Len(closures) :
    LET n == Len(closures) + 1 IN
    /\ Running /\ Len(stack) < MaxDepth /\ n <= MaxClosures
    /\ stack' = Append(stack, Activate(k, n))
    /\ closures' = Append(closures, [parent |-> c, return_to |-> FALSE])
    /\ home' = Append(home, IF k = "def" THEN n ELSE home[c])
    /\ got' = Nothing
    /\ UNCHANGED ret

\* VM::run is entered for a method LOADC made in the activation of closure c.
CallCode ==
  \E k \in CodeKinds, c \in 1 .. Len(closures) :
    LET n == Len(closures) + 1 IN
    /\ Running /\ Len(stack) < MaxDepth /\ n <= MaxClosures
    /\ stack' = Append(stack, Activate(k, n))
    /\ closures' = Append(closures, [parent |-> c, return_to |-> k = "def"])
    /\ home' = Append(home, IF k = "def" THEN n ELSE home[c])
    /\ got' = Nothing
    /\ UNCHANGED ret

\* Method::run of a native function.
CallNative ==
  /\ Running /\ Len(stack) < MaxDepth
  /\ \E k \in NativeKinds : stack' = Append(stack, Activate(k, 0))
  /\ got' = Nothing
  /\ UNCHANGED <<closures, home, ret>>

\* RET, the end of the code, or a native function's answer.
RET ==
  /\ Running
  /\ \E v \in Values : ret' = Value(v)
  /\ stack' = Pop(stack)
  /\ UNCHANGED <<closures, home, got>>

REGE ==
  /\ Running /\ InCode /\ Len(Top.es) < MaxHandlers
  /\ \E h \in Handlers :
       stack' = [stack EXCEPT ![Len(stack)].es = Append(@, h)]
  /\ got' = Nothing
  /\ UNCHANGED <<closures, home, ret>>

\* The compiler emits POPE only behind the body of a try.
POPE ==
  /\ Running /\ InCode /\ Top.es # <<>>
  /\ stack' = [stack EXCEPT ![Len(stack)] = DropHandler(@)]
  /\ got' = Nothing
  /\ UNCHANGED <<closures, home, ret>>

-----------------------------------------------------------------------------
(* Exceptions. *)

\* The last handler is popped and given control.
ResumeAtHandler(v) ==
  /\ stack' = [stack EXCEPT ![Len(stack)] = DropHandler(@)]
  /\ got' = Caught(Top.es[Len(Top.es)], v)
  /\ ret' = None
  /\ UNCHANGED <<closures, home>>

\* The activation ends and its caller gets t.
PassOn(t) ==
  /\ stack' = Pop(stack)
  /\ ret' = t
  /\ UNCHANGED <<closures, home, got>>

\* RAISE, or a call that fails before it enters anything: no such method, or
\* the wrong number of arguments.  The values are those that can be raised,
\* exceptions and strings: raising another stops the VM (Machine.RaiseStops).
RAISE ==
  /\ Running /\ InCode
  /\ \E v \in Values :
       IF Top.es # <<>> THEN ResumeAtHandler(v) ELSE PassOn(Unwinding(v))

\* A native function answers with an exception of its own.
NativeRaise ==
  /\ Running /\ Top.kind = "pass"
  /\ \E v \in Values : PassOn(Unwinding(v))

ReceiveException ==
  /\ Returned("exception") /\ InCode
  /\ IF Top.es # <<>> THEN ResumeAtHandler(ret.val) ELSE PassOn(ret)

-----------------------------------------------------------------------------
(* Returns from lambdas. *)

\* Faulty: the search follows the calls instead of the nesting of the code.
LRETFromCaller ==
  /\ Running /\ Top.kind = "lambda"
  /\ \E v \in Values : ret' = Seeking(v, stack[Len(stack) - 1].clos)
  /\ UNCHANGED <<stack, closures, home, got>>

\* LRET, which the compiler emits for a return written inside a lambda.
\* Method::return_to starts at the closure the lambda was made in.
LRET ==
  /\ Running /\ Top.kind = "lambda"
  /\ \E v \in Values : ret' = Seeking(v, closures[Top.clos].parent)
  /\ UNCHANGED <<stack, closures, home, got>>

\* Faulty: the search does not leave the closure it has come to.
SeekInPlace ==
  /\ Returned("seek") /\ ret.target # 0
  /\ IF closures[ret.target].return_to
       THEN PassOn(LongReturn(ret.val, ret.target))
       ELSE UNCHANGED vars

\* One round of the loop in Method::return_to.
Seek ==
  /\ Returned("seek") /\ ret.target # 0
  /\ IF closures[ret.target].return_to
       THEN PassOn(LongReturn(ret.val, ret.target))
       ELSE /\ ret' = Seeking(ret.val, closures[ret.target].parent)
            /\ UNCHANGED <<stack, closures, home, got>>

\* The globals have no parent: the check in Method::return_to aborts.
SeekFails ==
  /\ Returned("seek") /\ ret.target = 0
  /\ stack' = <<>> /\ ret' = None /\ got' = Aborted
  /\ UNCHANGED <<closures, home>>

\* Faulty: handlers are looked at before the kind of the unwinding.
ReceiveReturnHandlersFirst ==
  /\ Returned("return") /\ InCode
  /\ IF Top.es # <<>> THEN ResumeAtHandler(ret.val)
     ELSE IF ret.target = Top.clos THEN PassOn(Value(ret.val))
     ELSE PassOn(ret)

\* A long return is compared with the closure; handlers are not looked at.
ReceiveReturn ==
  /\ Returned("return") /\ InCode
  /\ PassOn(IF ret.target = Top.clos THEN Value(ret.val) ELSE ret)

-----------------------------------------------------------------------------
(* Values, and what native functions make of an unwinding. *)

ReceiveValue ==
  /\ Returned("value")
  /\ got' = Result(ret.val)
  /\ ret' = None
  /\ UNCHANGED <<stack, closures, home>>

\* if(t.unwind_p()) return handle(S, t);
NativePasses ==
  /\ ret.how \in {"exception", "return"}
  /\ Returned(ret.how) /\ Top.kind = "pass"
  /\ PassOn(ret)

\* true_condition_p holds of an unwinding result: the comparison goes on.
EqualGoesOn ==
  /\ ret.how \in {"exception", "return"}
  /\ Returned(ret.how) /\ Top.kind = "equal"
  /\ got' = Result(ret.val)
  /\ ret' = None
  /\ UNCHANGED <<stack, closures, home>>

\* A result of another type fails the check in as_string or int_cast; an
\* unwinding result always does.
ConvertAborts ==
  /\ stack # <<>> /\ Top.kind = "convert"
  /\ ret.how \in {"exception", "return"} \/ ret = None
  /\ stack' = <<>> /\ ret' = None /\ got' = Aborted
  /\ UNCHANGED <<closures, home>>

\* main: unwind_value checks that what is left is an exception.
EndOfMain ==
  /\ stack = <<>> /\ ret # None
  /\ got' = CASE ret.how = "value" -> Result(ret.val)
              [] ret.how = "exception" -> Uncaught(ret.val)
              [] OTHER -> Aborted
  /\ ret' = None
  /\ UNCHANGED <<stack, closures, home>>

-----------------------------------------------------------------------------
Execute ==
  CallCode \/ CallNative \/ RET \/ REGE \/ POPE \/ RAISE \/ NativeRaise \/ LRET

CheckUnwind ==
  \/ Seek \/ SeekFails
  \/ ReceiveValue \/ ReceiveException \/ ReceiveReturn
  \/ NativePasses \/ EqualGoesOn \/ ConvertAborts \/ EndOfMain

Next == Execute \/ CheckUnwind

Spec == Init /\ [][Next]_vars

\* The VM's one thread does not stop between a return and its caller.
FairSpec == Spec /\ WF_vars(CheckUnwind)
=============================================================================
