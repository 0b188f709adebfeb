---------------------------- MODULE Activations ----------------------------
(***************************************************************************)
(* What module Control and module Interp both speak of: the activations on *)
(* the stack of the VM, and what an activation is handed when it goes on.  *)
(*                                                                         *)
(* An activation is a record [kind, clos, es].  Bytecode runs as the body  *)
(* of a method ("def"), of a lambda ("lambda"), or of a class, trait or    *)
(* file ("body").  Native functions that call back into the VM differ in   *)
(* what they make of a call that unwinds:                                  *)
(*   "pass"    return it as it is (each, find_all, eval, apply, run_body,  *)
(*             import, load, new)                                          *)
(*   "equal"   look only at its truth (== of List and Tuple)               *)
(*   "convert" require a value of a certain type (puts, print, Integer.cast)*)
(***************************************************************************)
EXTENDS Integers, Sequences

CONSTANTS
  Handlers,         \* handler addresses REGE can register
  Values,           \* values returned and raised
  MaxDepth,         \* bound: activations on the stack (cInitialStack = 4096)
  MaxClosures,      \* bound: activations of bytecode created in a run
  MaxHandlers       \* bound: nested try bodies in one activation

ASSUME BoundAssumption ==
  /\ MaxDepth \in Nat /\ MaxDepth > 0
  /\ MaxClosures \in Nat /\ MaxClosures > 0
  /\ MaxHandlers \in Nat

CodeKinds == {"def", "lambda", "body"}
NativeKinds == {"pass", "equal", "convert"}
Kinds == CodeKinds \cup NativeKinds

\* clos is the number of the activation's closure, 0 for a native function;
\* es the handlers registered in it, the last one at the end.
Activation == [kind : Kinds, clos : 0 .. MaxClosures, es : Seq(Handlers)]

Activate(k, c) == [kind |-> k, clos |-> c, es |-> <<>>]

\* The lowest n activations of stack s, and all but the topmost.
Cut(s, n) == [j \in 1 .. n |-> s[j]]
Pop(s) == Cut(s, Len(s) - 1)

\* Activation f without its last handler.
DropHandler(f) == [f EXCEPT !.es = Cut(f.es, Len(f.es) - 1)]

\* What the topmost activation has just been handed.
Nothing == [how |-> "nothing"]
Result(v) == [how |-> "result", val |-> v]
Caught(h, v) == [how |-> "caught", val |-> v, handler |-> h]
\* How a program ends that does not end with a value.
Uncaught(v) == [how |-> "uncaught", val |-> v]
Aborted == [how |-> "aborted"]
=============================================================================
