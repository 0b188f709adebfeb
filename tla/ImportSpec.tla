----------------------------- MODULE ImportSpec -----------------------------
(***************************************************************************)
(* What importing promises: the body of a module is run at most once, the  *)
(* bodies under way lie inside each other, and one that went wrong stays   *)
(* as it is.                                                               *)
(***************************************************************************)
EXTENDS Integers, Sequences

CONSTANT Names

VARIABLES
  status,   \* of each name: "absent", "running", "done" or "failed"
  running   \* the bodies under way, the last inside the others: each with the names it
            \* is the module of, one if it was imported and none if it was loaded

Init ==
  /\ status = [n \in Names |-> "absent"]
  /\ running \in {<<>>, <<{}>>}
Imports(n) ==
  /\ status[n] = "absent"
  /\ status' = [status EXCEPT ![n] = "running"]
  /\ running' = Append(running, {n})
Loads == running' = Append(running, {}) /\ UNCHANGED status
Stops(end) ==
  /\ running # <<>>
  /\ status' = [n \in Names |-> IF n \in running[Len(running)] THEN end ELSE status[n]]
  /\ running' = SubSeq(running, 1, Len(running) - 1)
Next == (\E n \in Names : Imports(n)) \/ Loads \/ (\E end \in {"done", "failed"} : Stops(end))
Spec == Init /\ [][Next]_<<status, running>>
=============================================================================
