------------------------------ MODULE HeapSpec ------------------------------
(***************************************************************************)
(* What the VM expects of its heap, whatever manages it: memory handed out *)
(* for a request is as large as asked for and shares no byte with an       *)
(* object that can still be reached, and a reachable object stays where it *)
(* is until the program drops it.  Garbage collection does not appear at   *)
(* all: seen from here it is a stuttering step.                            *)
(***************************************************************************)
EXTENDS ImmixLayout

CONSTANTS
  Blocks,       \* the blocks memory can come from
  Requests      \* body sizes the program asks for

VARIABLES
  live,         \* the objects the program can still reach
  req           \* bytes asked for, header included; 0 when nothing is pending

vars == <<live, req>>

Objects == [blk : Blocks, at : 0 .. BlockSize, size : Requests]

Init == live = {} /\ req = 0

Ask ==
  /\ req = 0
  /\ req' \in {n + HeaderSize : n \in Requests}
  /\ UNCHANGED live

Grant ==
  \E o \in Objects :
    /\ req = HeaderSize + o.size
    /\ End(o) <= BlockSize
    /\ \A p \in live : p.blk = o.blk => Apart(p.at, End(p), o.at, End(o))
    /\ live' = live \cup {o}
    /\ req' = 0

Drop ==
  /\ req = 0
  /\ \E o \in live : live' = live \ {o}
  /\ UNCHANGED req

Next == Ask \/ Grant \/ Drop

Spec == Init /\ [][Next]_vars
=============================================================================
