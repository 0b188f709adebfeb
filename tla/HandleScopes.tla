---------------------------- MODULE HandleScopes ----------------------------
(***************************************************************************)
(* Handles (vm/handle_scope.hpp, handle_set.hpp, handle_sets.hpp): native  *)
(* code keeps objects alive in slots of arrays that the collector scans.   *)
(* A scope is opened around each native function and closed when it ends;  *)
(* the innermost scope hands out slots, and closing it frees them by       *)
(* setting the array's position back.  A full array is followed by a new   *)
(* one, which malloc may place before or behind it.                        *)
(***************************************************************************)
EXTENDS Integers, Sequences

CONSTANTS
  Places,       \* addresses at which malloc may put an array
  SetSize,      \* slots in an array (cInitialSize = 1024)
  MaxScopes,    \* bound: scopes open at a time
  MaxHandles    \* bound: handles made in one scope

\* The arrays do not overlap, and something lies between any two of them.
ASSUME PlacesAssumption ==
  /\ SetSize \in Nat \ {0} /\ MaxScopes \in Nat /\ MaxHandles \in Nat
  /\ Places \subseteq Nat
  /\ \A a, b \in Places : a < b => a + SetSize < b

VARIABLES
  sets,         \* the HandleSets, the latest last: [oops, pos]
  scopes,       \* the open HandleScopes, the innermost last: [set, old]
  handles,      \* history: per open scope the slots handed out in it
  spilled       \* history: a scope has been closed that had outgrown its array

vars == <<sets, scopes, handles, spilled>>

\* HandleSet::full_p.
Full(s) == s.pos >= s.oops + SetSize

\* HandleSets::pull: the last set, or a new one behind it if that is full.
Pulled ==
  IF sets # <<>> /\ ~Full(sets[Len(sets)])
    THEN {sets}
    ELSE {Append(sets, [oops |-> p, pos |-> p]) :
            p \in Places \ {sets[i].oops : i \in 1 .. Len(sets)}}

\* HandleSet::add, in set i of the sets ss, for the innermost scope.
AddTo(ss, i) ==
  /\ sets' = [ss EXCEPT ![i].pos = @ + 1]
  /\ handles' = [handles EXCEPT ![Len(scopes)] = Append(@, ss[i].pos)]

Top == scopes[Len(scopes)]
AllButTop(s) == [k \in 1 .. Len(s) - 1 |-> s[k]]

-----------------------------------------------------------------------------
Init == sets = <<>> /\ scopes = <<>> /\ handles = <<>> /\ spilled = FALSE

\* Faulty: the scope remembers where its array starts.
OpenAtStart ==
  /\ Len(scopes) < MaxScopes
  /\ \E ss \in Pulled :
       /\ sets' = ss
       /\ scopes' = Append(scopes, [set |-> Len(ss), old |-> ss[Len(ss)].oops])
  /\ handles' = Append(handles, <<>>)
  /\ UNCHANGED spilled

\* HandleScope's constructor.
Open ==
  /\ Len(scopes) < MaxScopes
  /\ \E ss \in Pulled :
       /\ sets' = ss
       /\ scopes' = Append(scopes, [set |-> Len(ss), old |-> ss[Len(ss)].pos])
  /\ handles' = Append(handles, <<>>)
  /\ UNCHANGED spilled

\* HandleScope::add while the scope's array has room.
Add ==
  /\ scopes # <<>> /\ Len(handles[Len(scopes)]) < MaxHandles
  /\ ~Full(sets[Top.set])
  /\ AddTo(sets, Top.set)
  /\ UNCHANGED <<scopes, spilled>>

\* HandleScope::add otherwise: set_ becomes the set pulled, old_ stays.
AddToNextSet ==
  /\ scopes # <<>> /\ Len(handles[Len(scopes)]) < MaxHandles
  /\ Full(sets[Top.set])
  /\ \E ss \in Pulled :
       /\ AddTo(ss, Len(ss))
       /\ scopes' = [scopes EXCEPT ![Len(scopes)].set = Len(ss)]
  /\ UNCHANGED spilled

\* Faulty: the array keeps its position.
CloseInPlace ==
  /\ scopes # <<>>
  /\ scopes' = AllButTop(scopes)
  /\ handles' = AllButTop(handles)
  /\ UNCHANGED <<sets, spilled>>

\* HandleScope's destructor: old_ may point into another array than set_'s.
Close ==
  /\ scopes # <<>>
  /\ sets' = [sets EXCEPT ![Top.set].pos = Top.old]
  /\ scopes' = AllButTop(scopes)
  /\ handles' = AllButTop(handles)
  /\ spilled' =
       (spilled \/ Top.old \notin sets[Top.set].oops .. sets[Top.set].oops + SetSize)

Next == Open \/ Add \/ AddToNextSet \/ Close

Spec == Init /\ [][Next]_vars
=============================================================================
