------------------------------ MODULE GCTrace ------------------------------
(***************************************************************************)
(* The tracing collector (gc.cpp, immix::GC): what a collection takes for  *)
(* reachable, and how it finds the rest from there.  Where objects lie is  *)
(* the business of module Immix; here an object's lines are in use or not. *)
(*                                                                         *)
(* A field stands for one pointer, or for one element of an array; tables  *)
(* of attributes are part of their owner, as in the code.                  *)
(***************************************************************************)
EXTENDS Naturals, Sequences, FiniteSets

CONSTANTS
  Objects,     \* pieces of memory an object may take
  Null,
  Kinds,       \* the kinds of object the program makes
  Stores,      \* bound: the fields the program sets
  RootPlaces,  \* the roots that are always scanned: globals, registers, handles, names
  MaxDepth     \* bound: activations of bytecode

ASSUME GCAssumption == Null \notin Objects /\ MaxDepth \in Nat

VARIABLES
  kind, refs,    \* of an object: what it is, and what its fields hold
  flags,         \* the mark in its GCInfo
  roots, frames, \* what the places hold; StackFrame::method and closure
  mode, mark_, mark_stack,
  lines,         \* objects whose lines are in use, or allocated since the last sweep
  revived        \* history: an object one collection missed was in sight of a later one

heap == <<kind, refs>>
marks == <<flags, mark_, mark_stack, lines>>
traceVars == <<heap, roots, frames, mode, marks, revived>>

-----------------------------------------------------------------------------
\* walk_pointers: the fields of each kind that are followed.  A raw piece (an
\* array of a table, a node of a list, the bytes of a string) leads nowhere:
\* its owner marks what is in it.
Followed ==
  [Method     |-> {"code", "scope"},
   Code       |-> {"name", "code", "strings", "codes", "args", "keywords"},
   Closure    |-> {"parent", "values"},
   Tuple      |-> {"data"},
   Class      |-> {"klass", "name", "superclass", "methods", "attributes"},
   Trait      |-> {"name", "methods", "attributes", "sends"},
   Dictionary |-> {"table"},
   List       |-> {"head", "elements"},
   Module     |-> {"klass", "attributes"},
   User       |-> {"klass", "attributes"},
   String     |-> {"data"},
   InvokeInfo |-> {"previous", "method"},
   Exception  |-> {"parent", "message", "attributes", "backtrace"},
   LongReturn |-> {"val"},
   Raw        |-> {}]

\* The pointers the same objects have and walk_pointers does not look at.
Passed ==
  [k \in DOMAIN Followed |->
     CASE k = "Method" -> {"closure"}
       [] k = "Code" -> {"file", "lines"}
       [] k = "Class" -> {"method_table", "traits"}
       [] k = "Trait" -> {"method_table"}
       [] k = "Exception" -> {"klass"}
       [] k = "LongReturn" -> {"target"}
       [] OTHER -> {}]
Fields(k) == Followed[k] \cup Passed[k]

\* What a variable can hold: a closure, for one, is only held by methods, frames
\* and closures.
Values == DOMAIN Followed \ {"Code", "Closure", "InvokeInfo", "Raw"}

\* What the constructor of an object may put in a field, and the fields that
\* can be set later: a closed-over variable, what is pushed, an attribute.
Fitting(field) ==
  CASE field \in {"code"} -> {"Code"}
    [] field \in {"method"} -> {"Method"}
    [] field \in {"closure", "target"} -> {"Closure"}
    [] field \in {"klass", "superclass"} -> {"Class"}
    [] field \in {"name", "scope", "message", "file"} -> {"String"}
    [] field \in {"backtrace", "previous"} -> {"InvokeInfo"}
    [] OTHER -> Values
ASSUME KindsAssumption == Kinds \subseteq DOMAIN Followed
Settable == {"values", "elements", "attributes", "table", "methods"} \cap Stores

Held(o, fields) == {refs[o][f] : f \in fields} \ {Null}

\* What can be come to from `first` by the given fields: no set that `first` is in
\* and that such fields do not lead out of is without it.
Closed(S, followed) == \A o \in S : Held(o, followed[kind[o]]) \subseteq S
Reach(first, followed) ==
  first \cup {o \in Objects \ first :
    \A more \in SUBSET (Objects \ (first \cup {o})) : ~Closed(first \cup more, followed)}

InPlaces == {roots[p] : p \in RootPlaces} \ {Null}
InFrames == {frames[i].method : i \in DOMAIN frames} \cup {frames[i].closure : i \in DOMAIN frames}

\* What the program can come to.
Reachable == Reach(InPlaces \cup InFrames, [k \in DOMAIN Followed |-> Fields(k)])

-----------------------------------------------------------------------------
(* The program.                                                            *)

Blank == [f \in {} |-> Null]
FirstThree == CHOOSE three \in Objects \X Objects \X Objects :
                three[1] # three[2] /\ three[1] # three[3] /\ three[2] # three[3]

\* Every program has a method of its own running, in a frame of its own.
TraceInit ==
  \E m, code, closure \in Objects :
    /\ <<m, code, closure>> = FirstThree
    /\ kind = [o \in Objects |-> IF o = m THEN "Method" ELSE IF o = code THEN "Code"
                                 ELSE IF o = closure THEN "Closure" ELSE "Raw"]
    /\ refs = [o \in Objects |-> [f \in Fields(kind[o]) |-> IF o = m /\ f = "code" THEN code ELSE Null]]
    /\ frames = <<[method |-> m, closure |-> closure]>>
    /\ lines = {m, code, closure}
    /\ roots = [p \in RootPlaces |-> Null]
    /\ flags = [o \in Objects |-> 0]
    /\ mode = "run" /\ mark_ = 1 /\ mark_stack = {} /\ revived = FALSE

\* GC::allocate: memory that is free and that nothing the program can come to is
\* still in (one piece is like another); new(addr) GCInfo clears the mark.
Free(known) == Objects \ (lines \cup known)
FirstFree(o, known) == o \in Free(known) /\ o = CHOOSE free \in Free(known) : TRUE
Allocated(o, k, fields) ==
  /\ kind' = [kind EXCEPT ![o] = k]
  /\ refs' = [refs EXCEPT ![o] = fields]
  /\ flags' = [flags EXCEPT ![o] = 0]
  /\ lines' = lines \cup {o}
  /\ UNCHANGED <<mode, mark_, mark_stack, revived>>

GivenFields(k, known) ==
  LET fit(f) == {v \in known : kind[v] \in Fitting(f)} \cup {Null}
  IN {fields \in [Fields(k) -> known \cup {Null}] : \A f \in Fields(k) : fields[f] \in fit(f)}
NewObject(o, k, p, known) ==
  /\ mode = "run" /\ FirstFree(o, known)
  /\ \E fields \in GivenFields(k, known) : Allocated(o, k, fields)
  /\ roots' = [roots EXCEPT ![p] = o]
  /\ UNCHANGED frames

\* A variable, an element or an attribute is set.
Store(o, f, value) ==
  /\ mode = "run"
  /\ refs' = [refs EXCEPT ![o][f] = value]
  /\ UNCHANGED <<kind, roots, frames, mode, marks, revived>>

\* A register, a global or a handle is given a value, or loses the one it has.
Load(p, value) ==
  /\ mode = "run"
  /\ roots' = [roots EXCEPT ![p] = value]
  /\ UNCHANGED <<heap, frames, mode, marks, revived>>

\* VM::run: a frame, and a closure of its own for the method's variables.
Run(m, o, known) ==
  /\ mode = "run" /\ Len(frames) < MaxDepth /\ FirstFree(o, known)
  /\ kind[m] = "Method" /\ refs[m]["code"] # Null
  /\ Allocated(o, "Closure", [parent |-> refs[m]["closure"], values |-> Null])
  /\ frames' = Append(frames, [method |-> m, closure |-> o])
  /\ UNCHANGED roots

Leave ==
  /\ mode = "run" /\ Len(frames) > 1
  /\ frames' = SubSeq(frames, 1, Len(frames) - 1)
  /\ UNCHANGED <<heap, roots, mode, marks, revived>>

Program ==
  \E known \in {Reachable} : \E values \in {{v \in known : kind[v] \in Values} \cup {Null}} :
    \/ \E o \in Objects, k \in Kinds, p \in RootPlaces : NewObject(o, k, p, known)
    \/ \E o \in known, v \in values : \E f \in Settable \cap Fields(kind[o]) : Store(o, f, v)
    \/ \E p \in RootPlaces, v \in values : Load(p, v)
    \/ \E m \in known, o \in Objects : Run(m, o, known)
    \/ Leave

-----------------------------------------------------------------------------
(* A collection.  The order of the mark stack makes no difference, and an   *)
(* object is on it once: the stack is a set.                               *)

\* sf goes down from the first frame while it is not below the last: it takes
\* the one frame of a program with one, and none of a program with more.
InLastFrames == IF Len(frames) = 1 THEN InFrames ELSE {}
RootsScanned == InPlaces \cup InLastFrames

\* What the collector can come to.
Seen == Reach(RootsScanned, Followed)

\* Faulty: an object is pushed whenever it is met.
PushedAgain(found) == found
\* Faulty: the mark of the sweep before the last one is good enough.
PushedUnmarked(found) == {o \in found : flags[o] = 0}
Pushed(found) == {o \in found : flags[o] # mark_}

\* mark_object: the lines of the object are marked however often it is met; it is
\* marked, and pushed, once.
MarkObjects(found, before, stack) ==
  /\ lines' = before \cup found
  /\ flags' = [o \in Objects |-> IF o \in Pushed(found) THEN mark_ ELSE flags[o]]
  /\ mark_stack' = stack \cup Pushed(found)

\* A backward jump finds that a collection is due.
Collect ==
  /\ mode = "run" /\ frames # <<>>
  /\ MarkObjects(RootsScanned, {}, {})
  /\ mode' = "mark"
  /\ revived' = (revived \/ ~(Seen \subseteq lines))
  /\ UNCHANGED <<heap, roots, frames, mark_>>

Walk(o) ==
  /\ mode = "mark" /\ kind[o] # "Code"
  /\ MarkObjects(Held(o, Followed[kind[o]]), lines, mark_stack \ {o})
  /\ UNCHANGED <<heap, roots, frames, mode, mark_, revived>>

\* mark_ltuple asks whether the tuple has elements and not whether there is one
\* more: it goes on past the last, and args has one always.  What it reads there
\* is taken for a pointer until one is not in any chunk.
WalkCode(o) ==
  /\ mode = "mark" /\ kind[o] = "Code"
  /\ mode' = "aborted"
  /\ UNCHANGED <<heap, roots, frames, marks, revived>>

\* Faulty: the next collection uses the same mark.
NextMarkSame == mark_
NextMark == IF mark_ = 1 THEN 2 ELSE 1

\* The end of collect().  Memory in no used line that the program cannot come to
\* is as good as new.
Sweep ==
  LET gone == Objects \ (lines \cup Reachable) IN
  /\ mode = "mark" /\ mark_stack = {}
  /\ mode' = "run"
  /\ mark_' = NextMark
  /\ kind' = [o \in Objects |-> IF o \in gone THEN "Raw" ELSE kind[o]]
  /\ refs' = [o \in Objects |-> IF o \in gone THEN Blank ELSE refs[o]]
  /\ flags' = [o \in Objects |-> IF o \in gone THEN 0 ELSE flags[o]]
  /\ UNCHANGED <<roots, frames, mark_stack, lines, revived>>

Collection ==
  \/ \E o \in mark_stack : Walk(o) \/ WalkCode(o)
  \/ Sweep

TraceNext == Program \/ Collect \/ Collection

\* The collector has the only thread.
TraceSpec == TraceInit /\ [][TraceNext]_traceVars /\ WF_traceVars(Collection)
-----------------------------------------------------------------------------
(* What a collection promises about what it can see.                       *)
\* A collection that comes to its end has kept what can be come to from the places
\* it scans, by the fields it follows, and nothing else: objects are marked once and
\* not again, met or not met before, whatever marks earlier collections left in them
\* (mark_object, gc.cpp:215-230; collect, 531).  An object that a collection missed,
\* and the program put back in sight, may carry the mark of now from two
\* collections ago: from then on nothing is said.
KeepsWhatItSees ==
  [][mode = "mark" /\ mode' = "run" /\ ~revived => lines = Seen]_traceVars

\* A collection ends, on circles of objects too.
CollectionEnds == mode = "mark" ~> mode # "mark"

\* Every address the collector takes for an object is in one of the chunks
\* (check(gc_.allocated_address(addr)), gc.cpp:220).
OnlyMeetsObjects == mode # "aborted"
=============================================================================
