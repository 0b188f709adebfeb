----------------------------- MODULE ImportProps -----------------------------
(***************************************************************************)
(* What importing promises.                                                *)
(***************************************************************************)
EXTENDS Import, FiniteSets

\* A frame that runs a body has a module of its own, and one that still looks for
\* its file is inside the path; the registry names modules there are.
FrameOK(f, made) ==
  /\ f.calls \in 0 .. MaxCalls[f.name]
  /\ f.at = "body" => f.module \in DOMAIN made /\ made[f.module].name = f.name
  /\ f.at # "body" => f.name \in Names
  /\ f.at = "open" => <<f.dir, f.name>> \in Files
Frames ==
  [name : Names \cup {Main}, at : {"find", "open", "body"}, dir : 0 .. Dirs + 1, module : Nat,
   calls : Nat, rescues : BOOLEAN, loads : BOOLEAN, quiet : BOOLEAN]
Modules == [name : Names \cup {Main}, state : {"running", "done", "failed"}]
TypeOK ==
  /\ present \subseteq Files
  /\ modules \in [Names -> 0 .. Len(objects)]
  /\ objects \in Seq(Modules)
  /\ stack \in Seq(Frames) /\ \A i \in DOMAIN stack : FrameOK(stack[i], objects)
  /\ unwinding \in {"none", "find", "open", "compile", "error"} /\ changes \in 0 .. MaxChanges

\* The frames below the last are bodies, and the bodies under way are those of the
\* modules that have not ended: no exit of load, import or a body (import.cpp:46-151)
\* leaves a module behind half run and not known to be.
BodiesUnderWay ==
  /\ TypeOK
  /\ \A i \in 1 .. Len(stack) - 1 : stack[i].at = "body"
  /\ \A m \in DOMAIN objects :
       objects[m].state = "running" <=> \E i \in DOMAIN stack : stack[i].at = "body" /\ stack[i].module = m
  /\ \A i, j \in DOMAIN stack : stack[i].at = "body" /\ stack[j].at = "body" /\ i # j =>
                                  stack[i].module # stack[j].module

\* import implements ImportSpec: the body of a name runs once, in a circle, again
\* after it failed, or with load in between; what is not found leaves no trace, and
\* the body that ends is the one that began last (import.cpp:83-151).
Depth == IF stack # <<>> /\ Top.at # "body" THEN Len(stack) - 1 ELSE Len(stack)
Status == [n \in Names |-> IF modules[n] = 0 THEN "absent" ELSE objects[modules[n]].state]
UnderWay == [i \in 1 .. Depth |-> IF stack[i].loads THEN {} ELSE {stack[i].name}]
Promise == INSTANCE ImportSpec WITH status <- Status, running <- UnderWay
ImplementsImports == Promise!Spec

\* A file nobody touches is found: when all the files of a name stayed as they are
\* while it was searched for, import says that there is none only if there is none,
\* and never that it cannot be opened.
QuietFilesAreFound ==
  [][Len(stack') < Len(stack) /\ Top.quiet /\ ~Top.loads =>
       /\ unwinding' # "open" \/ unwinding # "none"
       /\ unwinding' = "find" /\ unwinding = "none" =>
            \A dir \in 1 .. Dirs : <<dir, Top.name>> \notin present]_vars

\* All the imports of a name that answer give the same module, also when its body
\* raised after others had been given it in a circle.
VARIABLE given
Step ==
  /\ Next
  /\ given' = [n \in Names |-> given[n] \cup
       (IF ImportKnown(n) THEN {modules[n]} ELSE {}) \cup
       (IF BodyEnds /\ ~Top.loads /\ Top.name = n THEN {Top.module} ELSE {})]
AnswersInit == Init /\ given = [n \in Names |-> {}]
Answers ==
  /\ AnswersInit
  /\ [][Step]_<<vars, given>> /\ WF_<<vars, given>>(Step /\ Interpret)
OneModulePerName == \A n \in Names : Cardinality(given[n]) <= 1

\* Importing ends, in circles too, as long as bodies do and load is not called for
\* ever: no import waits for one that waits for it.
Ends == <>(stack = <<>>)

\* Two names that import each other, on a path of two directories.
MCCalls == [n \in {Main, "a", "b"} |-> IF n = "b" THEN 1 ELSE 2]
MCLoaded == {<<1, "a">>}
MCGarbled == {<<1, "b">>}
=============================================================================
