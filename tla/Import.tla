------------------------------- MODULE Import -------------------------------
(***************************************************************************)
(* Importing and loading (vm/import.cpp, vm/main.cpp): the search of the   *)
(* load path, the registry of modules and their bodies, which may import   *)
(* in turn, in circles too, raise, and rescue what they call.  Files come  *)
(* and go meanwhile.                                                       *)
(***************************************************************************)
EXTENDS Integers, Sequences

CONSTANTS
  Names,        \* what is imported: a name with its last dot made a slash
  Dirs,         \* the number of directories of the load path
  Garbled,      \* the files that do not compile
  Loaded,       \* the files that are loaded
  MaxCalls,     \* the calls a body makes, by its name
  MaxModules, MaxChanges   \* modules, and changes of files

Files == (1 .. Dirs) \X Names
Main == "__main__"
ASSUME DirsAssumption == Dirs \in Nat
ASSUME LoadedAssumption == Loaded \subseteq Files
ASSUME BoundsAssumption ==
  /\ MaxCalls \in [Names \cup {Main} -> Nat]
  /\ MaxModules \in Nat /\ MaxChanges \in Nat

VARIABLES
  present,      \* the files there are
  modules,      \* Environment::modules_: the module of each name, 0 for none
  objects,      \* the modules made: their names and how their bodies ended
  stack,        \* the imports and bodies under way, the last inside the others
  unwinding,    \* the exception that is being passed on, or "none"
  changes       \* of files so far
vars == <<present, modules, objects, stack, unwinding, changes>>

Top == stack[Len(stack)]
Below == SubSeq(stack, 1, Len(stack) - 1)
WithTop(frame) == [stack EXCEPT ![Len(stack)] = frame]
\* A frame is a call of import or load and the body it comes to run: the place it
\* has come to, its file, the module of its body, the calls the body made and
\* whether it rescues the last one; whether it leaves the registry alone; searching
\* is quiet while its files are.
Frame(name, at, dir, module, loads) ==
  [name |-> name, at |-> at, dir |-> dir, module |-> module, calls |-> 0, rescues |-> FALSE,
   loads |-> loads, quiet |-> TRUE]
Running == stack # <<>> /\ unwinding = "none"
InBody == Running /\ Top.at = "body"

\* main runs a script, or imports the command of a directory.
Init ==
  /\ present \in SUBSET Files
  /\ modules = [n \in Names |-> 0]
  /\ unwinding = "none" /\ changes = 0
  /\ \/ objects = <<[name |-> Main, state |-> "running"]>> /\ stack = <<Frame(Main, "body", 0, 1, TRUE)>>
     \/ objects = <<>> /\ \E n \in Names : stack = <<Frame(n, "find", 1, 0, FALSE)>>

-----------------------------------------------------------------------------
(* What a body does.                                                       *)

Called(rescues) == WithTop([Top EXCEPT !.calls = @ + 1, !.rescues = rescues])
CanCall == InBody /\ Top.calls < MaxCalls[Top.name]
ImportKnown(n) ==
  /\ CanCall /\ modules[n] # 0
  /\ stack' = Called(FALSE)
  /\ UNCHANGED <<present, modules, objects, unwinding, changes>>
ImportStarts(n, rescues) ==
  /\ CanCall /\ modules[n] = 0
  /\ stack' = Append(Called(rescues), Frame(n, "find", 1, 0, FALSE))
  /\ UNCHANGED <<present, modules, objects, unwinding, changes>>
Load(file, rescues) ==
  /\ CanCall /\ Len(objects) < MaxModules
  /\ stack' = Append(Called(rescues), Frame(file[2], "open", file[1], 0, TRUE))
  /\ UNCHANGED <<present, modules, objects, unwinding, changes>>

\* How a frame ends: the module of its body is left in a state.
Left(state) ==
  /\ stack' = Below
  /\ objects' = IF Top.at = "body" THEN [objects EXCEPT ![Top.module].state = state] ELSE objects
BodyEnds ==
  InBody /\ Left("done") /\ UNCHANGED <<present, modules, unwinding, changes>>
Raise ==
  /\ InBody /\ Left("failed") /\ unwinding' = "error"
  /\ UNCHANGED <<present, modules, changes>>

-----------------------------------------------------------------------------
(* What import and load do.                                                *)

Fails(error) ==
  /\ Left("failed") /\ unwinding' = error
  /\ UNCHANGED <<present, modules, changes>>
\* find_path looks at one directory after the other.
\* Faulty: the path is not emptied before the next directory is put in front.
ReadableOnce(dir, n) == dir = 1 /\ <<dir, n>> \in present
Readable(dir, n) == <<dir, n>> \in present
After(dir) == dir > Dirs
\* Faulty: the loop does not go on.
NextDirInPlace(dir) == dir
NextDir(dir) == dir + 1
Searching == Running /\ Top.at = "find"
Search ==
  /\ Searching /\ ~After(Top.dir)
  /\ stack' = IF Readable(Top.dir, Top.name) THEN WithTop([Top EXCEPT !.at = "open"])
              ELSE WithTop([Top EXCEPT !.dir = NextDir(@)])
  /\ UNCHANGED <<present, modules, objects, unwinding, changes>>
NotFound == Searching /\ After(Top.dir) /\ Fails("find")
Opening == Running /\ Top.at = "open"
NotOpened == Opening /\ <<Top.dir, Top.name>> \notin present /\ Fails("open")
NotCompiled ==
  Opening /\ <<Top.dir, Top.name>> \in present \cap Garbled /\ Fails("compile")
\* import registers the module before it runs the body, load not at all.
\* Faulty: it is not registered before it has run.
RegisteredLate(n, module) == modules
Registered(n, module) == [modules EXCEPT ![n] = module]
RunBody ==
  /\ Opening /\ <<Top.dir, Top.name>> \in present \ Garbled
  /\ objects' = Append(objects, [name |-> Top.name, state |-> "running"])
  /\ modules' = IF Top.loads THEN modules ELSE Registered(Top.name, Len(objects) + 1)
  /\ stack' = WithTop([Top EXCEPT !.at = "body", !.dir = 0, !.quiet = TRUE, !.module = Len(objects) + 1])
  /\ UNCHANGED <<present, unwinding, changes>>

\* An exception comes to the body that made the call.
\* Faulty: the registration of the failed module is taken back.
KeptUnlessFailed == [n \in Names |-> IF modules[n] = Top.module THEN 0 ELSE modules[n]]
Kept == modules
\* Faulty: the body that rescues is left all the same.
RescueAndLeave ==
  /\ unwinding # "none" /\ stack # <<>> /\ Top.rescues
  /\ unwinding' = "none" /\ stack' = Below
  /\ UNCHANGED <<present, modules, objects, changes>>
Rescue ==
  /\ unwinding # "none" /\ stack # <<>> /\ Top.rescues
  /\ unwinding' = "none"
  /\ UNCHANGED <<present, modules, objects, stack, changes>>
PassOn ==
  /\ unwinding # "none" /\ stack # <<>> /\ ~Top.rescues
  /\ Left("failed") /\ modules' = Kept
  /\ UNCHANGED <<present, unwinding, changes>>
Interpret ==
  \/ \E n \in Names : ImportKnown(n)
  \/ \E n \in Names, rescues \in BOOLEAN : ImportStarts(n, rescues)
  \/ \E file \in Loaded, rescues \in BOOLEAN : Load(file, rescues)
  \/ BodyEnds \/ Raise
  \/ Search \/ NotFound \/ NotOpened \/ NotCompiled \/ RunBody
  \/ Rescue \/ PassOn

\* Someone writes or removes a file.
Change(file) ==
  /\ stack # <<>> /\ changes < MaxChanges
  /\ present' = IF file \in present THEN present \ {file} ELSE present \cup {file}
  /\ stack' = [i \in DOMAIN stack |->
       IF stack[i].at # "body" /\ stack[i].name = file[2] THEN [stack[i] EXCEPT !.quiet = FALSE] ELSE stack[i]]
  /\ changes' = changes + 1
  /\ UNCHANGED <<modules, objects, unwinding>>

Stopped == stack = <<>> /\ UNCHANGED vars
Next == Interpret \/ (\E file \in Files : Change(file)) \/ Stopped
Spec == Init /\ [][Next]_vars /\ WF_vars(Interpret)
=============================================================================
