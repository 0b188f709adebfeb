------------------------------- MODULE Classes -------------------------------
(***************************************************************************)
(* Classes, metaclasses and traits (vm/class.cpp, vm/trait.cpp,            *)
(* vm/environment.cpp) over their method tables: the builtin methods a     *)
(* program calls on them, one action each, and `uses` one trait method at  *)
(* a time.                                                                 *)
(***************************************************************************)
EXTENDS Tables, Chains, TLC

CONSTANTS
  ClassNames,              \* those given to new_subclass
  Needs,                   \* the sets of names a trait can send
  MaxMade, MaxTraits, MaxBodies, MaxUses  \* bounds of the instance

VARIABLES
  super, klass,   \* superclass_ and klass_ of each class, 0 for none
  table,          \* method_table_ of each class
  used,           \* traits_ of each class
  traits,         \* each with its method_table_ and sends_
  top,            \* the attributes of the module `lang`: name -> class
  bodies,         \* the classes whose run_body is under way, the last inside the others
  using,          \* class, trait and iterator of the uses_trait under way
  outcome,        \* what the last call answered
  mode            \* "running", "aborted" by check, or reading "behind" an array
vars == <<super, klass, table, used, traits, top, bodies, using, outcome, mode>>

ASSUME NeedsAssumption == Needs \subseteq SUBSET Keys
ASSUME BuiltinAssumption == {"alloc_instance", "init_instance"} \subseteq Values
\* The methods of a program; the others are written in C++.
Written == Values \ {"alloc_instance", "init_instance"}
Classes == 1 .. Len(super)
Traits == 1 .. Len(traits)
NoUse == [class |-> 0, trait |-> 0, it |-> Start]
Free == using = NoUse /\ mode = "running"
\* The classes a program works on: it has no name for the metaclass of a class,
\* and Class and MetaClass are left as they are.
Visible == {Object} \cup {c \in FirstClasses + 1 .. Len(super) : (c - FirstClasses) % 2 = 0}

Own == [c \in Classes |-> [n \in Keys |-> Find(table[c], n)]]
Lookup(c, name) == Nearest(Own, super, c, name)
\* A method, and not 0.
instance_method_p(c, name) == Lookup(c, name) \in Values

Init ==
  /\ super = FirstSuper /\ klass = FirstKlass
  /\ table = [c \in 1 .. FirstClasses |->
       LET known == {n \in Keys : Builtin(c, n) # None}
       IN IF known = {} THEN NewTable
          ELSE LET n == CHOOSE n \in known : TRUE IN Added(NewTable, n, Builtin(c, n))]
  /\ used = [c \in 1 .. FirstClasses |-> <<>>]
  /\ traits = <<>>
  /\ top = ("Object" :> Object @@ "Class" :> Class @@ "MetaClass" :> MetaClass)
  /\ bodies = <<>> /\ using = NoUse /\ outcome = [of |-> "none"] /\ mode = "running"

NoAnswer == outcome' = [of |-> "none"]

\* What MaxMade bounds: the classes of a program and the entries of all tables.
\* An entry that is there can always be replaced.
Entries(tables) == LET sizes[i \in 0 .. Len(tables)] == IF i = 0 THEN 0 ELSE sizes[i - 1] + tables[i].size
                   IN sizes[Len(tables)]
Made == (Len(super) - FirstClasses) \div 2 + Entries(table)
          + Entries([t \in Traits |-> traits[t].methods])
Room(t, name) == Has(t, name) \/ Made < MaxMade

-----------------------------------------------------------------------------
\* new_subclass: Class's constructor makes the metaclass, new_class binds the name.
\* Faulty: the metaclass stands under Class and not under that of the superclass.
MetaSuperClass(s) == Class
MetaSuper(s) == klass[s]
new_subclass(s, name) ==
  /\ Free /\ Made < MaxMade
  /\ super' = super \o <<MetaSuper(s), s>>
  /\ klass' = klass \o <<klass[klass[s]], Len(klass) + 1>>
  /\ table' = table \o <<NewTable, NewTable>>
  /\ used' = used \o <<<<>>, <<>>>>
  /\ top' = (name :> Len(super) + 2) @@ top
  /\ NoAnswer
  /\ UNCHANGED <<traits, bodies, using, mode>>

Define(c, name, m) ==
  /\ table' = [table EXCEPT ![c] = Added(@, name, m)]
  /\ UNCHANGED <<super, klass, used, traits, top, bodies, using>>
add_method(c, name, m) ==
  Free /\ Room(table[c], name) /\ Define(c, name, m) /\ NoAnswer /\ UNCHANGED mode
\* add_scope_method with the scope self
add_scope_method(c, name, m) ==
  Free /\ Room(table[klass[c]], name) /\ Define(klass[c], name, m) /\ NoAnswer /\ UNCHANGED mode
\* alias_method checks that there is a method to alias.
alias_method(c, from, to) ==
  /\ Free /\ Room(table[c], to)
  /\ IF instance_method_p(c, from)
     THEN Define(c, to, Lookup(c, from)) /\ NoAnswer /\ UNCHANGED mode
     ELSE mode' = "aborted" /\ UNCHANGED <<super, klass, table, used, traits, top, bodies, using, outcome>>

-----------------------------------------------------------------------------
trait_new(sends) ==
  /\ Free /\ Len(traits) < MaxTraits
  /\ traits' = Append(traits, [methods |-> NewTable, sends |-> sends])
  /\ NoAnswer
  /\ UNCHANGED <<super, klass, table, used, top, bodies, using, mode>>
trait_add_method(t, name, m) ==
  /\ Free /\ Room(traits[t].methods, name)
  /\ traits' = [traits EXCEPT ![t].methods = Added(@, name, m)]
  /\ NoAnswer
  /\ UNCHANGED <<super, klass, table, used, top, bodies, using, mode>>

\* uses_trait
uses_trait(c, t) ==
  /\ Free /\ Len(used[c]) < MaxUses
  /\ using' = [class |-> c, trait |-> t, it |-> Start]
  /\ UNCHANGED <<super, klass, table, used, traits, top, bodies, outcome, mode>>
Fills(c, name) == ~instance_method_p(c, name)
UsesNext ==
  LET t == traits[using.trait].methods
      it == NextEntry(t, using.it)
  IN /\ using # NoUse /\ mode = "running"
     /\ Following(t, using.it) \/ Later(t, using.it) # {}
     /\ using' = [using EXCEPT !.it = it]
     /\ table' = IF Fills(using.class, At(t, it).key)
                 THEN [table EXCEPT ![using.class] = Added(@, At(t, it).key, At(t, it).val)]
                 ELSE table
     /\ UNCHANGED <<super, klass, used, traits, top, bodies, outcome, mode>>
Pushed == using.trait
UsesEnd ==
  LET t == traits[using.trait].methods
  IN /\ using # NoUse /\ mode = "running"
     /\ ~Following(t, using.it) /\ Later(t, using.it) = {}
     /\ used' = [used EXCEPT ![using.class] = Append(@, Pushed)]
     /\ using' = NoUse
     /\ NoAnswer
     /\ UNCHANGED <<super, klass, table, traits, top, bodies, mode>>
\* The word behind the array is not 0, and is taken for an entry.
UsesBehind ==
  /\ using # NoUse /\ mode = "running"
  /\ LooksBehind(traits[using.trait].methods, using.it)
  /\ mode' = "behind"
  /\ UNCHANGED <<super, klass, table, used, traits, top, bodies, using, outcome>>

-----------------------------------------------------------------------------
\* run_body: the body runs, and what the traits send is looked for.
run_body(c) ==
  /\ Free /\ Len(bodies) < MaxBodies
  /\ bodies' = Append(bodies, c)
  /\ UNCHANGED <<super, klass, table, used, traits, top, using, outcome, mode>>
\* Faulty: the class is asked, and not its instances.
MissingOfClass(c) ==
  {n \in UNION {traits[used[c][i]].sends : i \in DOMAIN used[c]} : ~instance_method_p(klass[c], n)}
\* check_traits
Missing(c) ==
  {n \in UNION {traits[used[c][i]].sends : i \in DOMAIN used[c]} : ~instance_method_p(c, n)}
BodyEnds ==
  LET c == bodies[Len(bodies)]
  IN /\ Free /\ bodies # <<>>
     /\ bodies' = SubSeq(bodies, 1, Len(bodies) - 1)
     /\ outcome' = IF Missing(c) = {} THEN [of |-> "run_body", class |-> c] ELSE [of |-> "none"]
     /\ UNCHANGED <<super, klass, table, used, traits, top, using, mode>>
\* The body unwinds: the traits are not checked.
BodyUnwinds ==
  /\ Free /\ bodies # <<>>
  /\ bodies' = SubSeq(bodies, 1, Len(bodies) - 1)
  /\ NoAnswer
  /\ UNCHANGED <<super, klass, table, used, traits, top, using, mode>>

-----------------------------------------------------------------------------
\* An object is an instance of a class, or an unwind.  Nil and the unwinds have
\* classes that add nothing to Object.
Instance(c) == [kind |-> "user", class |-> c]
Nil == [kind |-> "nil", class |-> Object]
Unwind == [kind |-> "unwind", class |-> Object]
\* What a method can answer when it is run on an object.
Results(m, self) ==
  CASE m = "alloc_instance" -> {Instance(self.made)}
    [] m = "init_instance" -> {self}
    [] OTHER -> {Nil, Unwind, self}
\* new_instance: allocate on the class, initialize on what that gave.  There is
\* always an allocate and an initialize to find (DescendantsUnderstand), and only
\* classes find alloc_instance, which checks that it is run on one.
\* Faulty: the answer of initialize is not looked at.
AnsweredBlindly(allocated, initialized) == allocated
Answered(allocated, initialized) ==
  IF initialized.kind = "unwind" THEN initialized ELSE allocated
new_instance(c) ==
  LET allocate == Lookup(klass[c], "allocate")
      receiver == [kind |-> "class", class |-> klass[c], made |-> c]
  IN /\ Free
     /\ outcome' \in UNION {{[of |-> "new", unwound |-> "unwind" \in {a.kind, i.kind},
                               answer |-> Answered(a, i).kind] :
                                i \in Results(Lookup(a.class, "initialize"), a)} :
                             a \in Results(allocate, receiver)}
     /\ UNCHANGED <<super, klass, table, used, traits, top, bodies, using, mode>>

Stopped == mode # "running" /\ UNCHANGED vars
Next ==
  \/ \E s \in Visible, name \in ClassNames : new_subclass(s, name)
  \/ \E c \in Visible, name \in Keys, m \in Written : add_method(c, name, m)
  \/ \E c \in Visible, name \in Keys, m \in Written : add_scope_method(c, name, m)
  \/ \E c \in Visible, from, to \in Keys : alias_method(c, from, to)
  \/ \E sends \in Needs : trait_new(sends)
  \/ \E t \in Traits, name \in Keys, m \in Written : trait_add_method(t, name, m)
  \/ \E c \in Visible, t \in Traits : uses_trait(c, t)
  \/ UsesNext \/ UsesEnd \/ UsesBehind
  \/ \E c \in Visible : run_body(c)
  \/ BodyEnds \/ BodyUnwinds
  \/ \E c \in Visible : new_instance(c)
  \/ Stopped
Spec == Init /\ [][Next]_vars
=============================================================================
