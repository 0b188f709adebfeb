---------------------------- MODULE ClassesProps ----------------------------
(***************************************************************************)
(* What classes and traits promise.                                        *)
(***************************************************************************)
EXTENDS Classes, FiniteSets

\* Every class has its class and, but for Object and MetaClass, a superclass made
\* before it; the tables hold methods; the iterator of uses is at an entry.
TypeOK ==
  /\ super \in Seq(Nat) /\ klass \in Seq(Nat) /\ table \in Seq(Table) /\ used \in Seq(Seq(Nat))
  /\ Len(klass) = Len(super) /\ Len(table) = Len(super) /\ Len(used) = Len(super)
  /\ FirstClasses <= Len(super)
  /\ \A c \in Classes : super[c] < c /\ klass[c] \in Classes
  /\ \A c \in Classes : \A i \in DOMAIN used[c] : used[c][i] \in Traits
  /\ traits \in Seq([methods : Table, sends : Needs])
  /\ bodies \in Seq(Classes)
  /\ using # NoUse =>
       /\ using \in [class : Classes, trait : Traits, it : [idx : -1 .. Capa - 1, pos : Nat]]
       /\ using.it.idx >= 0 =>
            using.it.pos \in DOMAIN traits[using.trait].methods.entries[using.it.idx]
       /\ using.it.idx = -1 => using.it.pos = 0
  /\ mode \in {"running", "aborted", "behind"}

\* Every method table is one that lookup can trust: a name is in the chain of its
\* hash, once, after any calls of add_method, alias_method and uses.
TablesAreMaps ==
  /\ \A c \in Classes : WellFormed(table[c])
  /\ \A t \in Traits : WellFormed(traits[t].methods)

\* The inductive invariant of the tables.
TypedMaps == TypeOK /\ TablesAreMaps

\* The tables and the loop of uses_trait implement classes that have at most one
\* definition of a name and traits that fill every gap and nothing else.
Promise == INSTANCE ClassSpec WITH
  own <- Own, offers <- [t \in Traits |-> [n \in Keys |-> Find(traits[t].methods, n)]],
  using <- IF using = NoUse THEN <<>> ELSE <<using.class, using.trait>>,
  Names <- Keys, Methods <- Values
ImplementsPromise == Promise!Spec

\* What a superclass understands its subclasses understand, and what a class
\* object understands the class objects of its subclasses do, through metaclasses
\* that the constructor of Class lines up: every class can make instances.
DescendantsUnderstand ==
  \A c \in Visible : \A d \in Above(super, c) : \A n \in Keys :
    /\ instance_method_p(d, n) => instance_method_p(c, n)
    /\ instance_method_p(klass[d], n) => instance_method_p(klass[c], n)

\* A class whose body ended well goes on understanding all that the traits of its
\* body send, whatever is defined, aliased or used later.
\* <<class, trait>>: found complete by the last run_body.  A check changes no class,
\* so that what can become of earlier ones can become of the last.
VARIABLE checked
Step ==
  /\ Next
  /\ checked' = IF outcome'.of = "run_body" /\ Len(bodies') < Len(bodies)
                THEN {<<outcome'.class, used[outcome'.class][i]>> : i \in DOMAIN used[outcome'.class]}
                ELSE checked
BodiesInit == Init /\ checked = {}
BodiesSpec == BodiesInit /\ [][Step]_<<vars, checked>>
CheckedTraitsAreMet ==
  \A p \in checked : \A n \in traits[p[2]].sends : instance_method_p(p[1], n)

\* new never gives out what was not made: when allocate or initialize unwinds the
\* caller gets an unwind, although new calls initialize all the same.
NewPassesUnwindsOn ==
  outcome.of = "new" => (outcome.unwound => outcome.answer = "unwind")

\* Three names, two of them in one chain of a table of two chains.
MCSlot == "allocate" :> 0 @@ "initialize" :> 1 @@ "f" :> 0
=============================================================================
