------------------------------- MODULE Chains -------------------------------
(***************************************************************************)
(* Classes, their superclasses and what is defined on each: the classes    *)
(* are numbered in the order they are made, a superclass before its        *)
(* subclasses.  own[c][name] is what c itself gives a name.                *)
(***************************************************************************)
EXTENDS Integers, Sequences

NotDefined == "none"
\* Class::lookup
Nearest(own, super, class, name) ==
  LET found[c \in 0 .. Len(super)] ==
        IF c = 0 THEN NotDefined
        ELSE IF own[c][name] # NotDefined THEN own[c][name]
        ELSE found[super[c]]
  IN found[class]

\* class_tequal, class_subclass, object_kind_of: the superclasses, c among them.
Above(super, class) ==
  {d \in 1 .. class :
     LET leads[c \in 0 .. Len(super)] == c = d \/ (c > d /\ leads[super[c]]) IN leads[class]}

(* The classes init_ontology makes: number, class and superclass.          *)
Object == 1
Class == 2
MetaClass == 3
FirstClasses == 6
FirstKlass == <<4, 5, 6, 3, 3, 3>>
FirstSuper == <<0, 1, 0, 2, 4, 4>>
\* The methods of C++ that making an instance rests on.
Builtin(c, name) ==
  IF c = Class /\ name = "allocate" THEN "alloc_instance"
  ELSE IF c = Object /\ name = "initialize" THEN "init_instance" ELSE NotDefined
=============================================================================
