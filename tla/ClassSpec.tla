------------------------------ MODULE ClassSpec ------------------------------
(***************************************************************************)
(* What classes and traits promise: a name has at most one definition on   *)
(* each class and the nearest is found; a trait only fills gaps, and fills *)
(* all of them.                                                            *)
(***************************************************************************)
EXTENDS Chains

CONSTANTS Names, Methods

VARIABLES
  own,     \* class -> name -> method
  super,   \* class -> superclass, 0 for none
  klass,   \* class -> its own class
  offers,  \* trait -> name -> method
  using    \* the class and the trait it is being given, or neither
specVars == <<own, super, klass, offers, using>>

Nothing == [n \in Names |-> NotDefined]
Understands(c, n) == Nearest(own, super, c, n) # NotDefined

Init ==
  /\ own = [c \in 1 .. FirstClasses |-> [n \in Names |-> Builtin(c, n)]]
  /\ super = FirstSuper /\ klass = FirstKlass
  /\ offers = <<>> /\ using = <<>>

Given(c, n, m) ==
  UNCHANGED <<super, klass, offers, using>> /\ own' = [own EXCEPT ![c] = [@ EXCEPT ![n] = m]]
Define(c, n, m) == using = <<>> /\ Given(c, n, m)
\* A class comes with its metaclass, which stands under that of its superclass.
Subclass(s) ==
  /\ using = <<>>
  /\ super' = super \o <<klass[s], s>>
  /\ klass' = klass \o <<klass[klass[s]], Len(klass) + 1>>
  /\ own' = own \o <<Nothing, Nothing>>
  /\ UNCHANGED <<offers, using>>
NewTrait ==
  using = <<>> /\ offers' = Append(offers, Nothing) /\ UNCHANGED <<own, super, klass, using>>
Offer(t, n, m) ==
  /\ using = <<>>
  /\ offers' = [offers EXCEPT ![t] = [@ EXCEPT ![n] = m]]
  /\ UNCHANGED <<own, super, klass, using>>
Use(c, t) == using = <<>> /\ using' = <<c, t>> /\ UNCHANGED <<own, super, klass, offers>>
Fill(n) ==
  /\ using # <<>>
  /\ ~Understands(using[1], n) /\ offers[using[2]][n] # NotDefined
  /\ Given(using[1], n, offers[using[2]][n])
Used ==
  /\ using # <<>> /\ using' = <<>>
  /\ \A n \in Names : offers[using[2]][n] # NotDefined => Understands(using[1], n)
  /\ UNCHANGED <<own, super, klass, offers>>

Next ==
  \/ using = <<>> /\ super' = super /\ \E c \in DOMAIN own, n \in Names :
       own'[c][n] \in Methods \ {own[c][n]} /\ Define(c, n, own'[c][n])
  \/ \E s \in DOMAIN super : Subclass(s)
  \/ NewTrait
  \/ \E t \in DOMAIN offers, n \in Names :
       offers'[t][n] \in Methods \ {offers[t][n]} /\ Offer(t, n, offers'[t][n])
  \/ \E c \in DOMAIN own, t \in DOMAIN offers : Use(c, t)
  \/ \E n \in Names : Fill(n)
  \/ Used
Spec == Init /\ [][Next]_specVars
=============================================================================
