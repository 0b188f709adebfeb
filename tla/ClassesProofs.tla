--------------------------- MODULE ClassesProofs ---------------------------
(***************************************************************************)
(* For any names, methods, hash, number of chains and bounds: the method   *)
(* tables are maps; what is understood stays so, and is passed on to the   *)
(* subclasses; the classes and the loop of uses keep what ClassSpec says.  *)
(***************************************************************************)
EXTENDS ClassesProps, SequenceTheorems, WellFoundedInduction, TLAPS

LEMMA SmallestOfNat ==
  ASSUME NEW T \in SUBSET Nat, T # {}
  PROVE  \E x \in T : \A y \in T : x <= y
<1>1. \E x \in T : \A y \in T : ~ (<<y, x>> \in OpToRel(<, Nat))
  BY NatLessThanWellFounded, WFMin
<1>2. ASSUME NEW x \in T, NEW y \in T, ~ (<<y, x>> \in OpToRel(<, Nat))
      PROVE  x <= y
  <2>1. OpToRel(<, Nat) = {p \in Nat \X Nat : p[1] < p[2]}
    BY Zenon DEF OpToRel
  <2>2. ~ (y < x)
    BY <1>2, <2>1
  <2> QED
    BY <2>2
<1> QED
  BY <1>1, <1>2

-----------------------------------------------------------------------------
(* One table.                                                              *)

LEMMA BucketType ==
  ASSUME NEW t \in Table, NEW key \in Keys
  PROVE  /\ Slot[key] \in 0 .. Capa - 1
         /\ Bucket(t, key) \in Seq(Entry)
         /\ t.entries \in [0 .. Capa - 1 -> Seq(Entry)] /\ t.size \in Nat
  BY SlotAssumption DEF Table, Bucket

\* The place of a key, when it has one, is the only one.
LEMMA PlaceIsUnique ==
  ASSUME NEW t \in Table, WellFormed(t), NEW key \in Keys, NEW i \in DOMAIN Bucket(t, key),
         Bucket(t, key)[i].key = key
  PROVE  /\ Holds(Bucket(t, key), key, i)
         /\ \A j \in DOMAIN Bucket(t, key) : Holds(Bucket(t, key), key, j) => j = i
<1>1. \A j \in DOMAIN Bucket(t, key) : Bucket(t, key)[j].key = key => j = i
  BY BucketType DEF WellFormed, Bucket
<1>2. i \in Int
  BY BucketType
<1> QED
  BY <1>1, <1>2 DEF Holds

\* Find gives the value of the one entry of a key.
LEMMA FindGives ==
  ASSUME NEW t \in Table, WellFormed(t), NEW key \in Keys, NEW i \in DOMAIN Bucket(t, key),
         Bucket(t, key)[i].key = key
  PROVE  Find(t, key) = Bucket(t, key)[i].val
<1>1. Has(t, key)
  BY DEF Has
<1>2. (CHOOSE j \in DOMAIN Bucket(t, key) : Holds(Bucket(t, key), key, j)) = i
  BY PlaceIsUnique
<1> QED
  BY <1>1, <1>2 DEF Find

\* What Added makes of the chain of its key.
Changed(t, key, val) ==
  IF Has(t, key)
  THEN [i \in DOMAIN Bucket(t, key) |->
          IF Holds(Bucket(t, key), key, i) THEN [Bucket(t, key)[i] EXCEPT !.val = val]
          ELSE Bucket(t, key)[i]]
  ELSE Append(Bucket(t, key), [key |-> key, val |-> val])
LEMMA ChangedType ==
  ASSUME NEW t \in Table, NEW key \in Keys, NEW val \in Values
  PROVE  /\ Changed(t, key, val) \in Seq(Entry)
         /\ Has(t, key) => Len(Changed(t, key, val)) = Len(Bucket(t, key))
         /\ ~Has(t, key) => Len(Changed(t, key, val)) = Len(Bucket(t, key)) + 1
<1> DEFINE chain == Bucket(t, key)
<1>1. chain \in Seq(Entry)
  BY BucketType
<1>2. ASSUME Has(t, key)
      PROVE  Changed(t, key, val) \in Seq(Entry) /\ Len(Changed(t, key, val)) = Len(chain)
  <2>0. \A i \in DOMAIN chain : chain[i] \in Entry
    BY <1>1
  <2>1. \A i \in DOMAIN chain : chain[i] \in Entry /\ [chain[i] EXCEPT !.val = val] \in Entry
    BY <2>0 DEF Entry
  <2>2. Changed(t, key, val) \in [1 .. Len(chain) -> Entry]
    BY <1>1, <1>2, <2>1 DEF Changed
  <2> QED
    BY <1>1, <2>2
<1>3. [key |-> key, val |-> val] \in Entry
  BY DEF Entry
<1>4. ASSUME ~Has(t, key)
      PROVE  Changed(t, key, val) \in Seq(Entry) /\ Len(Changed(t, key, val)) = Len(chain) + 1
  BY <1>1, <1>3, <1>4 DEF Changed
<1> QED
  BY <1>2, <1>4

LEMMA AddedIs ==
  ASSUME NEW t \in Table, NEW key \in Keys, NEW val \in Values
  PROVE  /\ Added(t, key, val).entries = [t.entries EXCEPT ![Slot[key]] = Changed(t, key, val)]
         /\ Added(t, key, val).size = IF Has(t, key) THEN t.size ELSE t.size + 1
         /\ Added(t, key, val) \in Table
<1>1. Added(t, key, val) =
        [t EXCEPT !.entries = [t.entries EXCEPT ![Slot[key]] = Changed(t, key, val)],
                  !.size = IF Has(t, key) THEN t.size ELSE t.size + 1]
  <2>1. CASE Has(t, key)
    BY <2>1, BucketType DEF Added, Changed, Bucket, Table
  <2>2. CASE ~Has(t, key)
    BY <2>2, BucketType DEF Added, Changed, Bucket, Table
  <2> QED
    BY <2>1, <2>2
<1>2. Changed(t, key, val) \in Seq(Entry)
  BY ChangedType
<1> DEFINE E == [t.entries EXCEPT ![Slot[key]] = Changed(t, key, val)]
           n == IF Has(t, key) THEN t.size ELSE t.size + 1
<1>3. E \in [0 .. Capa - 1 -> Seq(Entry)] /\ n \in Nat
  BY <1>2, BucketType
<1>4. Added(t, key, val) = [entries |-> E, size |-> n]
  BY <1>1 DEF Table
<1> HIDE DEF E, n
<1> QED
  BY <1>3, <1>4 DEF Table, E, n

\* The entries of the changed chain: the old ones, the key's with its new value.
LEMMA ChangedEntries ==
  ASSUME NEW t \in Table, WellFormed(t), NEW key \in Keys, NEW val \in Values
  PROVE  LET old == Bucket(t, key)
             new == Changed(t, key, val)
         IN /\ \A i \in DOMAIN old : i \in DOMAIN new /\ new[i].key = old[i].key
            /\ \A i \in DOMAIN old : old[i].key # key => new[i].val = old[i].val
            /\ \A i \in DOMAIN new : i \notin DOMAIN old => new[i].key = key /\ ~Has(t, key)
            /\ \A i, j \in DOMAIN new : i \notin DOMAIN old /\ j \notin DOMAIN old => i = j
            /\ \E i \in DOMAIN new : new[i].key = key /\ new[i].val = val
<1> DEFINE old == Bucket(t, key)
           new == Changed(t, key, val)
<1>1. old \in Seq(Entry)
  BY BucketType
<1>2. CASE Has(t, key)
  <2>1. DOMAIN new = DOMAIN old
    BY <1>2 DEF Changed
  <2>2. \A i \in DOMAIN old : old[i] \in Entry
    BY <1>1
  <2>3. \A i \in DOMAIN old :
          new[i] = IF Holds(old, key, i) THEN [old[i] EXCEPT !.val = val] ELSE old[i]
    BY <1>2 DEF Changed
  <2>4. \A i \in DOMAIN old :
          new[i].key = old[i].key /\ (old[i].key # key => new[i].val = old[i].val)
    BY <2>2, <2>3 DEF Holds, Entry
  <2>5. PICK i \in DOMAIN old : old[i].key = key
    BY <1>2 DEF Has
  <2>6. new[i].key = key /\ new[i].val = val
    <3>1. Holds(old, key, i)
      BY <2>5, PlaceIsUnique
    <3>2. new[i] = [old[i] EXCEPT !.val = val] /\ old[i] \in Entry
      BY <2>2, <2>3, <2>5, <3>1
    <3> HIDE DEF new, old
    <3> QED
      BY <2>5, <3>2 DEF Entry
  <2> QED
    BY <2>1, <2>4, <2>5, <2>6
<1>3. CASE ~Has(t, key)
  <2> DEFINE e == [key |-> key, val |-> val]
  <2>1. e \in Entry /\ e.key = key /\ e.val = val
    BY DEF Entry
  <2>2. new = Append(old, e)
    BY <1>3 DEF Changed
  <2>3. /\ DOMAIN new = 1 .. Len(old) + 1 /\ DOMAIN old = 1 .. Len(old) /\ Len(old) \in Nat
        /\ new[Len(old) + 1] = e
        /\ \A i \in DOMAIN old : new[i] = old[i]
    BY <1>1, <2>1, <2>2
  <2> QED
    BY <1>3, <2>1, <2>3
<1> QED
  BY <1>2, <1>3

LEMMA AddedWellFormed ==
  ASSUME NEW t \in Table, WellFormed(t), NEW key \in Keys, NEW val \in Values
  PROVE  WellFormed(Added(t, key, val))
<1> DEFINE u == Added(t, key, val)
<1>1. u.entries = [t.entries EXCEPT ![Slot[key]] = Changed(t, key, val)]
  BY AddedIs
<1> SUFFICES ASSUME NEW b \in 0 .. Capa - 1
             PROVE  /\ \A i \in DOMAIN u.entries[b] : Slot[u.entries[b][i].key] = b
                    /\ \A i, j \in DOMAIN u.entries[b] :
                         u.entries[b][i].key = u.entries[b][j].key => i = j
  BY DEF WellFormed
<1>2. CASE b # Slot[key]
  <2>1. u.entries[b] = t.entries[b]
    BY <1>1, <1>2, BucketType
  <2> QED
    BY <2>1 DEF WellFormed
<1>3. CASE b = Slot[key]
  <2> DEFINE old == Bucket(t, key)
             new == Changed(t, key, val)
  <2>1. u.entries[b] = new /\ old = t.entries[b]
    BY <1>1, <1>3, BucketType DEF Bucket
  <2>2. /\ \A i \in DOMAIN old : Slot[old[i].key] = b
        /\ \A i, j \in DOMAIN old : old[i].key = old[j].key => i = j
    BY <2>1 DEF WellFormed
  <2>3. /\ \A i \in DOMAIN old : i \in DOMAIN new /\ new[i].key = old[i].key
        /\ \A i \in DOMAIN new : i \notin DOMAIN old => new[i].key = key /\ ~Has(t, key)
        /\ \A i, j \in DOMAIN new : i \notin DOMAIN old /\ j \notin DOMAIN old => i = j
    BY ChangedEntries
  <2>4. ~Has(t, key) => \A i \in DOMAIN old : old[i].key # key
    BY DEF Has
  <2>5. \A i \in DOMAIN new : Slot[new[i].key] = b
    BY <1>3, <2>2, <2>3
  <2>6. \A i, j \in DOMAIN new : new[i].key = new[j].key => i = j
    BY <2>2, <2>3, <2>4
  <2> QED
    BY <2>1, <2>5, <2>6
<1> QED
  BY <1>2, <1>3

\* add is an update of a map: the name gives the method added, every other name
\* what it gave before (MethodTable::add and lookup, Bindings::set and find).
THEOREM AddedIsAnUpdate ==
  ASSUME NEW t \in Table, WellFormed(t), NEW key \in Keys, NEW val \in Values, NEW n \in Keys
  PROVE  Find(Added(t, key, val), n) = IF n = key THEN val ELSE Find(t, n)
<1> DEFINE u == Added(t, key, val)
           old == Bucket(t, key)
           new == Changed(t, key, val)
<1>1. u.entries = [t.entries EXCEPT ![Slot[key]] = new] /\ u \in Table /\ WellFormed(u)
  BY AddedIs, AddedWellFormed
<1>2. Bucket(u, n) = IF Slot[n] = Slot[key] THEN new ELSE Bucket(t, n)
  BY <1>1, BucketType DEF Bucket
<1>3. CASE n = key
  <2>1. Bucket(u, n) = new
    BY <1>2, <1>3
  <2>2. PICK i \in DOMAIN new : new[i].key = key /\ new[i].val = val
    BY ChangedEntries
  <2> QED
    BY <1>1, <1>3, <2>1, <2>2, FindGives
<1>4. CASE n # key /\ Slot[n] # Slot[key]
  <2>1. Bucket(u, n) = Bucket(t, n)
    BY <1>2, <1>4
  <2> QED
    BY <1>4, <2>1 DEF Find, Has
<1>5. CASE n # key /\ Slot[n] = Slot[key]
  <2>1. Bucket(u, n) = new /\ Bucket(t, n) = old
    BY <1>2, <1>5 DEF Bucket
  <2>2. /\ \A i \in DOMAIN old : i \in DOMAIN new /\ new[i].key = old[i].key
        /\ \A i \in DOMAIN old : old[i].key # key => new[i].val = old[i].val
        /\ \A i \in DOMAIN new : i \notin DOMAIN old => new[i].key = key
    BY ChangedEntries
  <2>3. CASE Has(t, n)
    <3>1. PICK i \in DOMAIN old : old[i].key = n
      BY <2>1, <2>3 DEF Has
    <3>2. i \in DOMAIN new /\ new[i].key = n /\ new[i].val = old[i].val
      BY <1>5, <2>2, <3>1
    <3>3. Find(u, n) = new[i].val
      BY <1>1, <2>1, <3>2, FindGives
    <3>4. Find(t, n) = old[i].val
      BY <2>1, <3>1, FindGives
    <3> QED
      BY <1>5, <3>2, <3>3, <3>4
  <2>4. CASE ~Has(t, n)
    <3>1. \A i \in DOMAIN new : new[i].key # n
      BY <1>5, <2>1, <2>2, <2>4 DEF Has
    <3>2. ~Has(u, n)
      BY <2>1, <3>1 DEF Has
    <3> QED
      BY <1>5, <2>4, <3>2 DEF Find
  <2> QED
    BY <2>3, <2>4
<1> QED
  BY <1>3, <1>4, <1>5

-----------------------------------------------------------------------------
(* All tables.                                                             *)

LEMMA NewTableIsMap == NewTable \in Table /\ WellFormed(NewTable)
<1>1. Capa \in Nat
  BY CapaAssumption
<1>2. <<>> \in Seq(Entry)
  OBVIOUS
<1> QED
  BY <1>1, <1>2 DEF NewTable, Table, WellFormed

LEMMA AddedIsMap ==
  ASSUME NEW t \in Table, WellFormed(t), NEW key \in Keys, NEW val \in Values
  PROVE  Added(t, key, val) \in Table /\ WellFormed(Added(t, key, val))
BY AddedIs, AddedWellFormed

LEMMA Joined ==
  ASSUME NEW S, NEW s \in Seq(S), NEW a \in S, NEW b \in S
  PROVE  LET j == s \o <<a, b>>
         IN /\ j \in Seq(S) /\ Len(j) = Len(s) + 2
            /\ \A i \in 1 .. Len(s) : j[i] = s[i]
            /\ j[Len(s) + 1] = a /\ j[Len(s) + 2] = b
<1>1. <<a, b>> \in Seq(S) /\ Len(<<a, b>>) = 2 /\ <<a, b>>[1] = a /\ <<a, b>>[2] = b
  OBVIOUS
<1> QED
  BY <1>1

LEMMA InitTyped == Init => TypedMaps
<1> SUFFICES ASSUME Init PROVE TypedMaps
  OBVIOUS
<1>1. Len(super) = 6 /\ Len(klass) = 6 /\ super \in Seq(Nat) /\ klass \in Seq(Nat)
  <2>1. super = <<0, 1, 0, 2, 4, 4>> /\ klass = <<4, 5, 6, 3, 3, 3>>
    BY DEF Init, FirstSuper, FirstKlass
  <2> QED
    BY <2>1
<1>2. \A c \in 1 .. 6 : super[c] < c /\ klass[c] \in 1 .. 6
  <2>1. super = <<0, 1, 0, 2, 4, 4>> /\ klass = <<4, 5, 6, 3, 3, 3>>
    BY DEF Init, FirstSuper, FirstKlass
  <2>2. \A c \in 1 .. 6 : c \in {1, 2, 3, 4, 5, 6}
    OBVIOUS
  <2> QED
    BY <2>1, <2>2
<1>3. DOMAIN table = 1 .. 6 /\ \A c \in 1 .. 6 : table[c] \in Table /\ WellFormed(table[c])
  <2>1. DOMAIN table = 1 .. 6
    BY DEF Init, FirstClasses
  <2> SUFFICES ASSUME NEW c \in 1 .. 6 PROVE table[c] \in Table /\ WellFormed(table[c])
    BY <2>1
  <2> DEFINE known == {n \in Keys : Builtin(c, n) # None}
             pick == CHOOSE n \in known : TRUE
  <2>2. table[c] = IF known = {} THEN NewTable ELSE Added(NewTable, pick, Builtin(c, pick))
    BY DEF Init, FirstClasses
  <2>3. CASE known = {}
    BY <2>2, <2>3, NewTableIsMap
  <2>4. CASE known # {}
    <3>1. pick \in known
      BY <2>4
    <3>2. pick \in Keys /\ Builtin(c, pick) # None
      BY <3>1
    <3>3. Builtin(c, pick) \in Values
      BY <3>2, BuiltinAssumption DEF Builtin, None, NotDefined
    <3> HIDE DEF pick, known
    <3>4. table[c] = Added(NewTable, pick, Builtin(c, pick))
      BY <2>2, <2>4
    <3> QED
      BY <3>2, <3>3, <3>4, NewTableIsMap, AddedIsMap
  <2> QED
    BY <2>3, <2>4
<1>4. table \in Seq(Table) /\ Len(table) = 6
  <2>1. table = [c \in 1 .. 6 |-> table[c]]
    BY DEF Init, FirstClasses
  <2>2. table \in [1 .. 6 -> Table]
    BY <1>3, <2>1
  <2>3. table \in Seq(Table)
    BY <2>2, 6 \in Nat, SeqDef
  <2> QED
    BY <1>3, <2>3
<1>5. used \in Seq(Seq(Nat)) /\ Len(used) = 6 /\ \A c \in 1 .. 6 : used[c] = <<>>
  BY DEF Init, FirstClasses
<1>6. traits = <<>> /\ bodies = <<>> /\ using = NoUse /\ mode = "running"
  BY DEF Init
<1>7. TypeOK
  BY <1>1, <1>2, <1>4, <1>5, <1>6 DEF TypeOK, Classes, Traits, FirstClasses
<1> QED
  BY <1>1, <1>3, <1>6, <1>7 DEF TypedMaps, TablesAreMaps, Classes, Traits

\* A program only works on classes there are.
LEMMA VisibleAreClasses == TypeOK => Visible \subseteq Classes
BY SMTT(30) DEF TypeOK, Visible, Classes, Object, FirstClasses

\* A step that only changes one table, and that by add, keeps the tables maps.
LEMMA DefineTyped ==
  ASSUME TypedMaps, NEW c \in Classes, NEW name \in Keys, NEW m \in Values,
         table' = [table EXCEPT ![c] = Added(@, name, m)],
         UNCHANGED <<super, klass, used, traits, bodies, mode>>
  PROVE  /\ UNCHANGED using => TypedMaps'
         /\ table' \in Seq(Table) /\ Len(table') = Len(table)
         /\ \A d \in Classes : WellFormed(table'[d])
<1>1. table \in Seq(Table) /\ Len(table) = Len(super) /\ Classes = DOMAIN table
      /\ \A d \in Classes : WellFormed(table[d])
  BY DEF TypedMaps, TypeOK, TablesAreMaps, Classes
<1>2. table[c] \in Table /\ WellFormed(table[c])
  BY <1>1
<1>3. Added(table[c], name, m) \in Table /\ WellFormed(Added(table[c], name, m))
  BY <1>2, AddedIsMap
<1>4. /\ table' \in Seq(Table) /\ Len(table') = Len(table)
      /\ \A d \in Classes : table'[d] = IF d = c THEN Added(table[c], name, m) ELSE table[d]
  BY <1>1, <1>3
<1>5. \A d \in Classes : WellFormed(table'[d])
  BY <1>1, <1>3, <1>4
<1>6. ASSUME UNCHANGED using PROVE TypedMaps'
  BY <1>1, <1>4, <1>5, <1>6 DEF TypedMaps, TypeOK, TablesAreMaps, Classes, Traits
<1> QED
  BY <1>4, <1>5, <1>6

LEMMA SubclassTyped ==
  ASSUME TypedMaps, NEW s \in Visible, NEW name \in ClassNames, new_subclass(s, name)
  PROVE  TypedMaps'
<1> DEFINE n == Len(super)
<1>1. /\ super \in Seq(Nat) /\ klass \in Seq(Nat) /\ table \in Seq(Table) /\ used \in Seq(Seq(Nat))
      /\ n \in Nat /\ FirstClasses <= n
      /\ Len(klass) = n /\ Len(table) = n /\ Len(used) = n /\ Classes = 1 .. n
  BY DEF TypedMaps, TypeOK, Classes
<1>2. s \in 1 .. n /\ klass[s] \in 1 .. n /\ klass[klass[s]] \in 1 .. n
  BY <1>1, VisibleAreClasses DEF TypedMaps, TypeOK
<1>3. /\ super' \in Seq(Nat) /\ Len(super') = n + 2
      /\ \A i \in 1 .. n : super'[i] = super[i]
      /\ super'[n + 1] = klass[s] /\ super'[n + 2] = s
  <2>1. super' = super \o <<klass[s], s>>
    BY DEF new_subclass, MetaSuper
  <2>2. klass[s] \in Nat /\ s \in Nat
    BY <1>1, <1>2
  <2> QED
    BY SMTT(30), <1>1, <2>1, <2>2, Joined
<1>4. /\ klass' \in Seq(Nat) /\ Len(klass') = n + 2
      /\ \A i \in 1 .. n : klass'[i] = klass[i]
      /\ klass'[n + 1] = klass[klass[s]] /\ klass'[n + 2] = n + 1
  <2>1. klass' = klass \o <<klass[klass[s]], n + 1>>
    BY <1>1 DEF new_subclass
  <2>2. klass[klass[s]] \in Nat /\ n + 1 \in Nat
    BY SMTT(30), <1>1, <1>2
  <2>3. klass \in Seq(Nat) /\ Len(klass) = n
    BY <1>1
  <2> HIDE DEF n
  <2> QED
    BY SMTT(30), <2>1, <2>2, <2>3, Joined
<1>5. /\ table' \in Seq(Table) /\ Len(table') = n + 2
      /\ \A i \in 1 .. n : table'[i] = table[i]
      /\ table'[n + 1] = NewTable /\ table'[n + 2] = NewTable
  <2>1. table' = table \o <<NewTable, NewTable>>
    BY DEF new_subclass
  <2>2. table \in Seq(Table) /\ Len(table) = n /\ NewTable \in Table
    BY <1>1, NewTableIsMap
  <2> HIDE DEF n
  <2> QED
    BY <2>1, <2>2, Joined
<1>6. /\ used' \in Seq(Seq(Nat)) /\ Len(used') = n + 2
      /\ \A i \in 1 .. n : used'[i] = used[i]
      /\ used'[n + 1] = <<>> /\ used'[n + 2] = <<>>
  <2>1. used' = used \o <<<<>>, <<>>>> /\ <<>> \in Seq(Nat)
    BY DEF new_subclass
  <2> QED
    BY <1>1, <2>1, Joined
<1>7. Classes' = 1 .. n + 2 /\ Traits' = Traits /\ traits' = traits /\ bodies' = bodies
      /\ using' = using /\ mode' = mode
  BY <1>3 DEF new_subclass, Classes, Traits
<1>8. \A c \in 1 .. n + 2 : c \in 1 .. n \/ c = n + 1 \/ c = n + 2
  BY <1>1
<1>9. \A c \in 1 .. n + 2 : super'[c] < c /\ klass'[c] \in 1 .. n + 2
  <2>1. \A c \in 1 .. n : super[c] < c /\ klass[c] \in 1 .. n
    BY <1>1 DEF TypedMaps, TypeOK
  <2> SUFFICES ASSUME NEW c \in 1 .. n + 2 PROVE super'[c] < c /\ klass'[c] \in 1 .. n + 2
    OBVIOUS
  <2>2. n \in Nat /\ n > 0 /\ klass[s] \in 1 .. n /\ s \in 1 .. n /\ klass[klass[s]] \in 1 .. n
    BY <1>1, <1>2 DEF FirstClasses
  <2> HIDE DEF n
  <2>3. CASE c \in 1 .. n
    <3>1. super'[c] = super[c] /\ klass'[c] = klass[c]
      BY <1>3, <1>4, <2>3
    <3>2. super[c] < c /\ klass[c] \in 1 .. n
      BY <2>1, <2>3
    <3>3. klass[c] \in 1 .. n + 2
      BY <2>2, <3>2
    <3> QED
      BY <3>1, <3>2, <3>3
  <2>4. CASE c = n + 1
    <3>1. super'[c] = klass[s] /\ klass'[c] = klass[klass[s]]
      BY <1>3, <1>4, <2>4
    <3> QED
      BY <2>2, <2>4, <3>1
  <2>5. CASE c = n + 2
    <3>1. super'[c] = s /\ klass'[c] = n + 1
      BY <1>3, <1>4, <2>5
    <3> QED
      BY <2>2, <2>5, <3>1
  <2> QED
    BY <1>8, <2>3, <2>4, <2>5
<1>10. \A c \in 1 .. n + 2 : \A i \in DOMAIN used'[c] : used'[c][i] \in Traits
  <2>1. \A c \in 1 .. n : \A i \in DOMAIN used[c] : used[c][i] \in Traits
    BY <1>1 DEF TypedMaps, TypeOK
  <2>2. DOMAIN <<>> = {}
    OBVIOUS
  <2> QED
    BY <1>6, <1>8, <2>1, <2>2
<1>11. \A c \in 1 .. n + 2 : WellFormed(table'[c])
  <2>1. \A c \in 1 .. n : WellFormed(table[c])
    BY <1>1 DEF TypedMaps, TablesAreMaps
  <2> QED
    BY <1>5, <1>8, <2>1, NewTableIsMap
<1>12. bodies \in Seq(1 .. n + 2)
  <2>1. bodies \in Seq(1 .. n)
    BY <1>1 DEF TypedMaps, TypeOK
  <2> QED
    BY <1>1, <2>1
<1>13. using # NoUse =>
         /\ using \in [class : 1 .. n + 2, trait : Traits, it : [idx : -1 .. Capa - 1, pos : Nat]]
         /\ using.it.idx >= 0 =>
              using.it.pos \in DOMAIN traits[using.trait].methods.entries[using.it.idx]
         /\ using.it.idx = -1 => using.it.pos = 0
  BY DEF new_subclass, Free
<1>14. traits \in Seq([methods : Table, sends : Needs]) /\ mode \in {"running", "aborted", "behind"}
  BY DEF TypedMaps, TypeOK
<1>15. FirstClasses <= Len(super') /\ FirstClasses \in Nat
  BY <1>1, <1>3 DEF FirstClasses
<1>16. TypeOK'
  BY <1>3, <1>4, <1>5, <1>6, <1>7, <1>9, <1>10, <1>12, <1>13, <1>14, <1>15
     DEF TypeOK, NoUse, Start
<1>17. TablesAreMaps'
  BY <1>7, <1>11 DEF TypedMaps, TablesAreMaps
<1> QED
  BY <1>16, <1>17 DEF TypedMaps

\* What is added to a trait leaves the classes alone.
LEMMA TraitTyped ==
  ASSUME TypedMaps, NEW t \in Traits, NEW name \in Keys, NEW m \in Written,
         trait_add_method(t, name, m)
  PROVE  TypedMaps'
<1> DEFINE e == [traits[t] EXCEPT !.methods = Added(@, name, m)]
<1>1. traits \in Seq([methods : Table, sends : Needs]) /\ t \in 1 .. Len(traits)
  BY DEF TypedMaps, TypeOK, Traits
<1>2. traits[t] \in [methods : Table, sends : Needs] /\ WellFormed(traits[t].methods)
  <2>1. traits[t] \in [methods : Table, sends : Needs]
    BY <1>1, ElementOfSeq
  <2> QED
    BY <2>1 DEF TypedMaps, TablesAreMaps
<1>3. m \in Values
  BY DEF Written
<1>4. /\ Added(traits[t].methods, name, m) \in Table
      /\ WellFormed(Added(traits[t].methods, name, m))
  BY <1>2, <1>3, AddedIsMap
<1>5. /\ e \in [methods : Table, sends : Needs]
      /\ e.methods = Added(traits[t].methods, name, m)
  BY <1>2, <1>4
<1>6. traits' = [traits EXCEPT ![t] = e]
  BY <1>1 DEF trait_add_method
<1> HIDE DEF e
<1>7. /\ traits' \in Seq([methods : Table, sends : Needs]) /\ Len(traits') = Len(traits)
      /\ \A u \in Traits : traits'[u] = IF u = t THEN e ELSE traits[u]
  BY <1>1, <1>5, <1>6 DEF Traits
<1>8. /\ Traits' = Traits /\ Classes' = Classes /\ using = NoUse /\ using' = using
      /\ UNCHANGED <<super, klass, table, used, bodies, mode>>
  BY <1>7 DEF trait_add_method, Traits, Classes, Free
<1>9. TypeOK'
  BY <1>7, <1>8 DEF TypedMaps, TypeOK
<1>10. \A u \in Traits : WellFormed(traits'[u].methods)
  BY <1>4, <1>5, <1>7 DEF TypedMaps, TablesAreMaps
<1>11. TablesAreMaps'
  BY <1>8, <1>10 DEF TypedMaps, TablesAreMaps
<1> QED
  BY <1>9, <1>11 DEF TypedMaps

LEMMA NewTraitTyped ==
  ASSUME TypedMaps, NEW sends \in Needs, trait_new(sends)
  PROVE  TypedMaps'
<1> DEFINE e == [methods |-> NewTable, sends |-> sends]
           n == Len(traits)
<1>1. traits \in Seq([methods : Table, sends : Needs]) /\ n \in Nat /\ Traits = 1 .. n
  BY DEF TypedMaps, TypeOK, Traits
<1>2. e \in [methods : Table, sends : Needs] /\ WellFormed(e.methods)
  BY NewTableIsMap
<1>3. traits' = Append(traits, e)
  BY DEF trait_new
<1> HIDE DEF e
<1>4. /\ traits' \in Seq([methods : Table, sends : Needs]) /\ Len(traits') = n + 1
      /\ \A u \in 1 .. n : traits'[u] = traits[u]
      /\ traits'[n + 1] = e
  BY <1>1, <1>2, <1>3
<1>5. /\ Traits' = 1 .. n + 1 /\ Classes' = Classes /\ using = NoUse /\ using' = using
      /\ UNCHANGED <<super, klass, table, used, bodies, mode>>
  BY <1>4 DEF trait_new, Traits, Classes, Free
<1>6. \A c \in Classes : \A i \in DOMAIN used[c] : used[c][i] \in 1 .. n + 1
  BY <1>1 DEF TypedMaps, TypeOK
<1>7. TypeOK'
  BY <1>4, <1>5, <1>6 DEF TypedMaps, TypeOK
<1>8. \A u \in 1 .. n + 1 : WellFormed(traits'[u].methods)
  <2>1. \A u \in 1 .. n : WellFormed(traits[u].methods)
    BY <1>1 DEF TypedMaps, TablesAreMaps
  <2>2. \A u \in 1 .. n + 1 : u \in 1 .. n \/ u = n + 1
    BY <1>1
  <2> QED
    BY <1>2, <1>4, <2>1, <2>2
<1>9. TablesAreMaps'
  BY <1>5, <1>8 DEF TypedMaps, TablesAreMaps
<1> QED
  BY <1>7, <1>9 DEF TypedMaps

-----------------------------------------------------------------------------
(* uses.                                                                   *)

\* The entry next() comes to is one of the trait's.
LEMMA NextIsAnEntry ==
  ASSUME NEW t \in Table,
         NEW it \in [idx : -1 .. Capa - 1, pos : Nat],
         it.idx >= 0 => it.pos \in DOMAIN t.entries[it.idx],
         it.idx = -1 => it.pos = 0,
         Following(t, it) \/ Later(t, it) # {}
  PROVE  /\ NextEntry(t, it) \in [idx : -1 .. Capa - 1, pos : Nat]
         /\ NextEntry(t, it).idx >= 0
         /\ NextEntry(t, it).pos \in DOMAIN t.entries[NextEntry(t, it).idx]
         /\ At(t, NextEntry(t, it)).key \in Keys /\ At(t, NextEntry(t, it)).val \in Values
<1> DEFINE u == NextEntry(t, it)
<1>1. t.entries \in [0 .. Capa - 1 -> Seq(Entry)] /\ Capa \in Nat
      /\ it.idx \in -1 .. Capa - 1 /\ it.pos \in Nat
  BY CapaAssumption DEF Table
<1>2. u \in [idx : -1 .. Capa - 1, pos : Nat] /\ u.idx >= 0 /\ u.pos \in DOMAIN t.entries[u.idx]
  <2>1. CASE Following(t, it)
    <3>1. it.idx >= 0 /\ it.pos > 0 /\ it.pos < Len(t.entries[it.idx])
      BY <1>1, <2>1 DEF Following
    <3>2. t.entries[it.idx] \in Seq(Entry)
      BY <1>1, <3>1
    <3>3. u = [it EXCEPT !.pos = it.pos + 1]
      BY <2>1 DEF NextEntry
    <3>4. u.idx = it.idx /\ u.pos = it.pos + 1 /\ u \in [idx : -1 .. Capa - 1, pos : Nat]
      BY <1>1, <3>3
    <3>5. it.pos + 1 \in DOMAIN t.entries[it.idx]
      BY <1>1, <3>1, <3>2
    <3> QED
      BY <3>1, <3>4, <3>5
  <2>2. CASE ~Following(t, it)
    <3> DEFINE L == Later(t, it)
    <3>1. L # {} /\ L \in SUBSET Nat
      BY <1>1, <2>2 DEF Later
    <3>2. First(L) \in L
      BY <3>1, SmallestOfNat DEF First
    <3>3. First(L) \in 0 .. Capa - 1 /\ t.entries[First(L)] # <<>>
      BY <1>1, <3>2 DEF Later
    <3>4. u = [idx |-> First(L), pos |-> 1]
      BY <2>2 DEF NextEntry
    <3>5. t.entries[First(L)] \in Seq(Entry)
      BY <1>1, <3>3
    <3>6. 1 \in DOMAIN t.entries[First(L)]
      BY <3>3, <3>5
    <3> QED
      BY <1>1, <3>3, <3>4, <3>6
  <2> QED
    BY <2>1, <2>2
<1>3. t.entries[u.idx] \in Seq(Entry)
  BY <1>1, <1>2
<1>4. t.entries[u.idx][u.pos] \in Entry
  BY <1>2, <1>3
<1> QED
  BY <1>2, <1>4 DEF At, Entry

LEMMA UsesNextTyped ==
  ASSUME TypedMaps, UsesNext
  PROVE  TypedMaps'
<1> DEFINE t == traits[using.trait].methods
           u == NextEntry(t, using.it)
<1>1. /\ using \in [class : Classes, trait : Traits, it : [idx : -1 .. Capa - 1, pos : Nat]]
      /\ using.it.idx >= 0 => using.it.pos \in DOMAIN t.entries[using.it.idx]
      /\ using.it.idx = -1 => using.it.pos = 0
  BY DEF UsesNext, TypedMaps, TypeOK
<1>2. /\ using.class \in Classes /\ using.trait \in Traits
      /\ using.it \in [idx : -1 .. Capa - 1, pos : Nat] /\ t \in Table
  <2>1. using.class \in Classes /\ using.trait \in Traits
        /\ using.it \in [idx : -1 .. Capa - 1, pos : Nat]
    BY <1>1
  <2>2. traits \in Seq([methods : Table, sends : Needs]) /\ Traits = 1 .. Len(traits)
    BY DEF TypedMaps, TypeOK, Traits
  <2>3. traits[using.trait] \in [methods : Table, sends : Needs]
    BY <2>1, <2>2, ElementOfSeq
  <2> QED
    BY <2>1, <2>3
<1>3. Following(t, using.it) \/ Later(t, using.it) # {}
  BY DEF UsesNext
<1>4. /\ u \in [idx : -1 .. Capa - 1, pos : Nat] /\ u.idx >= 0 /\ u.pos \in DOMAIN t.entries[u.idx]
      /\ At(t, u).key \in Keys /\ At(t, u).val \in Values
  BY <1>1, <1>2, <1>3, NextIsAnEntry
<1>5. /\ using' = [using EXCEPT !.it = u]
      /\ UNCHANGED <<super, klass, used, traits, bodies, mode>>
      /\ \/ table' = [table EXCEPT ![using.class] = Added(@, At(t, u).key, At(t, u).val)]
         \/ table' = table
  BY DEF UsesNext
<1> HIDE DEF u
<1>6. using' \in [class : Classes, trait : Traits, it : [idx : -1 .. Capa - 1, pos : Nat]]
      /\ using'.it = u /\ using'.trait = using.trait
  BY <1>1, <1>4, <1>5
<1>7. /\ Classes' = Classes /\ Traits' = Traits
  BY <1>5 DEF Classes, Traits
<1>8. /\ table' \in Seq(Table) /\ Len(table') = Len(table)
      /\ \A d \in Classes : WellFormed(table'[d])
  <2>1. CASE table' = table
    BY <2>1 DEF TypedMaps, TypeOK, TablesAreMaps
  <2>2. CASE table' = [table EXCEPT ![using.class] = Added(@, At(t, u).key, At(t, u).val)]
    BY <1>2, <1>4, <1>5, <2>2, DefineTyped
  <2> QED
    BY <1>5, <2>1, <2>2
<1>9. u.idx # -1
  BY <1>4
<1>10. TypeOK'
  BY <1>4, <1>5, <1>6, <1>7, <1>8, <1>9 DEF TypedMaps, TypeOK
<1>11. TablesAreMaps'
  BY <1>5, <1>7, <1>8 DEF TypedMaps, TablesAreMaps
<1> QED
  BY <1>10, <1>11 DEF TypedMaps

LEMMA UsesEndTyped ==
  ASSUME TypedMaps, UsesEnd
  PROVE  TypedMaps'
<1>1. using.class \in Classes /\ using.trait \in Traits /\ Traits \subseteq Nat
  BY DEF UsesEnd, TypedMaps, TypeOK, Traits
<1>2. used \in Seq(Seq(Nat)) /\ Len(used) = Len(super) /\ Classes = 1 .. Len(used)
  BY DEF TypedMaps, TypeOK, Classes
<1> DEFINE now == Append(used[using.class], using.trait)
<1>3. used[using.class] \in Seq(Nat)
      /\ \A i \in DOMAIN used[using.class] : used[using.class][i] \in Traits
  BY SMTT(30), <1>1, <1>2 DEF TypedMaps, TypeOK
<1>4. now \in Seq(Nat) /\ \A i \in DOMAIN now : now[i] \in Traits
  <2> DEFINE l == used[using.class]
             k == using.trait
  <2>1. l \in Seq(Nat) /\ k \in Nat /\ k \in Traits /\ \A i \in 1 .. Len(l) : l[i] \in Traits
    <3>1. DOMAIN l = 1 .. Len(l)
      BY <1>3, LenProperties
    <3> QED
      BY <1>1, <1>3, <3>1
  <2> HIDE DEF l, k
  <2>2. /\ Append(l, k) \in Seq(Nat) /\ DOMAIN Append(l, k) = 1 .. Len(l) + 1 /\ Len(l) \in Nat
        /\ \A i \in 1 .. Len(l) + 1 : Append(l, k)[i] = IF i = Len(l) + 1 THEN k ELSE l[i]
    BY <2>1
  <2>3. \A i \in 1 .. Len(l) + 1 : i = Len(l) + 1 \/ i \in 1 .. Len(l)
    BY <2>2
  <2> QED
    BY <2>1, <2>2, <2>3 DEF l, k
<1>5. /\ used' = [used EXCEPT ![using.class] = now] /\ using' = NoUse
      /\ UNCHANGED <<super, klass, table, traits, bodies, mode>>
  BY DEF UsesEnd, Pushed
<1> HIDE DEF now
<1>6. /\ used' \in Seq(Seq(Nat)) /\ Len(used') = Len(super)
      /\ \A c \in Classes : \A i \in DOMAIN used'[c] : used'[c][i] \in Traits
  <2>1. used' \in Seq(Seq(Nat)) /\ Len(used') = Len(used)
        /\ \A c \in Classes : used'[c] = IF c = using.class THEN now ELSE used[c]
    BY <1>1, <1>2, <1>4, <1>5
  <2>2. \A c \in Classes : \A i \in DOMAIN used[c] : used[c][i] \in Traits
    BY DEF TypedMaps, TypeOK
  <2> QED
    BY <1>2, <1>4, <2>1, <2>2
<1>7. Classes' = Classes /\ Traits' = Traits
  BY <1>5 DEF Classes, Traits
<1>8. TypeOK'
  BY <1>5, <1>6, <1>7 DEF TypedMaps, TypeOK
<1>9. TablesAreMaps'
  BY <1>5, <1>7 DEF TypedMaps, TablesAreMaps
<1> QED
  BY <1>8, <1>9 DEF TypedMaps

-----------------------------------------------------------------------------
(* Bodies, and all the actions together.                                   *)

LEMMA BodiesTyped ==
  ASSUME TypedMaps, (\E c \in Visible : run_body(c)) \/ BodyEnds \/ BodyUnwinds
  PROVE  TypedMaps'
<1>1. bodies \in Seq(Classes)
  BY DEF TypedMaps, TypeOK
<1>2. UNCHANGED <<super, klass, table, used, traits, using, mode>>
  BY DEF run_body, BodyEnds, BodyUnwinds
<1>3. bodies' \in Seq(Classes)
  <2>1. CASE \E c \in Visible : run_body(c)
    <3>1. PICK c \in Visible : bodies' = Append(bodies, c)
      BY <2>1 DEF run_body
    <3>2. c \in Classes
      BY VisibleAreClasses DEF TypedMaps
    <3> QED
      BY <1>1, <3>1, <3>2
  <2>2. CASE BodyEnds \/ BodyUnwinds
    <3>1. bodies # <<>> /\ bodies' = SubSeq(bodies, 1, Len(bodies) - 1)
      BY <2>2 DEF BodyEnds, BodyUnwinds
    <3> QED
      BY <1>1, <3>1
  <2> QED
    BY <2>1, <2>2
<1>4. Classes' = Classes /\ Traits' = Traits
  BY <1>2 DEF Classes, Traits
<1> QED
  BY <1>2, <1>3, <1>4 DEF TypedMaps, TypeOK, TablesAreMaps

\* A step that leaves all but top, outcome and mode alone.
LEMMA StillTyped ==
  ASSUME TypedMaps, UNCHANGED <<super, klass, table, used, traits, bodies, using>>,
         mode' \in {"running", "aborted", "behind"}
  PROVE  TypedMaps'
BY DEF TypedMaps, TypeOK, TablesAreMaps, Classes, Traits

LEMMA NextTyped == TypedMaps /\ [Next]_vars => TypedMaps'
<1> SUFFICES ASSUME TypedMaps, [Next]_vars PROVE TypedMaps'
  OBVIOUS
<1>0. mode \in {"running", "aborted", "behind"} /\ Visible \subseteq Classes
  BY VisibleAreClasses DEF TypedMaps, TypeOK
<1>1. ASSUME NEW s \in Visible, NEW name \in ClassNames, new_subclass(s, name) PROVE TypedMaps'
  BY <1>1, SubclassTyped
<1>2. ASSUME NEW c \in Visible, NEW name \in Keys, NEW m \in Written, add_method(c, name, m)
      PROVE  TypedMaps'
  BY <1>0, <1>2, DefineTyped DEF add_method, Define, Written
<1>3. ASSUME NEW c \in Visible, NEW name \in Keys, NEW m \in Written, add_scope_method(c, name, m)
      PROVE  TypedMaps'
  <2>1. klass[c] \in Classes
    BY <1>0, <1>3 DEF TypedMaps, TypeOK
  <2> QED
    BY <1>3, <2>1, DefineTyped DEF add_scope_method, Define, Written
<1>4. ASSUME NEW c \in Visible, NEW from \in Keys, NEW to \in Keys, alias_method(c, from, to)
      PROVE  TypedMaps'
  <2>1. CASE instance_method_p(c, from)
    <3>1. Lookup(c, from) \in Values
      BY <2>1 DEF instance_method_p
    <3> QED
      BY <1>0, <1>4, <2>1, <3>1, DefineTyped DEF alias_method, Define
  <2>2. CASE ~instance_method_p(c, from)
    BY <1>4, <2>2, StillTyped DEF alias_method
  <2> QED
    BY <2>1, <2>2
<1>5. ASSUME NEW sends \in Needs, trait_new(sends) PROVE TypedMaps'
  BY <1>5, NewTraitTyped
<1>6. ASSUME NEW t \in Traits, NEW name \in Keys, NEW m \in Written, trait_add_method(t, name, m)
      PROVE  TypedMaps'
  BY <1>6, TraitTyped
<1>7. ASSUME NEW c \in Visible, NEW t \in Traits, uses_trait(c, t) PROVE TypedMaps'
  <2>1. using' = [class |-> c, trait |-> t, it |-> Start]
        /\ UNCHANGED <<super, klass, table, used, traits, bodies, mode>>
    BY <1>7 DEF uses_trait
  <2>2. Classes' = Classes /\ Traits' = Traits /\ c \in Classes
    BY <1>0, <2>1 DEF Classes, Traits
  <2>3. Capa \in Nat /\ using'.it.idx = -1 /\ using'.it.pos = 0
    BY <2>1, CapaAssumption DEF Start
  <2>4. using' \in [class : Classes, trait : Traits, it : [idx : -1 .. Capa - 1, pos : Nat]]
    BY <2>1, <2>2, <2>3, CapaAssumption DEF Start
  <2>5. ~(using'.it.idx >= 0)
    BY <2>3
  <2> QED
    BY <2>1, <2>2, <2>3, <2>4, <2>5 DEF TypedMaps, TypeOK, TablesAreMaps
<1>8. CASE UsesNext
  BY <1>8, UsesNextTyped
<1>9. CASE UsesEnd
  BY <1>9, UsesEndTyped
<1>10. CASE UsesBehind
  BY <1>10, StillTyped DEF UsesBehind
<1>11. CASE (\E c \in Visible : run_body(c)) \/ BodyEnds \/ BodyUnwinds
  BY <1>11, BodiesTyped
<1>12. ASSUME NEW c \in Visible, new_instance(c) PROVE TypedMaps'
  BY <1>0, <1>12, StillTyped DEF new_instance
<1>13. CASE Stopped
  BY <1>0, <1>13, StillTyped DEF Stopped, vars
<1>14. CASE UNCHANGED vars
  BY <1>0, <1>14, StillTyped DEF vars
<1> QED
  BY <1>1, <1>2, <1>3, <1>4, <1>5, <1>6, <1>7, <1>8, <1>9, <1>10, <1>11, <1>12, <1>13, <1>14
     DEF Next

\* Whatever a program defines, aliases and uses, every method table stays one
\* that lookup can trust (a name is in the chain of its hash and only once), and
\* classes, traits and the iterator of uses are what their types say.
THEOREM TablesStayMaps == Spec => []TypedMaps
BY InitTyped, NextTyped, PTL DEF Spec

\* A class adds to what it stands on and gives it back: a method added to any class
\* is the one lookup gives for that class and name.
THEOREM DefinitionsAreFound ==
  ASSUME TypedMaps, NEW c \in Classes, NEW name \in Keys, NEW m \in Values, Define(c, name, m)
  PROVE  /\ Find(table'[c], name) = m
         /\ \A n \in Keys \ {name} : Find(table'[c], n) = Find(table[c], n)
         /\ \A d \in Classes \ {c}, n \in Keys : Find(table'[d], n) = Find(table[d], n)
<1>1. table \in Seq(Table) /\ Classes = 1 .. Len(table) /\ WellFormed(table[c])
  BY DEF TypedMaps, TypeOK, TablesAreMaps, Classes
<1>2. table[c] \in Table
  BY <1>1, ElementOfSeq
<1>3. table' = [table EXCEPT ![c] = Added(table[c], name, m)]
  BY DEF Define
<1>4. table'[c] = Added(table[c], name, m) /\ \A d \in Classes \ {c} : table'[d] = table[d]
  BY <1>1, <1>3
<1> QED
  BY <1>1, <1>2, <1>4, AddedIsAnUpdate

-----------------------------------------------------------------------------
(* Lookup.  Superclasses have smaller numbers than their subclasses, so    *)
(* what holds of a class when it holds of its superclass holds of all.     *)

\* Superclasses are made before their subclasses.
Ordered(parent) == Len(parent) \in Nat /\ \A c \in 1 .. Len(parent) : parent[c] \in 0 .. c - 1

LEMMA NearestIs ==
  ASSUME NEW own, NEW parent, NEW name, Ordered(parent), NEW class \in 0 .. Len(parent)
  PROVE  Nearest(own, parent, class, name) =
           IF class = 0 THEN NotDefined
           ELSE IF own[class][name] # NotDefined THEN own[class][name]
           ELSE Nearest(own, parent, parent[class], name)
<1> DEFINE body(f, c) == IF c = 0 THEN NotDefined
                         ELSE IF own[c][name] # NotDefined THEN own[c][name]
                         ELSE f[parent[c]]
           upto(f, n) == f = [c \in 0 .. n |-> body(f, c)]
           bad == {n \in 0 .. Len(parent) : ~ \E f : upto(f, n)}
<1>1. bad = {}
  <2> SUFFICES ASSUME bad # {} PROVE FALSE
    OBVIOUS
  <2>1. PICK n \in bad : \A m \in bad : n <= m
    <3>1. bad \in SUBSET Nat
      BY DEF Ordered
    <3> HIDE DEF bad
    <3> QED
      BY <3>1, SmallestOfNat
  <2>2. n \in 0 .. Len(parent) /\ Len(parent) \in Nat /\ ~ \E f : upto(f, n)
    BY DEF Ordered
  <2>3. CASE n = 0
    <3> DEFINE g == [c \in 0 .. 0 |-> NotDefined]
    <3>1. upto(g, 0)
      OBVIOUS
    <3> QED
      BY <2>2, <2>3, <3>1
  <2>4. CASE n # 0
    <3>1. n - 1 \in 0 .. Len(parent) /\ n - 1 \notin bad
      BY <2>1, <2>2, <2>4
    <3>2. PICK f : upto(f, n - 1)
      BY <3>1
    <3> DEFINE g == [c \in 0 .. n |-> IF c = n THEN body(f, n) ELSE f[c]]
    <3>3. ASSUME NEW c \in 0 .. n PROVE g[c] = body(g, c)
      <4>1. c = n \/ c \in 0 .. n - 1
        BY <2>2
      <4>2. c # 0 => parent[c] \in 0 .. n - 1 /\ parent[c] \in 0 .. n /\ parent[c] # n
        BY <2>2 DEF Ordered
      <4>3. body(g, c) = body(f, c)
        BY <4>2
      <4>4. CASE c = n
        BY <4>3, <4>4
      <4>5. CASE c \in 0 .. n - 1
        BY <2>2, <3>2, <4>3, <4>5
      <4> QED
        BY <4>1, <4>4, <4>5
    <3>4. upto(g, n)
      BY <3>3
    <3> QED
      BY <2>2, <3>4
  <2> QED
    BY <2>3, <2>4
<1>2. \E f : upto(f, Len(parent))
  BY <1>1 DEF Ordered
<1> DEFINE found == CHOOSE f : upto(f, Len(parent))
<1>3. upto(found, Len(parent))
  BY <1>2
<1>4. \A c : Nearest(own, parent, c, name) = found[c]
  BY DEF Nearest
<1> HIDE DEF found
<1>5. class # 0 => parent[class] \in 0 .. Len(parent)
  BY DEF Ordered
<1> QED
  BY <1>3, <1>4, <1>5

\* A name that is understood stays understood when classes are added to and more
\* of them are made.
LEMMA NearestGrows ==
  ASSUME NEW own, NEW super1, NEW own2, NEW super2, NEW name, Ordered(super1), Ordered(super2),
         Len(super1) <= Len(super2),
         \A c \in 1 .. Len(super1) : super2[c] = super1[c],
         \A c \in 1 .. Len(super1) : own[c][name] # NotDefined => own2[c][name] # NotDefined,
         NEW class \in 1 .. Len(super1), Nearest(own, super1, class, name) # NotDefined
  PROVE  Nearest(own2, super2, class, name) # NotDefined
<1> DEFINE before(c) == Nearest(own, super1, c, name)
           after(c) == Nearest(own2, super2, c, name)
           bad == {c \in 0 .. Len(super1) : before(c) # NotDefined /\ after(c) = NotDefined}
<1>1. /\ Len(super1) \in Nat /\ Len(super2) \in Nat /\ \A c \in 1 .. Len(super1) : super1[c] \in 0 .. c - 1
      /\ \A c \in 0 .. Len(super1) : c \in 0 .. Len(super2)
  BY DEF Ordered
<1>2. \A c \in 0 .. Len(super1) :
        before(c) = IF c = 0 THEN NotDefined ELSE IF own[c][name] # NotDefined THEN own[c][name] ELSE before(super1[c])
  BY NearestIs
<1>3. \A c \in 0 .. Len(super1) :
        after(c) = IF c = 0 THEN NotDefined ELSE IF own2[c][name] # NotDefined THEN own2[c][name] ELSE after(super2[c])
  BY <1>1, NearestIs
<1> HIDE DEF before, after
<1>4. bad = {}
  <2> SUFFICES ASSUME bad # {} PROVE FALSE
    OBVIOUS
  <2>1. PICK c \in bad : \A d \in bad : c <= d
    <3>1. bad \in SUBSET Nat
      BY <1>1
    <3> HIDE DEF bad
    <3> QED
      BY <3>1, SmallestOfNat
  <2>2. c \in 0 .. Len(super1) /\ before(c) # NotDefined /\ after(c) = NotDefined /\ c # 0
    BY <1>2
  <2>3. c \in 1 .. Len(super1) /\ super1[c] \in 0 .. c - 1 /\ super1[c] \in 0 .. Len(super1) /\ super1[c] < c
    BY <1>1, <2>2
  <2>4. own2[c][name] = NotDefined /\ after(super2[c]) = NotDefined
    BY <1>3, <2>2
  <2>5. own[c][name] = NotDefined /\ before(super1[c]) # NotDefined
    BY <1>2, <2>2, <2>3, <2>4
  <2>6. super1[c] \in bad
    BY <2>3, <2>4, <2>5
  <2>7. ~(c <= super1[c])
    BY <2>3
  <2> QED
    BY <2>1, <2>6, <2>7
<1> QED
  BY <1>1, <1>4 DEF before, after

\* What a table gives is a method or nothing.
LEMMA FindTyped ==
  ASSUME NEW t \in Table, WellFormed(t), NEW n \in Keys
  PROVE  Find(t, n) \in Values \cup {NotDefined}
<1>1. CASE Has(t, n)
  <2>1. PICK i \in DOMAIN Bucket(t, n) : Bucket(t, n)[i].key = n
    BY <1>1 DEF Has
  <2>2. Find(t, n) = Bucket(t, n)[i].val
    BY <2>1, FindGives
  <2>3. Bucket(t, n) \in Seq(Entry)
    BY BucketType
  <2>4. Bucket(t, n)[i] \in Entry
    BY <2>3
  <2> QED
    BY <2>2, <2>4 DEF Entry
<1>2. CASE ~Has(t, n)
  BY <1>2 DEF Find, None, NotDefined
<1> QED
  BY <1>1, <1>2

\* What a class gives itself, by its table.
LEMMA OwnTyped ==
  ASSUME TypedMaps
  PROVE  /\ Ordered(super) /\ Classes = 1 .. Len(super) /\ Len(table) = Len(super) /\ table \in Seq(Table)
         /\ \A c \in Classes : table[c] \in Table /\ WellFormed(table[c])
         /\ \A c \in Classes, n \in Keys : Own[c][n] = Find(table[c], n) /\ Own[c][n] \in Values \cup {NotDefined}
<1>1. /\ super \in Seq(Nat) /\ table \in Seq(Table) /\ Len(table) = Len(super)
      /\ \A c \in Classes : super[c] < c
      /\ \A c \in Classes : WellFormed(table[c])
      /\ Classes = 1 .. Len(super) /\ Len(super) \in Nat
  BY LenProperties DEF TypedMaps, TypeOK, TablesAreMaps, Classes
<1>2. \A c \in Classes : super[c] \in 0 .. c - 1
  <2>1. \A c \in Classes : super[c] \in Nat /\ c \in Nat
    BY <1>1, ElementOfSeq
  <2> QED
    BY <1>1, <2>1
<1>3. \A c \in Classes : table[c] \in Table
  BY <1>1, ElementOfSeq
<1>4. \A c \in Classes, n \in Keys : Find(table[c], n) \in Values \cup {NotDefined}
  BY <1>1, <1>3, FindTyped
<1> QED
  BY <1>1, <1>2, <1>3, <1>4 DEF Ordered, Own

\* Lookup gives a method or nothing, so what is understood is what is found.
LEMMA LookupTyped ==
  ASSUME TypedMaps, NEW class \in Classes, NEW name \in Keys
  PROVE  /\ Lookup(class, name) \in Values \cup {NotDefined}
         /\ instance_method_p(class, name) <=> Lookup(class, name) # NotDefined
<1> DEFINE found(c) == Lookup(c, name)
           bad == {c \in 0 .. Len(super) : found(c) \notin Values \cup {NotDefined}}
<1>1. /\ Ordered(super) /\ Classes = 1 .. Len(super)
      /\ \A c \in Classes, n \in Keys : Own[c][n] \in Values \cup {NotDefined}
  BY OwnTyped
<1>2. \A c \in 0 .. Len(super) :
        found(c) = IF c = 0 THEN NotDefined ELSE IF Own[c][name] # NotDefined THEN Own[c][name] ELSE found(super[c])
  BY <1>1, NearestIs DEF Lookup
<1> HIDE DEF found
<1>3. bad = {}
  <2> SUFFICES ASSUME bad # {} PROVE FALSE
    OBVIOUS
  <2>1. PICK c \in bad : \A d \in bad : c <= d
    <3>1. bad \in SUBSET Nat
      BY <1>1 DEF Ordered
    <3> HIDE DEF bad
    <3> QED
      BY <3>1, SmallestOfNat
  <2>2. c \in 1 .. Len(super) /\ super[c] \in 0 .. c - 1 /\ super[c] \in 0 .. Len(super) /\ super[c] < c
    BY <1>1, <1>2 DEF Ordered
  <2>3. Own[c][name] = NotDefined /\ found(c) = found(super[c])
    BY <1>1, <1>2, <2>2
  <2>4. super[c] \in bad /\ ~(c <= super[c])
    BY <2>2, <2>3
  <2> QED
    BY <2>1, <2>4
<1>4. NotDefined \notin Values
  BY ValuesAssumption DEF None, NotDefined
<1> QED
  BY <1>1, <1>3, <1>4 DEF found, instance_method_p

\* The same of the next state.
LEMMA LookupTypedAgain ==
  TypedMaps' => /\ Ordered(super') /\ Classes' = 1 .. Len(super')
                /\ \A c \in Classes', n \in Keys :
                     /\ Lookup(c, n)' \in Values \cup {NotDefined}
                     /\ instance_method_p(c, n)' <=> Lookup(c, n)' # NotDefined
<1>1. TypedMaps => /\ Ordered(super) /\ Classes = 1 .. Len(super)
                   /\ \A c \in Classes, n \in Keys :
                        /\ Lookup(c, n) \in Values \cup {NotDefined}
                        /\ instance_method_p(c, n) <=> Lookup(c, n) # NotDefined
  BY OwnTyped, LookupTyped
<1>2. (TypedMaps => /\ Ordered(super) /\ Classes = 1 .. Len(super)
                    /\ \A c \in Classes, n \in Keys :
                         /\ Lookup(c, n) \in Values \cup {NotDefined}
                         /\ instance_method_p(c, n) <=> Lookup(c, n) # NotDefined)'
  BY <1>1, PTL
<1> QED
  BY <1>2 DEF Ordered

LEMMA DefineGives ==
  ASSUME TypedMaps, NEW c \in Classes, NEW name \in Keys, NEW m \in Values,
         table' = [table EXCEPT ![c] = Added(@, name, m)]
  PROVE  \A d \in Classes, n \in Keys :
           Find(table'[d], n) = IF d = c /\ n = name THEN m ELSE Find(table[d], n)
<1>1. Classes = 1 .. Len(table) /\ table \in Seq(Table) /\ table[c] \in Table /\ WellFormed(table[c])
  BY OwnTyped
<1>2. table'[c] = Added(table[c], name, m) /\ \A d \in Classes \ {c} : table'[d] = table[d]
  BY <1>1
<1>3. \A n \in Keys : Find(Added(table[c], name, m), n) = IF n = name THEN m ELSE Find(table[c], n)
  BY <1>1, AddedIsAnUpdate
<1> QED
  BY <1>2, <1>3

\* What classes there are keep their places and what they define.
Grown ==
  /\ Len(super) <= Len(super')
  /\ \A c \in Classes :
       /\ c \in Classes' /\ super'[c] = super[c] /\ klass'[c] = klass[c]
       /\ \A n \in Keys : Own[c][n] # NotDefined => Own'[c][n] # NotDefined

\* The trait that is used, and the entry that next() comes to.
LEMMA UsedEntry ==
  ASSUME TypedMaps, UsesNext
  PROVE  LET t == traits[using.trait].methods
             u == NextEntry(t, using.it)
         IN /\ using.class \in Classes /\ using.trait \in Traits /\ t \in Table /\ WellFormed(t)
            /\ using.it \in [idx : -1 .. Capa - 1, pos : Nat]
            /\ u \in [idx : -1 .. Capa - 1, pos : Nat] /\ u.idx >= 0 /\ u.pos \in DOMAIN t.entries[u.idx]
            /\ At(t, u).key \in Keys /\ At(t, u).val \in Values
<1> DEFINE t == traits[using.trait].methods
<1>1. /\ using \in [class : Classes, trait : Traits, it : [idx : -1 .. Capa - 1, pos : Nat]]
      /\ using.it.idx >= 0 => using.it.pos \in DOMAIN t.entries[using.it.idx]
      /\ using.it.idx = -1 => using.it.pos = 0
  BY DEF UsesNext, TypedMaps, TypeOK
<1>2. /\ using.class \in Classes /\ using.trait \in Traits
      /\ using.it \in [idx : -1 .. Capa - 1, pos : Nat]
  BY <1>1
<1>3. t \in Table /\ WellFormed(t)
  <2>2. traits \in Seq([methods : Table, sends : Needs]) /\ Traits = 1 .. Len(traits)
    BY DEF TypedMaps, TypeOK, Traits
  <2>3. traits[using.trait] \in [methods : Table, sends : Needs]
    BY <1>2, <2>2, ElementOfSeq
  <2> QED
    BY <1>2, <2>3 DEF TypedMaps, TablesAreMaps
<1>4. Following(t, using.it) \/ Later(t, using.it) # {}
  BY DEF UsesNext
<1> HIDE DEF t
<1>5. LET u == NextEntry(t, using.it)
      IN /\ u \in [idx : -1 .. Capa - 1, pos : Nat] /\ u.idx >= 0 /\ u.pos \in DOMAIN t.entries[u.idx]
         /\ At(t, u).key \in Keys /\ At(t, u).val \in Values
  BY <1>1, <1>2, <1>3, <1>4, NextIsAnEntry DEF t
<1> QED
  BY <1>2, <1>3, <1>5 DEF t

LEMMA SameTablesGrow ==
  ASSUME TypedMaps, UNCHANGED <<super, klass>>,
         \A c \in Classes, n \in Keys : Find(table[c], n) # NotDefined => Find(table'[c], n) # NotDefined
  PROVE  Grown
<1>1. Len(super) \in Nat /\ Classes' = Classes
  BY OwnTyped DEF Ordered, Classes
<1> QED
  BY <1>1 DEF Grown, Own

\* What becomes of a sequence that two elements are put behind.
LEMMA TwoMore ==
  ASSUME NEW S, NEW s, NEW s2, NEW a, NEW b, s \in Seq(S), a \in S, b \in S, s2 = s \o <<a, b>>
  PROVE  /\ Len(s2) = Len(s) + 2
         /\ \A i \in 1 .. Len(s) : s2[i] = s[i]
         /\ s2[Len(s) + 1] = a /\ s2[Len(s) + 2] = b
BY Joined

\* What new_subclass adds: the metaclass under that of the superclass, and the class.
LEMMA SubclassFacts ==
  ASSUME TypedMaps, NEW s \in Visible, NEW name \in ClassNames, new_subclass(s, name)
  PROVE  LET n == Len(super) IN
         /\ n \in Nat /\ FirstClasses <= n /\ Len(klass) = n /\ s \in 1 .. n /\ klass[s] \in 1 .. n
         /\ Len(super') = n + 2 /\ Len(klass') = n + 2 /\ Len(table') = n + 2
         /\ \A c \in 1 .. n : super'[c] = super[c] /\ klass'[c] = klass[c] /\ table'[c] = table[c]
         /\ super'[n + 1] = klass[s] /\ super'[n + 2] = s
         /\ klass'[n + 1] = klass[klass[s]] /\ klass'[n + 2] = n + 1
         /\ table'[n + 1] = NewTable /\ table'[n + 2] = NewTable
<1>1. /\ super \in Seq(Nat) /\ klass \in Seq(Nat) /\ table \in Seq(Table)
      /\ Len(klass) = Len(super) /\ Len(table) = Len(super) /\ FirstClasses <= Len(super)
      /\ Classes = 1 .. Len(super) /\ Len(super) \in Nat /\ \A c \in Classes : klass[c] \in Classes
  BY LenProperties DEF TypedMaps, TypeOK, Classes
<1>2. s \in Classes /\ klass[s] \in Classes /\ klass[klass[s]] \in Classes
  BY <1>1, VisibleAreClasses DEF TypedMaps
<1>3. /\ super' = super \o <<klass[s], s>>
      /\ klass' = klass \o <<klass[klass[s]], Len(klass) + 1>>
      /\ table' = table \o <<NewTable, NewTable>>
  BY DEF new_subclass, MetaSuper
<1>4. klass[s] \in Nat /\ s \in Nat /\ klass[klass[s]] \in Nat /\ Len(klass) + 1 \in Nat /\ NewTable \in Table
  BY <1>1, <1>2, NewTableIsMap
<1>5. /\ Len(super') = Len(super) + 2
      /\ \A i \in 1 .. Len(super) : super'[i] = super[i]
      /\ super'[Len(super) + 1] = klass[s] /\ super'[Len(super) + 2] = s
  <2> DEFINE a == klass[s]
             b == s
             x == super'
  <2>1. super \in Seq(Nat) /\ a \in Nat /\ b \in Nat /\ x = super \o <<a, b>>
    BY <1>1, <1>3, <1>4
  <2> HIDE DEF a, b, x
  <2>2. /\ Len(x) = Len(super) + 2
        /\ \A i \in 1 .. Len(super) : x[i] = super[i]
        /\ x[Len(super) + 1] = a /\ x[Len(super) + 2] = b
    BY <2>1, TwoMore
  <2> QED
    BY <2>2 DEF a, b, x
<1>6. /\ Len(klass') = Len(klass) + 2
      /\ \A i \in 1 .. Len(klass) : klass'[i] = klass[i]
      /\ klass'[Len(klass) + 1] = klass[klass[s]] /\ klass'[Len(klass) + 2] = Len(klass) + 1
  <2> DEFINE a == klass[klass[s]]
             b == Len(klass) + 1
             x == klass'
  <2>1. klass \in Seq(Nat) /\ a \in Nat /\ b \in Nat /\ x = klass \o <<a, b>>
    BY <1>1, <1>3, <1>4
  <2> HIDE DEF a, b, x
  <2>2. /\ Len(x) = Len(klass) + 2
        /\ \A i \in 1 .. Len(klass) : x[i] = klass[i]
        /\ x[Len(klass) + 1] = a /\ x[Len(klass) + 2] = b
    BY <2>1, TwoMore
  <2> QED
    BY <2>2 DEF a, b, x
<1>7. /\ Len(table') = Len(table) + 2
      /\ \A i \in 1 .. Len(table) : table'[i] = table[i]
      /\ table'[Len(table) + 1] = NewTable /\ table'[Len(table) + 2] = NewTable
  <2> DEFINE a == NewTable
             b == NewTable
             x == table'
  <2>1. table \in Seq(Table) /\ a \in Table /\ b \in Table /\ x = table \o <<a, b>>
    BY <1>1, <1>3, <1>4
  <2> HIDE DEF a, b, x
  <2>2. /\ Len(x) = Len(table) + 2
        /\ \A i \in 1 .. Len(table) : x[i] = table[i]
        /\ x[Len(table) + 1] = a /\ x[Len(table) + 2] = b
    BY <2>1, TwoMore
  <2> QED
    BY <2>2 DEF a, b, x
<1> QED
  BY <1>1, <1>2, <1>5, <1>6, <1>7

LEMMA StepGrows ==
  ASSUME TypedMaps, [Next]_vars
  PROVE  Grown
<1>0. Visible \subseteq Classes /\ NotDefined \notin Values
  BY VisibleAreClasses, ValuesAssumption DEF TypedMaps, None, NotDefined
<1>1. ASSUME NEW c \in Classes, NEW name \in Keys, NEW m \in Values,
             table' = [table EXCEPT ![c] = Added(@, name, m)], UNCHANGED <<super, klass>>
      PROVE  Grown
  <2>1. \A d \in Classes, n \in Keys :
          Find(table'[d], n) = IF d = c /\ n = name THEN m ELSE Find(table[d], n)
    BY <1>1, DefineGives
  <2>2. m # NotDefined
    BY <1>0
  <2>3. \A d \in Classes, n \in Keys : Find(table[d], n) # NotDefined => Find(table'[d], n) # NotDefined
    BY <2>1, <2>2
  <2> QED
    BY <1>1, <2>3, SameTablesGrow
<1>2. ASSUME UNCHANGED <<super, klass, table>> PROVE Grown
  BY <1>2, SameTablesGrow
<1>3. ASSUME NEW s \in Visible, NEW name \in ClassNames, new_subclass(s, name) PROVE Grown
  <2>1. /\ Len(super) \in Nat /\ Len(super') = Len(super) + 2
        /\ \A c \in 1 .. Len(super) : super'[c] = super[c] /\ klass'[c] = klass[c] /\ table'[c] = table[c]
    BY <1>3, SubclassFacts
  <2>2. \A c \in Classes : c \in Classes' /\ c \in 1 .. Len(super)
    BY <2>1 DEF Classes
  <2> QED
    BY <2>1, <2>2 DEF Grown, Own
<1>4. ASSUME NEW c \in Visible, NEW name \in Keys, NEW m \in Written,
             add_method(c, name, m) \/ add_scope_method(c, name, m)
      PROVE  Grown
  <2>1. c \in Classes /\ klass[c] \in Classes /\ m \in Values
    BY <1>0 DEF TypedMaps, TypeOK, Written
  <2> QED
    BY <1>1, <1>4, <2>1 DEF add_method, add_scope_method, Define
<1>5. ASSUME NEW c \in Visible, NEW from \in Keys, NEW to \in Keys, alias_method(c, from, to) PROVE Grown
  <2>1. CASE instance_method_p(c, from)
    BY <1>0, <1>1, <1>5, <2>1 DEF alias_method, Define, instance_method_p
  <2>2. CASE ~instance_method_p(c, from)
    BY <1>2, <1>5, <2>2 DEF alias_method
  <2> QED
    BY <2>1, <2>2
<1>6. ASSUME UsesNext PROVE Grown
  <2> DEFINE u == NextEntry(traits[using.trait].methods, using.it)
             key == At(traits[using.trait].methods, u).key
             val == At(traits[using.trait].methods, u).val
             class == using.class
  <2>1. key \in Keys /\ val \in Values /\ class \in Classes
    BY <1>6, UsedEntry
  <2>2. super' = super /\ klass' = klass
    BY <1>6 DEF UsesNext
  <2>3. table' = table \/ table' = [table EXCEPT ![class] = Added(@, key, val)]
    BY <1>6 DEF UsesNext
  <2> HIDE DEF key, val, class
  <2>4. ASSUME table' = table PROVE Grown
    BY <1>2, <2>2, <2>4
  <2>5. ASSUME table' = [table EXCEPT ![class] = Added(@, key, val)] PROVE Grown
    BY <1>1, <2>1, <2>2, <2>5
  <2> QED
    BY <2>3, <2>4, <2>5
<1>7. CASE (\E sends \in Needs : trait_new(sends)) \/
           (\E t \in Traits, name \in Keys, m \in Written : trait_add_method(t, name, m))
  BY <1>2, <1>7 DEF trait_new, trait_add_method
<1>8. CASE (\E c \in Visible, t \in Traits : uses_trait(c, t)) \/ UsesEnd \/ UsesBehind
  BY <1>2, <1>8 DEF uses_trait, UsesEnd, UsesBehind
<1>9. CASE (\E c \in Visible : run_body(c)) \/ BodyEnds \/ BodyUnwinds
  BY <1>2, <1>9 DEF run_body, BodyEnds, BodyUnwinds
<1>10. CASE (\E c \in Visible : new_instance(c)) \/ Stopped \/ UNCHANGED vars
  BY <1>2, <1>10 DEF new_instance, Stopped, vars
<1> QED
  BY <1>3, <1>4, <1>5, <1>6, <1>7, <1>8, <1>9, <1>10 DEF Next

\* Nothing that is understood is ever lost.
LEMMA UnderstoodStays ==
  ASSUME TypedMaps, [Next]_vars, NEW c \in Classes, NEW n \in Keys, instance_method_p(c, n)
  PROVE  c \in Classes' /\ instance_method_p(c, n)'
<1>1. Grown /\ TypedMaps'
  BY StepGrows, NextTyped
<1>2. /\ Ordered(super) /\ Classes = 1 .. Len(super) /\ Lookup(c, n) # NotDefined
  BY OwnTyped, LookupTyped
<1>3. c \in Classes' /\ Ordered(super')
  BY <1>1, LookupTypedAgain DEF Grown
<1>4. Nearest(Own', super', c, n) # NotDefined
  BY <1>1, <1>2, <1>3, NearestGrows DEF Grown, Lookup
<1> QED
  BY <1>1, <1>3, <1>4, LookupTypedAgain DEF Lookup

-----------------------------------------------------------------------------
(* What a body found complete.                                             *)

\* A trait goes on sending what it sends.
LEMMA SendsStay ==
  ASSUME TypedMaps, [Next]_vars, NEW t \in Traits
  PROVE  t \in Traits' /\ traits'[t].sends = traits[t].sends /\ traits[t].sends \subseteq Keys
<1>1. /\ traits \in Seq([methods : Table, sends : Needs]) /\ Traits = 1 .. Len(traits) /\ Len(traits) \in Nat
      /\ \A n \in Traits : traits[n] \in [methods : Table, sends : Needs]
  BY ElementOfSeq, LenProperties DEF TypedMaps, TypeOK, Traits
<1>2. traits[t].sends \subseteq Keys
  BY <1>1, NeedsAssumption
<1>3. ASSUME traits' = traits PROVE t \in Traits' /\ traits'[t].sends = traits[t].sends
  BY <1>1, <1>3 DEF Traits
<1>4. ASSUME NEW sends \in Needs, trait_new(sends)
      PROVE  t \in Traits' /\ traits'[t].sends = traits[t].sends
  <2> DEFINE added == [methods |-> NewTable, sends |-> sends]
             R == [methods : Table, sends : Needs]
  <2>1. traits' = Append(traits, added) /\ added \in R /\ traits \in Seq(R) /\ t \in 1 .. Len(traits)
    BY <1>1, <1>4, NewTableIsMap DEF trait_new
  <2> HIDE DEF added, R
  <2>2. Len(traits') = Len(traits) + 1 /\ traits'[t] = traits[t]
    BY <2>1, AppendProperties
  <2> QED
    BY <1>1, <2>2 DEF Traits
<1>5. ASSUME NEW u \in Traits, NEW name \in Keys, NEW m \in Written, trait_add_method(u, name, m)
      PROVE  t \in Traits' /\ traits'[t].sends = traits[t].sends
  <2>1. traits' = [traits EXCEPT ![u].methods = Added(@, name, m)]
    BY <1>5 DEF trait_add_method
  <2>2. Len(traits') = Len(traits)
    BY <1>1, <2>1
  <2>3. traits'[t].sends = traits[t].sends
    BY <1>1, <2>1
  <2> QED
    BY <1>1, <2>2, <2>3 DEF Traits
<1>6. \/ traits' = traits
      \/ \E sends \in Needs : trait_new(sends)
      \/ \E u \in Traits, name \in Keys, m \in Written : trait_add_method(u, name, m)
  <2>1. CASE \/ \E s \in Visible, name \in ClassNames : new_subclass(s, name)
             \/ \E c \in Visible, name \in Keys, m \in Written : add_method(c, name, m)
             \/ \E c \in Visible, name \in Keys, m \in Written : add_scope_method(c, name, m)
    BY <2>1 DEF new_subclass, add_method, add_scope_method, Define
  <2>2. CASE \E c \in Visible, from, to \in Keys : alias_method(c, from, to)
    BY <2>2 DEF alias_method, Define
  <2>3. CASE (\E c \in Visible, u \in Traits : uses_trait(c, u)) \/ UsesNext \/ UsesEnd \/ UsesBehind
    BY <2>3 DEF uses_trait, UsesNext, UsesEnd, UsesBehind
  <2>4. CASE (\E c \in Visible : run_body(c)) \/ BodyEnds \/ BodyUnwinds
    BY <2>4 DEF run_body, BodyEnds, BodyUnwinds
  <2>5. CASE (\E c \in Visible : new_instance(c)) \/ Stopped \/ UNCHANGED vars
    BY <2>5 DEF new_instance, Stopped, vars
  <2> QED
    BY <2>1, <2>2, <2>3, <2>4, <2>5 DEF Next
<1> QED
  BY <1>2, <1>3, <1>4, <1>5, <1>6

\* Only the end of a body that found nothing missing takes a body from the stack
\* and answers run_body.
LEMMA OnlyBodyEnds ==
  ASSUME TypedMaps, Next, outcome'.of = "run_body", Len(bodies') < Len(bodies)
  PROVE  /\ BodyEnds /\ outcome'.class \in Classes /\ Missing(outcome'.class) = {}
         /\ UNCHANGED <<used, traits>>
<1>1. bodies \in Seq(Classes) /\ Len(bodies) \in Nat
  BY LenProperties DEF TypedMaps, TypeOK
<1>2. bodies' # bodies
  BY <1>1
<1>3. ASSUME NEW c \in Visible, run_body(c) PROVE FALSE
  <2>1. bodies' = Append(bodies, c) /\ c \in Classes
    BY <1>3, VisibleAreClasses DEF run_body, TypedMaps
  <2>2. Len(bodies') = Len(bodies) + 1
    BY <1>1, <2>1, AppendProperties
  <2> QED
    BY <1>1, <2>2
<1>4. ~ BodyUnwinds
  BY DEF BodyUnwinds, NoAnswer
<1>5. BodyEnds
  <2>1. CASE \/ \E s \in Visible, name \in ClassNames : new_subclass(s, name)
             \/ \E c \in Visible, name \in Keys, m \in Written : add_method(c, name, m)
             \/ \E c \in Visible, name \in Keys, m \in Written : add_scope_method(c, name, m)
    BY <1>2, <2>1 DEF new_subclass, add_method, add_scope_method, Define
  <2>2. CASE \E c \in Visible, from, to \in Keys : alias_method(c, from, to)
    BY <1>2, <2>2 DEF alias_method, Define
  <2>3. CASE (\E c \in Visible, u \in Traits : uses_trait(c, u)) \/ UsesNext \/ UsesEnd \/ UsesBehind
    BY <1>2, <2>3 DEF uses_trait, UsesNext, UsesEnd, UsesBehind
  <2>4. CASE (\E c \in Visible : new_instance(c)) \/ Stopped
    BY <1>2, <2>4 DEF new_instance, Stopped, vars
  <2>5. CASE \/ \E sends \in Needs : trait_new(sends)
             \/ \E u \in Traits, name \in Keys, m \in Written : trait_add_method(u, name, m)
    BY <1>2, <2>5 DEF trait_new, trait_add_method
  <2> QED
    BY <1>3, <1>4, <2>1, <2>2, <2>3, <2>4, <2>5 DEF Next
<1> DEFINE c == bodies[Len(bodies)]
<1>6. c \in Classes
  <2>1. bodies # <<>>
    BY <1>5 DEF BodyEnds
  <2>2. Len(bodies) \in 1 .. Len(bodies)
    BY <1>1, <2>1
  <2> QED
    BY <1>1, <2>2, ElementOfSeq
<1>7. outcome' = IF Missing(c) = {} THEN [of |-> "run_body", class |-> c] ELSE [of |-> "none"]
  BY <1>5 DEF BodyEnds
<1>8. UNCHANGED <<used, traits>>
  BY <1>5 DEF BodyEnds
<1> HIDE DEF c
<1> QED
  BY <1>5, <1>6, <1>7, <1>8

\* The inductive invariant of the classes that were found complete.
Complete == TypedMaps /\ checked \subseteq Classes \X Traits /\ CheckedTraitsAreMet

LEMMA InitComplete == BodiesInit => Complete
BY InitTyped DEF BodiesInit, Complete, CheckedTraitsAreMet

LEMMA NextComplete == Complete /\ [Step]_<<vars, checked>> => Complete'
<1> SUFFICES ASSUME Complete, [Step]_<<vars, checked>> PROVE Complete'
  OBVIOUS
<1>1. [Next]_vars
  BY DEF Step
<1>2. TypedMaps /\ TypedMaps'
  BY <1>1, NextTyped DEF Complete
<1>3. \A c \in Classes, n \in Keys :
        c \in Classes' /\ (instance_method_p(c, n) => instance_method_p(c, n)')
  BY <1>1, <1>2, UnderstoodStays, StepGrows DEF Grown
<1>4. \A t \in Traits : t \in Traits' /\ traits'[t].sends = traits[t].sends /\ traits[t].sends \subseteq Keys
  BY <1>1, <1>2, SendsStay
<1>5. ASSUME NEW p \in checked'
      PROVE  /\ p \in Classes \X Traits
             /\ \A n \in traits[p[2]].sends : instance_method_p(p[1], n)
  <2>0. CASE p \in checked
    BY <2>0 DEF Complete, CheckedTraitsAreMet
  <2> SUFFICES ASSUME p \notin checked
               PROVE  /\ p \in Classes \X Traits
                      /\ \A n \in traits[p[2]].sends : instance_method_p(p[1], n)
    BY <2>0
  <2>1. /\ Next /\ outcome'.of = "run_body" /\ Len(bodies') < Len(bodies)
        /\ p \in {<<outcome'.class, used[outcome'.class][i]>> : i \in DOMAIN used[outcome'.class]}
    BY <1>5 DEF Step
  <2> DEFINE c == outcome'.class
  <2>2. c \in Classes /\ Missing(c) = {} /\ traits' = traits
    BY <1>2, <2>1, OnlyBodyEnds
  <2> HIDE DEF c
  <2>3. PICK i \in DOMAIN used[c] : p = <<c, used[c][i]>>
    BY <2>1 DEF c
  <2>4. used[c][i] \in Traits
    BY <1>2, <2>2, <2>3 DEF TypedMaps, TypeOK
  <2>5. \A n \in traits[used[c][i]].sends : instance_method_p(c, n)
    BY <2>2, <2>3 DEF Missing
  <2> QED
    BY <2>2, <2>3, <2>4, <2>5
<1>6. ASSUME NEW p \in checked' PROVE p \in Classes' \X Traits'
  <2>1. PICK c \in Classes, t \in Traits : p = <<c, t>>
    BY <1>5
  <2>2. c \in Classes' /\ t \in Traits'
    BY <1>1, <1>2, <1>4, StepGrows DEF Grown
  <2> QED
    BY <2>1, <2>2
<1>7. ASSUME NEW p \in checked', NEW n \in traits'[p[2]].sends PROVE instance_method_p(p[1], n)'
  <2>1. PICK c \in Classes, t \in Traits : p = <<c, t>>
    BY <1>5
  <2>2. n \in traits[t].sends /\ n \in Keys
    BY <1>4, <1>7, <2>1
  <2>3. instance_method_p(c, n)
    BY <1>5, <2>1, <2>2
  <2>4. instance_method_p(c, n)'
    BY <1>3, <2>2, <2>3
  <2> QED
    BY <2>1, <2>4
<1> QED
  BY <1>2, <1>6, <1>7 DEF Complete, CheckedTraitsAreMet

\* A class whose body ended well understands for ever what the traits of its body
\* send, whatever is defined, aliased or used afterwards (check_traits,
\* vm/class.cpp, and the tables that only ever gain names).
THEOREM CompleteStaysComplete == BodiesSpec => []CheckedTraitsAreMet
<1>1. Complete => CheckedTraitsAreMet
  BY DEF Complete
<1> QED
  BY <1>1, InitComplete, NextComplete, PTL DEF BodiesSpec

\* new answers an unwind when allocate or initialize unwound.
LEMMA NextPassesUnwindsOn == NewPassesUnwindsOn /\ [Next]_vars => NewPassesUnwindsOn'
<1> SUFFICES ASSUME NewPassesUnwindsOn, [Next]_vars PROVE NewPassesUnwindsOn'
  OBVIOUS
<1>1. ASSUME NEW c \in Visible, new_instance(c) PROVE NewPassesUnwindsOn'
  <2>1. PICK a, i : outcome' = [of |-> "new", unwound |-> "unwind" \in {a.kind, i.kind},
                                answer |-> Answered(a, i).kind]
    BY <1>1 DEF new_instance
  <2>2. outcome'.unwound => Answered(a, i).kind = "unwind"
    BY <2>1 DEF Answered
  <2> QED
    BY <2>1, <2>2 DEF NewPassesUnwindsOn
<1>2. ASSUME outcome' = outcome \/ NoAnswer \/ outcome'.of = "run_body" PROVE NewPassesUnwindsOn'
  <2>1. NoAnswer => outcome'.of = "none"
    BY DEF NoAnswer
  <2> QED
    BY <1>2, <2>1 DEF NewPassesUnwindsOn
<1>3. CASE \/ \E s \in Visible, name \in ClassNames : new_subclass(s, name)
           \/ \E c \in Visible, name \in Keys, m \in Written : add_method(c, name, m)
           \/ \E c \in Visible, name \in Keys, m \in Written : add_scope_method(c, name, m)
  BY <1>2, <1>3 DEF new_subclass, add_method, add_scope_method
<1>4. CASE \E c \in Visible, from, to \in Keys : alias_method(c, from, to)
  BY <1>2, <1>4 DEF alias_method
<1>5. CASE \/ \E sends \in Needs : trait_new(sends)
           \/ \E t \in Traits, name \in Keys, m \in Written : trait_add_method(t, name, m)
  BY <1>2, <1>5 DEF trait_new, trait_add_method
<1>6. CASE (\E c \in Visible, t \in Traits : uses_trait(c, t)) \/ UsesNext \/ UsesEnd \/ UsesBehind
  BY <1>2, <1>6 DEF uses_trait, UsesNext, UsesEnd, UsesBehind
<1>7. CASE (\E c \in Visible : run_body(c)) \/ BodyUnwinds
  BY <1>2, <1>7 DEF run_body, BodyUnwinds
<1>9. CASE BodyEnds
  <2>1. outcome' = [of |-> "run_body", class |-> bodies[Len(bodies)]] \/ outcome' = [of |-> "none"]
    BY <1>9 DEF BodyEnds
  <2> QED
    BY <1>2, <2>1 DEF NoAnswer
<1>8. CASE Stopped \/ UNCHANGED vars
  BY <1>2, <1>8 DEF Stopped, vars
<1> QED
  BY <1>1, <1>3, <1>4, <1>5, <1>6, <1>7, <1>8, <1>9 DEF Next

\* Who calls new gets an unwind, and no instance, whenever allocate or initialize
\* unwound (class_new_instance, vm/class.cpp).
THEOREM UnwindsReachTheCaller == Spec => []NewPassesUnwindsOn
<1>1. Init => NewPassesUnwindsOn
  <2>1. Init => outcome = [of |-> "none"]
    BY DEF Init
  <2>2. outcome = [of |-> "none"] => outcome.of = "none"
    OBVIOUS
  <2> QED
    BY <2>1, <2>2 DEF NewPassesUnwindsOn
<1> QED
  BY <1>1, NextPassesUnwindsOn, PTL DEF Spec

-----------------------------------------------------------------------------
(* Superclasses and the metaclasses beside them.                           *)

\* The classes above a class are itself and those above its superclass.
LEMMA AboveIs ==
  ASSUME NEW parent, Ordered(parent), NEW class \in 1 .. Len(parent), NEW d \in Above(parent, class)
  PROVE  d \in 1 .. class /\ (d = class \/ d \in Above(parent, parent[class]))
<1> DEFINE body(f, c) == c = d \/ (c > d /\ f[parent[c]])
           upto(f, n) == f = [c \in 0 .. n |-> body(f, c)]
           bad == {n \in 0 .. Len(parent) : ~ \E f : upto(f, n)}
<1>0. d \in Nat /\ d # 0 /\ d \in 1 .. class
  BY DEF Above, Ordered
<1>1. bad = {}
  <2> SUFFICES ASSUME bad # {} PROVE FALSE
    OBVIOUS
  <2>1. PICK n \in bad : \A m \in bad : n <= m
    <3>1. bad \in SUBSET Nat
      BY DEF Ordered
    <3> HIDE DEF bad
    <3> QED
      BY <3>1, SmallestOfNat
  <2>2. n \in 0 .. Len(parent) /\ Len(parent) \in Nat /\ ~ \E f : upto(f, n)
    BY DEF Ordered
  <2>3. CASE n = 0
    <3> DEFINE g == [c \in 0 .. 0 |-> FALSE]
    <3>1. \A c \in 0 .. 0 : ~ body(g, c)
      BY <1>0
    <3>2. upto(g, 0)
      BY <3>1
    <3> QED
      BY <2>2, <2>3, <3>2
  <2>4. CASE n # 0
    <3>1. n - 1 \in 0 .. Len(parent) /\ n - 1 \notin bad
      BY <2>1, <2>2, <2>4
    <3>2. PICK f : upto(f, n - 1)
      BY <3>1
    <3> DEFINE g == [c \in 0 .. n |-> IF c = n THEN body(f, n) ELSE f[c]]
    <3>3. ASSUME NEW c \in 0 .. n PROVE g[c] = body(g, c)
      <4>1. c = n \/ c \in 0 .. n - 1
        BY <2>2
      <4>2. c # 0 => parent[c] \in 0 .. n - 1 /\ parent[c] \in 0 .. n /\ parent[c] # n
        BY <2>2 DEF Ordered
      <4>3. c # 0 => g[parent[c]] = f[parent[c]]
        BY <4>2
      <4>4. body(g, c) = body(f, c)
        BY <1>0, <4>3
      <4>5. CASE c = n
        BY <4>4, <4>5
      <4>6. CASE c \in 0 .. n - 1
        BY <2>2, <3>2, <4>4, <4>6
      <4> QED
        BY <4>1, <4>5, <4>6
    <3>4. upto(g, n)
      BY <3>3
    <3> QED
      BY <2>2, <3>4
  <2> QED
    BY <2>3, <2>4
<1>2. \E f : upto(f, Len(parent))
  BY <1>1 DEF Ordered
<1> DEFINE found == CHOOSE f : upto(f, Len(parent))
<1>3. upto(found, Len(parent))
  BY <1>2
<1>4. \A c : d \in Above(parent, c) <=> d \in 1 .. c /\ found[c]
  BY DEF Above
<1> HIDE DEF found
<1>5. \A c \in 0 .. Len(parent) : found[c] = (c = d \/ (c > d /\ found[parent[c]]))
  BY <1>3
<1>6. found[class]
  BY <1>4
<1>7. CASE class = d
  BY <1>0, <1>7
<1>8. CASE class # d
  <2>0. parent[class] \in 0 .. Len(parent) /\ parent[class] \in Nat /\ class \in 0 .. Len(parent)
    BY DEF Ordered
  <2>1. found[parent[class]]
    <3>1. found[class] = (class = d \/ (class > d /\ found[parent[class]]))
      BY <1>5, <2>0
    <3> QED
      BY <1>6, <1>8, <3>1
  <2>2. parent[class] = d \/ parent[class] > d
    BY <1>5, <2>0, <2>1
  <2>3. d \in 1 .. parent[class]
    BY <1>0, <2>0, <2>2
  <2> QED
    BY <1>0, <1>4, <2>1, <2>3
<1> QED
  BY <1>7, <1>8

\* The classes of a program come in pairs with their metaclasses, which stand
\* under each other as the classes do.
Lineup ==
  /\ (Len(super) - FirstClasses) % 2 = 0
  /\ \A c \in Visible \ {Object} : super[c] \in Visible /\ super[klass[c]] = klass[super[c]]

\* A step makes a subclass or leaves the classes as they are.
LEMMA SubclassOrNot ==
  ASSUME [Next]_vars
  PROVE  UNCHANGED <<super, klass>> \/ \E s \in Visible, name \in ClassNames : new_subclass(s, name)
<1>1. CASE \/ \E c \in Visible, name \in Keys, m \in Written : add_method(c, name, m)
           \/ \E c \in Visible, name \in Keys, m \in Written : add_scope_method(c, name, m)
  BY <1>1 DEF add_method, add_scope_method, Define
<1>2. CASE \E c \in Visible, from, to \in Keys : alias_method(c, from, to)
  BY <1>2 DEF alias_method, Define
<1>3. CASE \/ \E sends \in Needs : trait_new(sends)
           \/ \E t \in Traits, name \in Keys, m \in Written : trait_add_method(t, name, m)
  BY <1>3 DEF trait_new, trait_add_method
<1>4. CASE (\E c \in Visible, t \in Traits : uses_trait(c, t)) \/ UsesNext \/ UsesEnd \/ UsesBehind
  BY <1>4 DEF uses_trait, UsesNext, UsesEnd, UsesBehind
<1>5. CASE (\E c \in Visible : run_body(c)) \/ BodyEnds \/ BodyUnwinds
  BY <1>5 DEF run_body, BodyEnds, BodyUnwinds
<1>6. CASE (\E c \in Visible : new_instance(c)) \/ Stopped \/ UNCHANGED vars
  BY <1>6 DEF new_instance, Stopped, vars
<1> QED
  BY <1>1, <1>2, <1>3, <1>4, <1>5, <1>6 DEF Next

LEMMA NextLinesUp == TypedMaps /\ Lineup /\ [Next]_vars => Lineup'
<1> SUFFICES ASSUME TypedMaps, Lineup, [Next]_vars PROVE Lineup'
  OBVIOUS
<1>1. CASE UNCHANGED <<super, klass>>
  BY <1>1 DEF Lineup, Visible
<1>2. ASSUME NEW s \in Visible, NEW name \in ClassNames, new_subclass(s, name) PROVE Lineup'
  <2> DEFINE n == Len(super)
  <2>1. /\ n \in Nat /\ FirstClasses <= n /\ s \in 1 .. n /\ klass[s] \in 1 .. n
        /\ Len(super') = n + 2
        /\ \A c \in 1 .. n : super'[c] = super[c] /\ klass'[c] = klass[c]
        /\ super'[n + 1] = klass[s] /\ super'[n + 2] = s /\ klass'[n + 2] = n + 1
    BY <1>2, SubclassFacts
  <2>2. /\ (n - FirstClasses) % 2 = 0
        /\ \A c \in Visible \ {Object} : super[c] \in Visible /\ super[klass[c]] = klass[super[c]]
        /\ Visible \subseteq 1 .. n /\ \A c \in 1 .. n : klass[c] \in 1 .. n
    BY VisibleAreClasses DEF Lineup, TypedMaps, TypeOK, Classes
  <2>3. Visible = {Object} \cup {c \in FirstClasses + 1 .. n : (c - FirstClasses) % 2 = 0}
    BY DEF Visible
  <2>4. Visible' = {Object} \cup {c \in FirstClasses + 1 .. n + 2 : (c - FirstClasses) % 2 = 0}
    BY <2>1 DEF Visible
  <2> HIDE DEF n
  <2>5. Visible' = Visible \cup {n + 2}
    <3>1. (n + 2 - 6) % 2 = 0 /\ (n + 1 - 6) % 2 = 1
      BY <2>1, <2>2 DEF FirstClasses
    <3>2. \A c \in 7 .. n + 2 : c \in 7 .. n \/ c = n + 1 \/ c = n + 2
      BY <2>1
    <3>3. n + 2 \in 7 .. n + 2 /\ \A c \in 7 .. n : c \in 7 .. n + 2
      BY <2>1 DEF FirstClasses
    <3> DEFINE even(c) == (c - 6) % 2 = 0
    <3>4. even(n + 2) /\ ~ even(n + 1)
      BY <2>1, <3>1
    <3>5. Visible = {1} \cup {c \in 7 .. n : even(c)} /\ Visible' = {1} \cup {c \in 7 .. n + 2 : even(c)}
      BY <2>3, <2>4 DEF FirstClasses, Object
    <3> HIDE DEF even
    <3> QED
      BY <3>2, <3>3, <3>4, <3>5
  <2>6. (Len(super') - FirstClasses) % 2 = 0
    BY <2>1, <2>2 DEF FirstClasses
  <2>7. ASSUME NEW c \in Visible \ {Object}
        PROVE  super'[c] \in Visible' /\ super'[klass'[c]] = klass'[super'[c]]
    <3>1. c \in 1 .. n /\ klass[c] \in 1 .. n /\ super[c] \in Visible /\ super[c] \in 1 .. n
          /\ super[klass[c]] = klass[super[c]]
      BY <2>2
    <3>2. super'[c] = super[c] /\ klass'[c] = klass[c]
      BY <2>1, <3>1
    <3>3. super'[klass[c]] = super[klass[c]] /\ klass'[super[c]] = klass[super[c]]
      BY <2>1, <3>1
    <3> QED
      BY <2>5, <3>1, <3>2, <3>3
  <2>8. super'[n + 2] \in Visible' /\ super'[klass'[n + 2]] = klass'[super'[n + 2]]
    BY <2>1, <2>5
  <2> QED
    BY <2>5, <2>6, <2>7, <2>8 DEF Lineup
<1> QED
  BY <1>1, <1>2, SubclassOrNot

LEMMA InitLinesUp == Init => Lineup
<1> SUFFICES ASSUME Init PROVE Lineup
  OBVIOUS
<1>1. super = <<0, 1, 0, 2, 4, 4>> /\ klass = <<4, 5, 6, 3, 3, 3>> /\ Len(super) = 6
  BY DEF Init, FirstSuper, FirstKlass
<1>2. Visible = {Object}
  BY <1>1 DEF Visible, FirstClasses
<1> QED
  BY <1>1, <1>2 DEF Lineup, FirstClasses

LEMMA LineupUnderstands == TypedMaps /\ Lineup => DescendantsUnderstand
<1> SUFFICES ASSUME TypedMaps, Lineup PROVE DescendantsUnderstand
  OBVIOUS
<1> DEFINE understands(c, n) == Lookup(c, n) # NotDefined
           passes(c) == \A d \in Above(super, c) : \A n \in Keys :
                          /\ understands(d, n) => understands(c, n)
                          /\ understands(klass[d], n) => understands(klass[c], n)
           bad == {c \in Visible : ~ passes(c)}
<1>1. /\ Ordered(super) /\ Classes = 1 .. Len(super) /\ Visible \subseteq Classes
      /\ Len(super) \in Nat /\ \A c \in Classes : super[c] \in 0 .. c - 1
      /\ \A c \in Classes : klass[c] \in Classes
  BY OwnTyped, VisibleAreClasses DEF TypedMaps, TypeOK, Ordered
<1>2. \A c \in Classes, n \in Keys : instance_method_p(c, n) <=> understands(c, n)
  BY LookupTyped
<1>3. ASSUME NEW c \in Classes, super[c] \in Classes, NEW n \in Keys, understands(super[c], n)
      PROVE  understands(c, n)
  <2>1. Lookup(c, n) = IF c = 0 THEN NotDefined
                       ELSE IF Own[c][n] # NotDefined THEN Own[c][n] ELSE Lookup(super[c], n)
    BY <1>1, NearestIs DEF Lookup
  <2> QED
    BY <1>1, <1>3, <2>1
<1> HIDE DEF understands
<1>4. bad = {}
  <2> SUFFICES ASSUME bad # {} PROVE FALSE
    OBVIOUS
  <2>1. PICK c \in bad : \A d \in bad : c <= d
    <3>1. bad \in SUBSET Nat
      <4>1. \A c \in Visible : c \in 1 .. Len(super)
        BY <1>1
      <4>2. bad \subseteq Visible
        OBVIOUS
      <4> HIDE DEF bad
      <4> QED
        BY <1>1, <4>1, <4>2
    <3> HIDE DEF bad
    <3> QED
      BY <3>1, SmallestOfNat
  <2>2. c \in Visible /\ c \in Classes /\ c \in 1 .. Len(super)
    BY <1>1
  <2>3. PICK d \in Above(super, c), n \in Keys :
          ~ ( /\ understands(d, n) => understands(c, n)
              /\ understands(klass[d], n) => understands(klass[c], n))
    BY <2>1
  <2>4. d \in 1 .. c /\ d # c /\ d \in Above(super, super[c])
    BY <1>1, <2>2, <2>3, AboveIs
  <2>5. c # Object
    BY <2>4 DEF Object
  <2>6. super[c] \in Visible /\ super[klass[c]] = klass[super[c]] /\ super[c] < c
    BY <1>1, <2>2, <2>5 DEF Lineup
  <2>7. passes(super[c])
    BY <1>1, <2>1, <2>2, <2>6
  <2>8. understands(d, n) => understands(super[c], n)
    BY <2>4, <2>7
  <2>9. understands(klass[d], n) => understands(klass[super[c]], n)
    BY <2>4, <2>7
  <2>10. understands(super[c], n) => understands(c, n)
    BY <1>1, <1>3, <2>2, <2>6
  <2>11. understands(klass[super[c]], n) => understands(klass[c], n)
    BY <1>1, <1>3, <2>2, <2>6
  <2> QED
    BY <2>3, <2>8, <2>9, <2>10, <2>11
<1>5. ASSUME NEW c \in Visible, NEW d \in Above(super, c), NEW n \in Keys
      PROVE  /\ instance_method_p(d, n) => instance_method_p(c, n)
             /\ instance_method_p(klass[d], n) => instance_method_p(klass[c], n)
  <2>1. passes(c)
    BY <1>4
  <2>2. d \in Classes /\ c \in Classes
    BY <1>1, AboveIs
  <2> QED
    BY <1>1, <1>2, <2>1, <2>2
<1> QED
  BY <1>5 DEF DescendantsUnderstand

\* Every class of a program understands what its superclasses do, and so do the
\* class objects: the constructor of Class (vm/class.cpp) puts the metaclass of a
\* new class under that of its superclass, so that new finds allocate.
THEOREM SubclassesUnderstand == Spec => []DescendantsUnderstand
<1>1. Init => TypedMaps /\ Lineup
  BY InitTyped, InitLinesUp
<1>2. (TypedMaps /\ Lineup) /\ [Next]_vars => (TypedMaps /\ Lineup)'
  BY NextTyped, NextLinesUp
<1> QED
  BY <1>1, <1>2, LineupUnderstands, PTL DEF Spec

-----------------------------------------------------------------------------
(* The loop of uses_trait.                                                 *)

\* The iterator has come to the entry.
Come(it, b, i) == b < it.idx \/ (b = it.idx /\ i <= it.pos)

\* next() comes to one entry more.
LEMMA OneEntryMore ==
  ASSUME NEW t \in Table,
         NEW it \in [idx : -1 .. Capa - 1, pos : Nat],
         it.idx >= 0 => it.pos \in DOMAIN t.entries[it.idx],
         Following(t, it) \/ Later(t, it) # {},
         NEW b \in 0 .. Capa - 1, NEW i \in DOMAIN t.entries[b], Come(NextEntry(t, it), b, i)
  PROVE  Come(it, b, i) \/ (b = NextEntry(t, it).idx /\ i = NextEntry(t, it).pos)
<1>1. t.entries \in [0 .. Capa - 1 -> Seq(Entry)] /\ Capa \in Nat
      /\ it.idx \in -1 .. Capa - 1 /\ it.pos \in Nat
  BY CapaAssumption DEF Table
<1>2. t.entries[b] \in Seq(Entry) /\ i \in Nat /\ i >= 1 /\ i <= Len(t.entries[b]) /\ t.entries[b] # <<>>
  BY <1>1
<1>3. CASE Following(t, it)
  <2>1. NextEntry(t, it) = [it EXCEPT !.pos = it.pos + 1]
    BY <1>3 DEF NextEntry
  <2>2. NextEntry(t, it).idx = it.idx /\ NextEntry(t, it).pos = it.pos + 1
    BY <1>1, <2>1
  <2> QED
    BY <1>1, <1>2, <2>2 DEF Come
<1>4. CASE ~Following(t, it)
  <2> DEFINE L == Later(t, it)
  <2>1. L # {} /\ L \in SUBSET Nat
    BY SMTT(30), <1>1, <1>4 DEF Later
  <2>2. First(L) \in L /\ \A c \in L : First(L) <= c
    BY <2>1, SmallestOfNat DEF First
  <2>3. NextEntry(t, it).idx = First(L) /\ NextEntry(t, it).pos = 1
    BY <1>4 DEF NextEntry
  <2>4. CASE b = First(L)
    BY <1>2, <2>1, <2>2, <2>3, <2>4 DEF Come
  <2>5. CASE b # First(L)
    <3>1. b < First(L)
      BY <2>3, <2>5 DEF Come
    <3>2. b \notin L
      BY <2>1, <2>2, <3>1
    <3>3. b <= it.idx
      BY <1>1, <1>2, <3>2 DEF Later
    <3>4. it.idx >= 0 /\ it.pos \in DOMAIN t.entries[it.idx] /\ t.entries[it.idx] \in Seq(Entry)
      BY <1>1, <3>3
    <3>5. it.pos >= Len(t.entries[it.idx])
      BY <1>1, <1>4, <3>4 DEF Following
    <3> QED
      BY <1>1, <1>2, <3>3, <3>5 DEF Come
  <2> QED
    BY <2>4, <2>5
<1> QED
  BY <1>3, <1>4

\* When next() finds no more it has come to all of them.
LEMMA AllEntries ==
  ASSUME NEW t \in Table,
         NEW it \in [idx : -1 .. Capa - 1, pos : Nat],
         it.idx >= 0 => it.pos \in DOMAIN t.entries[it.idx],
         ~Following(t, it), Later(t, it) = {},
         NEW b \in 0 .. Capa - 1, NEW i \in DOMAIN t.entries[b]
  PROVE  Come(it, b, i)
<1>1. t.entries \in [0 .. Capa - 1 -> Seq(Entry)] /\ Capa \in Nat
      /\ it.idx \in -1 .. Capa - 1 /\ it.pos \in Nat
  BY CapaAssumption DEF Table
<1>2. t.entries[b] \in Seq(Entry) /\ i \in Nat /\ i >= 1 /\ i <= Len(t.entries[b]) /\ t.entries[b] # <<>>
  BY <1>1
<1>3. b <= it.idx
  <2>1. \A x \in it.idx + 1 .. Capa - 1 : t.entries[x] = <<>>
    BY DEF Later
  <2>2. b \notin it.idx + 1 .. Capa - 1
    BY <1>2, <2>1
  <2> QED
    BY <1>1, <2>2
<1>4. it.idx >= 0 /\ it.pos \in DOMAIN t.entries[it.idx] /\ t.entries[it.idx] \in Seq(Entry)
  BY <1>1, <1>3
<1>5. it.pos >= Len(t.entries[it.idx])
  BY <1>1, <1>4 DEF Following
<1> QED
  BY <1>1, <1>2, <1>3, <1>5 DEF Come

\* The entries that the loop has come to are understood by the class.
Visited ==
  using # NoUse =>
    \A b \in 0 .. Capa - 1 : \A i \in DOMAIN traits[using.trait].methods.entries[b] :
      Come(using.it, b, i) =>
        instance_method_p(using.class, traits[using.trait].methods.entries[b][i].key)

\* The trait and the class of the loop, and the names it offers.
LEMMA UsingTyped ==
  ASSUME TypedMaps, using # NoUse
  PROVE  /\ using.class \in Classes /\ using.trait \in Traits
         /\ using.it \in [idx : -1 .. Capa - 1, pos : Nat]
         /\ traits[using.trait].methods \in Table /\ WellFormed(traits[using.trait].methods)
         /\ using.it.idx >= 0 =>
              using.it.pos \in DOMAIN traits[using.trait].methods.entries[using.it.idx]
         /\ \A b \in 0 .. Capa - 1 : \A i \in DOMAIN traits[using.trait].methods.entries[b] :
              traits[using.trait].methods.entries[b][i] \in Entry
<1>1. /\ using \in [class : Classes, trait : Traits, it : [idx : -1 .. Capa - 1, pos : Nat]]
      /\ using.it.idx >= 0 =>
           using.it.pos \in DOMAIN traits[using.trait].methods.entries[using.it.idx]
  BY DEF TypedMaps, TypeOK
<1>2. using.class \in Classes /\ using.trait \in Traits /\ using.it \in [idx : -1 .. Capa - 1, pos : Nat]
  BY <1>1
<1>3. traits[using.trait].methods \in Table /\ WellFormed(traits[using.trait].methods)
  <2>1. traits \in Seq([methods : Table, sends : Needs]) /\ Traits = 1 .. Len(traits)
    BY DEF TypedMaps, TypeOK, Traits
  <2>2. traits[using.trait] \in [methods : Table, sends : Needs]
    BY <1>2, <2>1, ElementOfSeq
  <2> QED
    BY <1>2, <2>2 DEF TypedMaps, TablesAreMaps
<1>4. ASSUME NEW b \in 0 .. Capa - 1, NEW i \in DOMAIN traits[using.trait].methods.entries[b]
      PROVE  traits[using.trait].methods.entries[b][i] \in Entry
  <2> DEFINE t == traits[using.trait].methods
  <2>1. t \in Table /\ i \in DOMAIN t.entries[b]
    BY <1>3
  <2> HIDE DEF t
  <2>2. t.entries[b] \in Seq(Entry)
    BY <2>1 DEF Table
  <2>3. t.entries[b][i] \in Entry
    BY <2>1, <2>2
  <2> QED
    BY <2>3 DEF t
<1> QED
  BY <1>1, <1>2, <1>3, <1>4

LEMMA VisitedStays ==
  ASSUME TypedMaps, Visited, [Next]_vars, using' = using, traits' = traits
  PROVE  Visited'
<1> SUFFICES ASSUME using # NoUse, NEW b \in 0 .. Capa - 1,
                    NEW i \in DOMAIN traits[using.trait].methods.entries[b], Come(using.it, b, i)
             PROVE  instance_method_p(using.class, traits[using.trait].methods.entries[b][i].key)'
  BY DEF Visited
<1> DEFINE c == using.class
           n == traits[using.trait].methods.entries[b][i].key
<1>1. c \in Classes /\ n \in Keys
  BY UsingTyped DEF Entry
<1>2. instance_method_p(c, n)
  BY DEF Visited
<1>3. c' = c /\ n' = n
  OBVIOUS
<1> HIDE DEF c, n
<1>4. instance_method_p(c, n)'
  BY <1>1, <1>2, <1>3, UnderstoodStays
<1> QED
  BY <1>3, <1>4 DEF c, n

\* A class understands what it was just given.
LEMMA GivenIsUnderstood ==
  ASSUME TypedMaps, TypedMaps', NEW c \in Classes, NEW name \in Keys, NEW m \in Values,
         table' = [table EXCEPT ![c] = Added(@, name, m)], super' = super
  PROVE  instance_method_p(c, name)'
<1>0. \A d \in Classes, n \in Keys : Find(table'[d], n) = IF d = c /\ n = name THEN m ELSE Find(table[d], n)
  BY DefineGives
<1>1. Find(table'[c], name) = m /\ m # NotDefined
  BY <1>0, ValuesAssumption DEF None, NotDefined
<1>2. Ordered(super') /\ Classes' = 1 .. Len(super') /\ c \in Classes' /\ Len(super') \in Nat
  BY LookupTypedAgain, OwnTyped DEF Ordered
<1>3. Own'[c][name] = m
  BY <1>1, <1>2 DEF Own
<1>4. Nearest(Own', super', c, name) = IF c = 0 THEN NotDefined
                                       ELSE IF Own'[c][name] # NotDefined THEN Own'[c][name]
                                       ELSE Nearest(Own', super', super'[c], name)
  BY <1>2, NearestIs
<1>5. c # 0
  BY <1>2
<1>6. Lookup(c, name)' # NotDefined
  BY <1>1, <1>3, <1>4, <1>5 DEF Lookup
<1> QED
  BY <1>2, <1>6, LookupTypedAgain

LEMMA UsesNextVisited ==
  ASSUME TypedMaps, Visited, UsesNext
  PROVE  Visited'
<1> DEFINE t == traits[using.trait].methods
           u == NextEntry(t, using.it)
<1>1. /\ using # NoUse /\ using' = [using EXCEPT !.it = u] /\ traits' = traits /\ super' = super
      /\ Following(t, using.it) \/ Later(t, using.it) # {}
      /\ ~ Fills(using.class, At(t, u).key) => table' = table
      /\ Fills(using.class, At(t, u).key) =>
           table' = [table EXCEPT ![using.class] = Added(@, At(t, u).key, At(t, u).val)]
  BY DEF UsesNext
<1>2. /\ using.class \in Classes /\ using.trait \in Traits
      /\ using.it \in [idx : -1 .. Capa - 1, pos : Nat]
      /\ t \in Table
      /\ using.it.idx >= 0 => using.it.pos \in DOMAIN t.entries[using.it.idx]
      /\ \A b \in 0 .. Capa - 1 : \A i \in DOMAIN t.entries[b] : t.entries[b][i] \in Entry
  BY <1>1, UsingTyped
<1>3. u \in [idx : -1 .. Capa - 1, pos : Nat] /\ At(t, u).key \in Keys /\ At(t, u).val \in Values
  BY UsedEntry
<1>4. TypedMaps' /\ [Next]_vars
  BY NextTyped DEF Next
<1>5. PICK d \in Classes, key \in Keys, val \in Values, methods \in Table,
           it \in [idx : -1 .. Capa - 1, pos : Nat], it2 \in [idx : -1 .. Capa - 1, pos : Nat] :
        /\ d = using.class /\ key = At(t, u).key /\ val = At(t, u).val
        /\ methods = t /\ it = using.it /\ it2 = u
  BY <1>2, <1>3
<1>6. it2 = NextEntry(methods, it) /\ key = methods.entries[it2.idx][it2.pos].key
  BY <1>5 DEF At
<1>7. using'.it = it2 /\ using'.trait = using.trait /\ using'.class = d
  <2>1. using \in [class : Classes, trait : Traits, it : [idx : -1 .. Capa - 1, pos : Nat]]
    BY <1>1 DEF TypedMaps, TypeOK
  <2>2. using' = [using EXCEPT !.it = it2]
    BY <1>1, <1>5
  <2> QED
    BY <1>5, <2>1, <2>2
<1>8. traits'[using'.trait].methods = methods
  BY <1>1, <1>5, <1>7
<1>9. instance_method_p(d, key)'
  <2>1. CASE Fills(d, key)
    <3>1. table' = [table EXCEPT ![d] = Added(@, key, val)]
      BY <1>1, <1>5, <2>1
    <3> HIDE DEF t, u
    <3> QED
      BY <1>1, <1>4, <3>1, GivenIsUnderstood
  <2>2. CASE ~ Fills(d, key)
    <3>1. instance_method_p(d, key)
      BY <2>2 DEF Fills
    <3> QED
      BY <1>4, <3>1, UnderstoodStays
  <2> QED
    BY <2>1, <2>2
<1>10. ASSUME NEW b \in 0 .. Capa - 1, NEW i \in DOMAIN methods.entries[b], Come(it2, b, i)
       PROVE  instance_method_p(d, methods.entries[b][i].key)'
  <2>1. /\ methods.entries[b][i].key \in Keys
        /\ it \in [idx : -1 .. Capa - 1, pos : Nat]
        /\ it.idx >= 0 => it.pos \in DOMAIN methods.entries[it.idx]
        /\ Following(methods, it) \/ Later(methods, it) # {}
    BY <1>1, <1>2, <1>5 DEF Entry
  <2>2. Come(it, b, i) \/ (b = it2.idx /\ i = it2.pos)
    BY <1>6, <1>10, <2>1, OneEntryMore
  <2>3. CASE Come(it, b, i)
    <3>1. instance_method_p(d, methods.entries[b][i].key)
      BY <1>1, <1>5, <2>3 DEF Visited
    <3> QED
      BY <1>4, <2>1, <3>1, UnderstoodStays
  <2>4. CASE b = it2.idx /\ i = it2.pos
    BY <1>6, <1>9, <2>4
  <2> QED
    BY <2>2, <2>3, <2>4
<1> QED
  BY <1>7, <1>8, <1>10 DEF Visited

LEMMA NextVisited ==
  ASSUME TypedMaps, Visited, [Next]_vars
  PROVE  Visited'
<1>1. ASSUME using' = NoUse PROVE Visited'
  <2>1. NoUse' = NoUse
    BY DEF NoUse, Start
  <2> QED
    BY <1>1, <2>1 DEF Visited
<1>2. ASSUME NEW c \in Visible, NEW t \in Traits, uses_trait(c, t) PROVE Visited'
  <2>1. using' = [class |-> c, trait |-> t, it |-> Start] /\ traits' = traits
    BY <1>2 DEF uses_trait
  <2>2. using'.it = Start /\ Start.idx = -1
    BY <2>1 DEF Start
  <2>3. \A b \in 0 .. Capa - 1 : \A i : ~ Come(Start, b, i)
    BY <2>2, CapaAssumption DEF Come
  <2> QED
    BY <2>2, <2>3 DEF Visited
<1>3. ASSUME \/ \E s \in Visible, name \in ClassNames : new_subclass(s, name)
             \/ \E c \in Visible, name \in Keys, m \in Written : add_method(c, name, m)
             \/ \E c \in Visible, name \in Keys, m \in Written : add_scope_method(c, name, m)
      PROVE  Visited'
  BY <1>1, <1>3 DEF new_subclass, add_method, add_scope_method, Define, Free
<1>4. ASSUME \E c \in Visible, from, to \in Keys : alias_method(c, from, to) PROVE Visited'
  BY <1>1, <1>4 DEF alias_method, Define, Free
<1>5. ASSUME \/ \E sends \in Needs : trait_new(sends)
             \/ \E t \in Traits, name \in Keys, m \in Written : trait_add_method(t, name, m)
      PROVE  Visited'
  BY <1>1, <1>5 DEF trait_new, trait_add_method, Free
<1>6. ASSUME \/ \E c \in Visible : run_body(c) \/ new_instance(c)
             \/ BodyEnds \/ BodyUnwinds \/ UsesEnd
      PROVE  Visited'
  BY <1>1, <1>6 DEF run_body, BodyEnds, BodyUnwinds, UsesEnd, new_instance, Free
<1>7. ASSUME UsesBehind \/ Stopped \/ UNCHANGED vars PROVE Visited'
  <2>1. using' = using /\ traits' = traits
    BY <1>7 DEF UsesBehind, Stopped, vars
  <2> QED
    BY <2>1, VisitedStays
<1> QED
  BY <1>2, <1>3, <1>4, <1>5, <1>6, <1>7, UsesNextVisited DEF Next

-----------------------------------------------------------------------------
(* The abstract classes and traits.                                        *)

\* The variables of ClassSpec as the refinement gives them.
Offers == [t \in Traits |-> [n \in Keys |-> Find(traits[t].methods, n)]]
Giving == IF using = NoUse THEN <<>> ELSE <<using.class, using.trait>>

LEMMA SameNearest ==
  \A own, super1, class, name : Promise!Nearest(own, super1, class, name) = Nearest(own, super1, class, name)
BY DEF Promise!Nearest, Nearest, Promise!NotDefined, NotDefined

LEMMA Understanding ==
  ASSUME TypedMaps, NEW c \in Classes, NEW n \in Keys
  PROVE  Promise!Understands(c, n) <=> instance_method_p(c, n)
BY SameNearest, LookupTyped DEF Promise!Understands, Lookup, Promise!NotDefined, NotDefined

\* A step that leaves classes, traits and the loop alone is none of ClassSpec.
LEMMA NothingHappens ==
  ASSUME UNCHANGED <<super, klass, traits>>, Own' = Own, Giving' = Giving
  PROVE  UNCHANGED Promise!specVars
<1>1. Offers' = Offers
  BY DEF Offers, Traits
<1> QED
  BY <1>1 DEF Promise!specVars, Offers, Giving

LEMMA Gives ==
  ASSUME TypedMaps, NEW c \in Classes, NEW name \in Keys, NEW m \in Values,
         table' = [table EXCEPT ![c] = Added(@, name, m)], UNCHANGED <<super, klass, traits>>, Giving' = Giving
  PROVE  /\ Promise!Given(c, name, m)
         /\ c \in DOMAIN Own /\ Own[c] \in [Keys -> Values \cup {NotDefined}]
         /\ Own'[c][name] = m
<1>1. \A d \in Classes, n \in Keys : Find(table'[d], n) = IF d = c /\ n = name THEN m ELSE Find(table[d], n)
  BY DefineGives
<1>2. Classes' = Classes
  BY DEF Classes
<1>3. /\ Own = [d \in Classes |-> [n \in Keys |-> Find(table[d], n)]]
      /\ Own' = [d \in Classes |-> [n \in Keys |-> Find(table'[d], n)]]
  BY <1>2 DEF Own
<1>4. Own' = [Own EXCEPT ![c] = [@ EXCEPT ![name] = m]]
  BY <1>1, <1>3
<1>5. Own[c] \in [Keys -> Values \cup {NotDefined}]
  <2>1. \A n \in Keys : Own[c][n] \in Values \cup {NotDefined}
    BY OwnTyped
  <2>2. Own[c] = [n \in Keys |-> Find(table[c], n)]
    BY <1>3
  <2> QED
    BY <2>1, <2>2
<1>6. Offers' = Offers
  BY DEF Offers, Traits
<1>7. Promise!Given(c, name, m)
  BY <1>4, <1>6 DEF Promise!Given, Offers, Giving
<1> QED
  BY <1>1, <1>3, <1>5, <1>7

LEMMA DefineKeeps ==
  ASSUME TypedMaps, using = NoUse, NEW c \in Classes, NEW name \in Keys, NEW m \in Values,
         table' = [table EXCEPT ![c] = Added(@, name, m)], UNCHANGED <<super, klass, traits, using>>
  PROVE  [Promise!Next]_Promise!specVars
<1>0. Giving' = Giving /\ Giving = <<>>
  BY DEF Giving, NoUse, Start
<1>1. /\ Promise!Given(c, name, m)
      /\ c \in DOMAIN Own /\ Own[c] \in [Keys -> Values \cup {NotDefined}]
      /\ Own'[c][name] = m
  BY <1>0, Gives
<1>2. CASE Own[c][name] = m
  <2>1. Own' = [Own EXCEPT ![c] = [@ EXCEPT ![name] = m]]
    BY <1>1 DEF Promise!Given
  <2>2. Own' = Own
    <3> DEFINE own == Own
    <3>1. own = [d \in Classes |-> own[d]] /\ own[c] = [n \in Keys |-> own[c][n]]
      BY <1>1 DEF Own
    <3> HIDE DEF own
    <3>2. [own[c] EXCEPT ![name] = own[c][name]] = own[c]
      BY <3>1
    <3>3. [own EXCEPT ![c] = own[c]] = own
      BY <3>1
    <3>4. Own' = [own EXCEPT ![c] = [own[c] EXCEPT ![name] = own[c][name]]]
      BY <1>2, <2>1, Zenon DEF own
    <3> QED
      BY <3>2, <3>3, <3>4 DEF own
  <2> QED
    BY <1>0, <2>2, NothingHappens
<1>3. CASE Own[c][name] # m
  <2>1. Own'[c][name] \in Values \ {Own[c][name]} /\ Promise!Define(c, name, Own'[c][name])
    BY <1>0, <1>1, <1>3 DEF Promise!Define, Giving
  <2> QED
    BY <1>1, <2>1 DEF Promise!Next
<1> QED
  BY <1>2, <1>3

\* Sequences by their elements.
LEMMA AsSeq ==
  ASSUME NEW S, NEW n \in Nat, NEW f \in [1 .. n -> S]
  PROVE  f \in Seq(S) /\ Len(f) = n
<1>1. f \in Seq(S)
  BY SeqDef
<1>2. DOMAIN f = 1 .. n /\ DOMAIN f = 1 .. Len(f) /\ Len(f) \in Nat
  BY <1>1, LenProperties
<1> QED
  BY <1>1, <1>2

LEMMA TwoMoreIs ==
  ASSUME NEW S, NEW n \in Nat, NEW f \in [1 .. n -> S], NEW g \in [1 .. n + 2 -> S], NEW a \in S, NEW b \in S,
         \A i \in 1 .. n : g[i] = f[i], g[n + 1] = a, g[n + 2] = b
  PROVE  g = f \o <<a, b>>
<1> DEFINE j == f \o <<a, b>>
<1>1. f \in Seq(S) /\ Len(f) = n /\ g \in Seq(S) /\ Len(g) = n + 2
  BY AsSeq
<1>2. /\ j \in Seq(S) /\ Len(j) = n + 2
      /\ \A i \in 1 .. n : j[i] = f[i]
      /\ j[n + 1] = a /\ j[n + 2] = b
  BY <1>1, Joined
<1>3. \A i \in 1 .. n + 2 : i \in 1 .. n \/ i = n + 1 \/ i = n + 2
  OBVIOUS
<1> HIDE DEF j
<1>4. \A i \in 1 .. n + 2 : g[i] = j[i]
  BY <1>2, <1>3
<1>5. g = j
  BY <1>1, <1>2, <1>4, SeqEqual
<1> QED
  BY <1>5 DEF j

LEMMA OneMoreIs ==
  ASSUME NEW S, NEW n \in Nat, NEW f \in [1 .. n -> S], NEW g \in [1 .. n + 1 -> S], NEW a \in S,
         \A i \in 1 .. n : g[i] = f[i], g[n + 1] = a
  PROVE  g = Append(f, a)
<1> DEFINE j == Append(f, a)
<1>1. f \in Seq(S) /\ Len(f) = n /\ g \in Seq(S) /\ Len(g) = n + 1
  BY AsSeq
<1>2. /\ j \in Seq(S) /\ Len(j) = n + 1
      /\ \A i \in 1 .. n : j[i] = f[i]
      /\ j[n + 1] = a
  BY <1>1, AppendProperties
<1>3. \A i \in 1 .. n + 1 : i \in 1 .. n \/ i = n + 1
  OBVIOUS
<1> HIDE DEF j
<1>4. \A i \in 1 .. n + 1 : g[i] = j[i]
  BY <1>2, <1>3
<1>5. g = j
  BY <1>1, <1>2, <1>4, SeqEqual
<1> QED
  BY <1>5 DEF j

\* A new table defines nothing.
LEMMA NewTableGives == \A n \in Keys : Find(NewTable, n) = NotDefined
<1>1. \A n \in Keys : Bucket(NewTable, n) = <<>>
  BY SlotAssumption DEF Bucket, NewTable
<1>2. ASSUME NEW n \in Keys PROVE ~ Has(NewTable, n)
  <2>1. Bucket(NewTable, n) = <<>> /\ DOMAIN <<>> = {}
    BY <1>1
  <2> QED
    BY <2>1 DEF Has
<1> QED
  BY <1>2 DEF Find, None, NotDefined

LEMMA SubclassKeeps ==
  ASSUME TypedMaps, NEW s \in Visible, NEW name \in ClassNames, new_subclass(s, name)
  PROVE  Promise!Next
<1> DEFINE n == Len(super)
           S == [Keys -> Values \cup {NotDefined}]
           nothing == [k \in Keys |-> NotDefined]
<1>1. /\ n \in Nat /\ s \in 1 .. n /\ Len(super') = n + 2
      /\ \A c \in 1 .. n : table'[c] = table[c]
      /\ table'[n + 1] = NewTable /\ table'[n + 2] = NewTable
  BY SubclassFacts
<1>2. /\ super' = super \o <<klass[s], s>>
      /\ klass' = klass \o <<klass[klass[s]], Len(klass) + 1>>
      /\ UNCHANGED <<traits, using>> /\ using = NoUse
  BY DEF new_subclass, MetaSuper, Free
<1> HIDE DEF n
<1>3. /\ Own = [d \in 1 .. n |-> [k \in Keys |-> Find(table[d], k)]]
      /\ Own' = [d \in 1 .. n + 2 |-> [k \in Keys |-> Find(table'[d], k)]]
  BY <1>1 DEF Own, Classes, n
<1>4. \A d \in 1 .. n, k \in Keys : Find(table[d], k) \in Values \cup {NotDefined}
  BY OwnTyped DEF n
<1>5. \A d \in 1 .. n + 2 : d \in 1 .. n \/ d = n + 1 \/ d = n + 2
  BY <1>1
<1>6. [k \in Keys |-> Find(NewTable, k)] = nothing
  BY NewTableGives
<1>7. Own \in [1 .. n -> S]
  BY <1>3, <1>4
<1>8. nothing \in S
  OBVIOUS
<1>9. /\ \A d \in 1 .. n : Own'[d] = Own[d]
      /\ Own'[n + 1] = nothing /\ Own'[n + 2] = nothing
  BY <1>1, <1>3, <1>6
<1>10. Own' \in [1 .. n + 2 -> S]
  <2>1. \A d \in 1 .. n + 2 : Own'[d] \in S
    <3> HIDE DEF S, nothing
    <3> QED
      BY <1>5, <1>7, <1>8, <1>9
  <2> QED
    BY <1>3, <2>1
<1>11. Own' = Own \o <<nothing, nothing>>
  <2> HIDE DEF S, nothing
  <2>1. PICK f, g : f = Own /\ g = Own'
    OBVIOUS
  <2>2. /\ n \in Nat /\ f \in [1 .. n -> S] /\ g \in [1 .. n + 2 -> S] /\ nothing \in S
        /\ \A i \in 1 .. n : g[i] = f[i]
        /\ g[n + 1] = nothing /\ g[n + 2] = nothing
    BY <1>1, <1>7, <1>8, <1>9, <1>10, <2>1
  <2>3. g = f \o <<nothing, nothing>>
    BY <2>2, TwoMoreIs
  <2> QED
    BY <2>1, <2>3
<1>12. nothing = Promise!Nothing
  BY DEF Promise!Nothing, NotDefined, Promise!NotDefined
<1>13. Offers' = Offers /\ Giving' = Giving /\ Giving = <<>>
  BY <1>2 DEF Offers, Giving, Traits, NoUse, Start
<1>14. Promise!Subclass(s)
  <2> HIDE DEF nothing
  <2> QED
    BY <1>2, <1>11, <1>12, <1>13 DEF Promise!Subclass, Offers, Giving
<1>15. s \in DOMAIN super
  <2>1. super \in Seq(Nat)
    BY DEF TypedMaps, TypeOK
  <2> QED
    BY <1>1, <2>1 DEF n
<1> QED
  BY <1>14, <1>15 DEF Promise!Next

LEMMA TraitTypes ==
  ASSUME TypedMaps
  PROVE  /\ traits \in Seq([methods : Table, sends : Needs]) /\ Traits = 1 .. Len(traits) /\ Len(traits) \in Nat
         /\ \A t \in Traits : traits[t] \in [methods : Table, sends : Needs] /\ WellFormed(traits[t].methods)
         /\ \A t \in Traits : traits[t].methods \in Table
         /\ \A t \in Traits, n \in Keys : Find(traits[t].methods, n) \in Values \cup {NotDefined}
<1>1. /\ traits \in Seq([methods : Table, sends : Needs]) /\ Traits = 1 .. Len(traits) /\ Len(traits) \in Nat
      /\ \A t \in Traits : traits[t] \in [methods : Table, sends : Needs] /\ WellFormed(traits[t].methods)
  BY ElementOfSeq, LenProperties DEF TypedMaps, TypeOK, TablesAreMaps, Traits
<1>2. \A t \in Traits : traits[t].methods \in Table
  BY <1>1
<1>3. \A t \in Table, n \in Keys : WellFormed(t) => Find(t, n) \in Values \cup {NotDefined}
  BY FindTyped
<1> QED
  BY <1>1, <1>2, <1>3

LEMMA NewTraitKeeps ==
  ASSUME TypedMaps, NEW sends \in Needs, trait_new(sends)
  PROVE  Promise!Next
<1> DEFINE n == Len(traits)
           S == [Keys -> Values \cup {NotDefined}]
           R == [methods : Table, sends : Needs]
           nothing == [k \in Keys |-> NotDefined]
           added == [methods |-> NewTable, sends |-> sends]
<1>1. traits \in Seq(R) /\ Traits = 1 .. n /\ n \in Nat
      /\ \A t \in Traits, k \in Keys : Find(traits[t].methods, k) \in Values \cup {NotDefined}
  BY TraitTypes
<1>2. traits' = Append(traits, added) /\ UNCHANGED <<super, klass, table, using>> /\ using = NoUse
  BY DEF trait_new, Free
<1>3. added \in R /\ added.methods = NewTable
  BY NewTableIsMap
<1> HIDE DEF added, R
<1>4. /\ Len(traits') = n + 1
      /\ \A t \in 1 .. n : traits'[t] = traits[t]
      /\ traits'[n + 1].methods = NewTable
  BY <1>1, <1>2, <1>3, AppendProperties
<1> HIDE DEF n
<1>5. /\ Offers = [t \in 1 .. n |-> [k \in Keys |-> Find(traits[t].methods, k)]]
      /\ Offers' = [t \in 1 .. n + 1 |-> [k \in Keys |-> Find(traits'[t].methods, k)]]
  BY <1>1, <1>4 DEF Offers, Traits
<1>6. [k \in Keys |-> Find(NewTable, k)] = nothing
  BY NewTableGives
<1>7. Offers \in [1 .. n -> S] /\ nothing \in S
  BY <1>1, <1>5
<1>8. /\ \A t \in 1 .. n : Offers'[t] = Offers[t]
      /\ Offers'[n + 1] = nothing
  <2>1. \A t \in 1 .. n : Offers'[t] = Offers[t]
    <3>1. \A t \in 1 .. n : t \in 1 .. n + 1
      BY <1>1
    <3> QED
      BY <1>4, <1>5, <3>1
  <2>2. Offers'[n + 1] = nothing
    <3>1. n + 1 \in 1 .. n + 1
      BY <1>1
    <3>2. Offers'[n + 1] = [k \in Keys |-> Find(traits'[n + 1].methods, k)]
      BY <1>5, <3>1
    <3> QED
      BY <1>4, <1>6, <3>2
  <2> QED
    BY <2>1, <2>2
<1>9. Offers' \in [1 .. n + 1 -> S]
  <2>1. \A t \in 1 .. n + 1 : t \in 1 .. n \/ t = n + 1
    BY <1>1
  <2>2. \A t \in 1 .. n + 1 : Offers'[t] \in S
    <3> HIDE DEF S, nothing
    <3> QED
      BY <1>7, <1>8, <2>1
  <2> QED
    BY <1>5, <2>2
<1>10. Offers' = Append(Offers, nothing)
  <2> HIDE DEF S, nothing
  <2>1. PICK f, g : f = Offers /\ g = Offers'
    OBVIOUS
  <2>2. /\ n \in Nat /\ f \in [1 .. n -> S] /\ g \in [1 .. n + 1 -> S] /\ nothing \in S
        /\ \A i \in 1 .. n : g[i] = f[i]
        /\ g[n + 1] = nothing
    BY <1>1, <1>7, <1>8, <1>9, <2>1
  <2>3. g = Append(f, nothing)
    BY <2>2, OneMoreIs
  <2> QED
    BY <2>1, <2>3
<1>11. nothing = Promise!Nothing
  BY DEF Promise!Nothing, NotDefined, Promise!NotDefined
<1>12. Own' = Own /\ Giving' = Giving /\ Giving = <<>>
  BY <1>2 DEF Own, Giving, Classes, NoUse, Start
<1>13. Promise!NewTrait
  <2> HIDE DEF nothing
  <2> QED
    BY <1>2, <1>10, <1>11, <1>12 DEF Promise!NewTrait, Offers, Giving
<1> QED
  BY <1>13 DEF Promise!Next

LEMMA OfferKeeps ==
  ASSUME TypedMaps, NEW t \in Traits, NEW name \in Keys, NEW m \in Written, trait_add_method(t, name, m)
  PROVE  [Promise!Next]_Promise!specVars
<1>1. /\ traits \in Seq([methods : Table, sends : Needs]) /\ Traits = 1 .. Len(traits)
      /\ traits[t] \in [methods : Table, sends : Needs]
      /\ traits[t].methods \in Table /\ WellFormed(traits[t].methods) /\ m \in Values
      /\ \A k \in Keys : Find(traits[t].methods, k) \in Values \cup {NotDefined}
  BY TraitTypes DEF Written
<1>2. /\ traits' = [traits EXCEPT ![t].methods = Added(@, name, m)]
      /\ UNCHANGED <<super, klass, table, using>> /\ using = NoUse
  BY DEF trait_add_method, Free
<1>3. /\ Len(traits') = Len(traits) /\ Traits' = Traits
      /\ \A u \in Traits \ {t} : traits'[u] = traits[u]
  BY <1>1, <1>2 DEF Traits
<1>4. traits'[t].methods = Added(traits[t].methods, name, m)
  <2> DEFINE new == Added(traits[t].methods, name, m)
  <2>1. traits' = [traits EXCEPT ![t].methods = new]
    BY <1>2
  <2> HIDE DEF new
  <2>2. traits'[t].methods = new
    BY <1>1, <2>1
  <2> QED
    BY <2>2 DEF new
<1>5. \A k \in Keys : Find(traits'[t].methods, k) = IF k = name THEN m ELSE Find(traits[t].methods, k)
  BY <1>1, <1>4, AddedIsAnUpdate
<1>6. /\ Offers = [u \in Traits |-> [k \in Keys |-> Find(traits[u].methods, k)]]
      /\ Offers' = [u \in Traits |-> [k \in Keys |-> Find(traits'[u].methods, k)]]
  BY <1>3 DEF Offers
<1>7. Offers' = [Offers EXCEPT ![t] = [@ EXCEPT ![name] = m]]
  BY <1>3, <1>5, <1>6
<1>8. Own' = Own /\ Giving' = Giving /\ Giving = <<>>
  BY <1>2 DEF Own, Giving, Classes, NoUse, Start
<1>9. CASE Offers[t][name] = m
  <2>1. Offers' = Offers
    BY <1>6, <1>7, <1>9
  <2> QED
    BY <1>2, <1>8, <2>1 DEF Promise!specVars, Offers, Giving
<1>10. CASE Offers[t][name] # m
  <2>1. Offers'[t][name] = m
    BY <1>5, <1>6
  <2>2. t \in DOMAIN Offers /\ Offers'[t][name] \in Values \ {Offers[t][name]}
    BY <1>1, <1>6, <1>10, <2>1
  <2>3. Promise!Offer(t, name, Offers'[t][name])
    BY <1>2, <1>7, <1>8, <2>1 DEF Promise!Offer, Offers, Giving
  <2> QED
    BY <2>2, <2>3 DEF Promise!Next, Offers
<1> QED
  BY <1>9, <1>10

LEMMA UseKeeps ==
  ASSUME TypedMaps, NEW c \in Visible, NEW t \in Traits, uses_trait(c, t)
  PROVE  Promise!Next
<1>1. using = NoUse /\ using' = [class |-> c, trait |-> t, it |-> Start] /\ UNCHANGED <<super, klass, table, traits>>
  BY DEF uses_trait, Free
<1>2. Giving = <<>> /\ Giving' = <<c, t>>
  <2>1. c # 0
    BY VisibleAreClasses DEF TypedMaps, Classes
  <2>2. using'.class = c /\ using'.trait = t /\ NoUse.class = 0 /\ NoUse' = NoUse
    BY <1>1 DEF NoUse, Start
  <2>3. using' # NoUse
    BY <2>1, <2>2
  <2> QED
    BY <1>1, <2>2, <2>3 DEF Giving
<1>3. Own' = Own /\ Offers' = Offers
  BY <1>1 DEF Own, Offers, Classes, Traits
<1>4. c \in DOMAIN Own /\ t \in DOMAIN Offers
  BY VisibleAreClasses DEF Own, Offers, TypedMaps
<1>5. Promise!Use(c, t)
  BY <1>1, <1>2, <1>3 DEF Promise!Use, Offers, Giving
<1> QED
  BY <1>4, <1>5 DEF Promise!Next, Offers

LEMMA NothingKeeps ==
  ASSUME UNCHANGED <<super, klass, table, traits, using>>
  PROVE  UNCHANGED Promise!specVars
<1>1. Own' = Own /\ Giving' = Giving
  BY DEF Own, Giving, Classes, NoUse, Start
<1> QED
  BY <1>1, NothingHappens

\* The entry of a name is the one that is found.
LEMMA EntryIsFound ==
  ASSUME NEW t \in Table, WellFormed(t), NEW b \in 0 .. Capa - 1, NEW i \in DOMAIN t.entries[b]
  PROVE  t.entries[b][i].key \in Keys /\ Find(t, t.entries[b][i].key) = t.entries[b][i].val
<1>1. t.entries[b] \in Seq(Entry)
  BY DEF Table
<1>2. t.entries[b][i].key \in Keys
  <2>1. t.entries[b][i] \in Entry
    BY <1>1
  <2> QED
    BY <2>1 DEF Entry
<1>3. Slot[t.entries[b][i].key] = b
  BY DEF WellFormed
<1> DEFINE n == t.entries[b][i].key
<1>4. Bucket(t, n) = t.entries[b]
  BY <1>3 DEF Bucket
<1>5. i \in DOMAIN Bucket(t, n) /\ Bucket(t, n)[i].key = n /\ n \in Keys
  BY <1>2, <1>4
<1> HIDE DEF n
<1>6. Find(t, n) = Bucket(t, n)[i].val
  BY <1>5, FindGives
<1> QED
  BY <1>2, <1>4, <1>6 DEF n

\* next() fills a gap of the class or passes over a name that is understood.
LEMMA UsesNextKeeps ==
  ASSUME TypedMaps, UsesNext
  PROVE  [Promise!Next]_Promise!specVars
<1> DEFINE t == traits[using.trait].methods
           u == NextEntry(t, using.it)
<1>1. /\ using # NoUse /\ using' = [using EXCEPT !.it = u]
      /\ UNCHANGED <<super, klass, traits>>
      /\ ~ Fills(using.class, At(t, u).key) => table' = table
      /\ Fills(using.class, At(t, u).key) =>
           table' = [table EXCEPT ![using.class] = Added(@, At(t, u).key, At(t, u).val)]
  BY DEF UsesNext
<1>2. /\ using.class \in Classes /\ using.trait \in Traits /\ t \in Table /\ WellFormed(t)
      /\ u \in [idx : -1 .. Capa - 1, pos : Nat] /\ u.idx >= 0 /\ u.pos \in DOMAIN t.entries[u.idx]
      /\ At(t, u).key \in Keys /\ At(t, u).val \in Values
  BY UsedEntry
<1>3. Find(t, At(t, u).key) = At(t, u).val
  <2>1. u.idx \in 0 .. Capa - 1
    BY <1>2, CapaAssumption
  <2> HIDE DEF t, u
  <2> QED
    BY <1>2, <2>1, EntryIsFound DEF At
<1>4. PICK c \in Classes, o \in Traits, key \in Keys, val \in Values :
        c = using.class /\ o = using.trait /\ key = At(t, u).key /\ val = At(t, u).val
  BY <1>2
<1>5. Giving = <<c, o>> /\ Giving' = Giving
  <2>1. using \in [class : Classes, trait : Traits, it : [idx : -1 .. Capa - 1, pos : Nat]]
    BY <1>1 DEF TypedMaps, TypeOK
  <2> HIDE DEF u
  <2>2. using'.class = c /\ using'.trait = o
    BY <1>1, <1>4, <2>1
  <2>3. NoUse' = NoUse /\ NoUse.class = 0 /\ c # 0
    BY DEF NoUse, Start, Classes
  <2>4. using' # NoUse
    BY <2>2, <2>3
  <2> QED
    BY <1>1, <1>4, <2>2, <2>3, <2>4 DEF Giving
<1>6. Offers[o][key] = val /\ val # Promise!NotDefined
  BY <1>3, <1>4, ValuesAssumption DEF Offers, Promise!NotDefined, None
<1>7. CASE Fills(c, key)
  <2>1. table' = [table EXCEPT ![c] = Added(@, key, val)]
    BY <1>1, <1>4, <1>7
  <2>2. Promise!Given(c, key, val)
    <3> HIDE DEF t, u
    <3> QED
      BY <1>1, <1>5, <2>1, Gives
  <2>3. ~ Promise!Understands(c, key)
    BY <1>7, Understanding DEF Fills
  <2>4. /\ Giving # <<>> /\ ~ Promise!Understands(Giving[1], key)
        /\ Offers[Giving[2]][key] # Promise!NotDefined
        /\ Promise!Given(Giving[1], key, Offers[Giving[2]][key])
    BY <1>5, <1>6, <2>2, <2>3
  <2>5. Promise!Fill(key)
    BY <2>4 DEF Promise!Fill, Offers, Giving
  <2> QED
    BY <2>5 DEF Promise!Next
<1>8. CASE ~ Fills(c, key)
  <2>1. table' = table
    BY <1>1, <1>4, <1>8
  <2>2. Own' = Own
    BY <1>1, <2>1 DEF Own, Classes
  <2> QED
    BY <1>1, <1>5, <2>2, NothingHappens
<1> QED
  BY <1>7, <1>8

\* At its end the loop leaves no gap.
LEMMA UsesEndKeeps ==
  ASSUME TypedMaps, Visited, UsesEnd
  PROVE  Promise!Next
<1> DEFINE t == traits[using.trait].methods
<1>1. /\ using # NoUse /\ using' = NoUse /\ UNCHANGED <<super, klass, table, traits>>
      /\ ~Following(t, using.it) /\ Later(t, using.it) = {}
  BY DEF UsesEnd
<1>2. /\ using.class \in Classes /\ using.trait \in Traits
      /\ using.it \in [idx : -1 .. Capa - 1, pos : Nat]
      /\ t \in Table /\ WellFormed(t)
      /\ using.it.idx >= 0 => using.it.pos \in DOMAIN t.entries[using.it.idx]
  BY <1>1, UsingTyped
<1>3. PICK c \in Classes, o \in Traits : c = using.class /\ o = using.trait
  BY <1>2
<1>4. Giving = <<c, o>> /\ Giving' = <<>>
  <2>1. NoUse' = NoUse
    BY DEF NoUse, Start
  <2> QED
    BY <1>1, <1>3, <2>1 DEF Giving
<1>5. Own' = Own /\ Offers' = Offers
  BY <1>1 DEF Own, Offers, Classes, Traits
<1>6. ASSUME NEW n \in Keys, Offers[o][n] # Promise!NotDefined
      PROVE  Promise!Understands(c, n)
  <2>1. Find(t, n) # None
    BY <1>3, <1>6 DEF Offers, Promise!NotDefined, None
  <2>2. PICK i \in DOMAIN Bucket(t, n) : Bucket(t, n)[i].key = n
    BY <2>1 DEF Find, Has
  <2> DEFINE b == Slot[n]
  <2>3. b \in 0 .. Capa - 1 /\ i \in DOMAIN t.entries[b] /\ t.entries[b][i].key = n
    BY <2>2, SlotAssumption DEF Bucket
  <2> HIDE DEF b
  <2>4. Come(using.it, b, i)
    <3> HIDE DEF t
    <3> QED
      BY <1>1, <1>2, <2>3, AllEntries
  <2>5. instance_method_p(c, n)
    BY <1>1, <1>3, <2>3, <2>4 DEF Visited
  <2> QED
    BY <2>5, Understanding
<1>7. /\ Giving # <<>> /\ Giving' = <<>> /\ UNCHANGED <<super, klass>>
      /\ \A n \in Keys : Offers[Giving[2]][n] # Promise!NotDefined => Promise!Understands(Giving[1], n)
  BY <1>1, <1>4, <1>6
<1>8. Promise!Used
  <2> HIDE DEF t
  <2> QED
    BY <1>5, <1>7 DEF Promise!Used, Offers, Giving
<1> QED
  BY <1>8 DEF Promise!Next

LEMMA InitKeeps == Init => Promise!Init
<1> SUFFICES ASSUME Init PROVE Promise!Init
  OBVIOUS
<1>1. super = FirstSuper /\ klass = FirstKlass /\ traits = <<>> /\ using = NoUse /\ Classes = 1 .. 6
  BY DEF Init, Classes, FirstSuper
<1>2. ASSUME NEW c \in 1 .. 6, NEW n \in Keys PROVE Find(table[c], n) = Builtin(c, n)
  <2> DEFINE known == {k \in Keys : Builtin(c, k) # None}
             pick == CHOOSE k \in known : TRUE
  <2>1. table[c] = IF known = {} THEN NewTable ELSE Added(NewTable, pick, Builtin(c, pick))
    BY DEF Init, FirstClasses
  <2>2. CASE known = {}
    <3>1. Builtin(c, n) = None
      BY <2>2
    <3> QED
      BY <2>1, <2>2, <3>1, NewTableGives DEF None, NotDefined
  <2>3. CASE known # {}
    <3>1. pick \in Keys /\ Builtin(c, pick) # None
      BY <2>3
    <3>2. Builtin(c, pick) \in Values
      BY <3>1, BuiltinAssumption DEF Builtin, None, NotDefined
    <3>3. \A k \in Keys : Builtin(c, k) # None => k = pick
      BY <3>1 DEF Builtin, None, NotDefined, Class, Object
    <3> HIDE DEF known, pick
    <3>4. table[c] = Added(NewTable, pick, Builtin(c, pick))
      BY <2>1, <2>3
    <3>5. Find(table[c], n) = IF n = pick THEN Builtin(c, pick) ELSE Find(NewTable, n)
      BY <3>1, <3>2, <3>4, NewTableIsMap, AddedIsAnUpdate
    <3>6. CASE n = pick
      BY <3>5, <3>6
    <3>7. CASE n # pick
      <4>1. Builtin(c, n) = None
        BY <3>3, <3>7
      <4>2. Find(table[c], n) = NotDefined
        BY <3>5, <3>7, NewTableGives
      <4> QED
        BY <4>1, <4>2 DEF None, NotDefined
    <3> QED
      BY <3>6, <3>7
  <2> QED
    BY <2>2, <2>3
<1>3. \A c, n : Promise!Builtin(c, n) = Builtin(c, n)
  BY DEF Promise!Builtin, Builtin, Promise!NotDefined, NotDefined, Promise!Class, Class, Promise!Object, Object
<1>4. Own = [c \in 1 .. 6 |-> [n \in Keys |-> Promise!Builtin(c, n)]]
  BY <1>1, <1>2, <1>3 DEF Own
<1>5. Offers = <<>> /\ Giving = <<>>
  BY <1>1 DEF Offers, Giving, Traits
<1>6. Promise!FirstClasses = 6 /\ Promise!FirstSuper = FirstSuper /\ Promise!FirstKlass = FirstKlass
  BY DEF Promise!FirstClasses, Promise!FirstSuper, FirstSuper, Promise!FirstKlass, FirstKlass
<1> QED
  BY <1>1, <1>4, <1>5, <1>6 DEF Promise!Init, Offers, Giving

LEMMA NextKeeps ==
  ASSUME TypedMaps, Visited, [Next]_vars
  PROVE  [Promise!Next]_Promise!specVars
<1>1. ASSUME UNCHANGED <<super, klass, table, traits, using>> PROVE [Promise!Next]_Promise!specVars
  BY <1>1, NothingKeeps
<1>2. ASSUME NEW c \in Visible, NEW name \in Keys, NEW m \in Written,
             add_method(c, name, m) \/ add_scope_method(c, name, m)
      PROVE  [Promise!Next]_Promise!specVars
  <2>1. c \in Classes /\ klass[c] \in Classes /\ m \in Values
    BY VisibleAreClasses DEF TypedMaps, TypeOK, Written
  <2>2. using = NoUse /\ UNCHANGED <<super, klass, traits, using>>
        /\ \/ table' = [table EXCEPT ![c] = Added(@, name, m)]
           \/ table' = [table EXCEPT ![klass[c]] = Added(@, name, m)]
    BY <1>2 DEF add_method, add_scope_method, Define, Free
  <2>3. PICK d \in Classes : table' = [table EXCEPT ![d] = Added(@, name, m)]
    BY <2>1, <2>2
  <2> QED
    BY <2>1, <2>2, <2>3, DefineKeeps
<1>3. ASSUME NEW c \in Visible, NEW from \in Keys, NEW to \in Keys, alias_method(c, from, to)
      PROVE  [Promise!Next]_Promise!specVars
  <2>1. CASE instance_method_p(c, from)
    <3>1. PICK m \in Values : m = Lookup(c, from)
      BY <2>1 DEF instance_method_p
    <3>2. c \in Classes /\ using = NoUse /\ UNCHANGED <<super, klass, traits, using>>
          /\ table' = [table EXCEPT ![c] = Added(@, to, m)]
      BY <1>3, <2>1, <3>1, VisibleAreClasses DEF alias_method, Define, Free, TypedMaps
    <3> QED
      BY <3>2, DefineKeeps
  <2>2. CASE ~ instance_method_p(c, from)
    BY <1>1, <1>3, <2>2 DEF alias_method
  <2> QED
    BY <2>1, <2>2
<1>4. ASSUME (\E c \in Visible : run_body(c) \/ new_instance(c)) \/ BodyEnds \/ BodyUnwinds
      PROVE  [Promise!Next]_Promise!specVars
  BY <1>1, <1>4 DEF run_body, new_instance, BodyEnds, BodyUnwinds
<1>5. ASSUME UsesBehind \/ Stopped \/ UNCHANGED vars PROVE [Promise!Next]_Promise!specVars
  BY <1>1, <1>5 DEF UsesBehind, Stopped, vars
<1> QED
  BY <1>2, <1>3, <1>4, <1>5, SubclassKeeps, NewTraitKeeps, OfferKeeps, UseKeeps, UsesNextKeeps, UsesEndKeeps DEF Next

\* The classes, the traits and the loop of uses_trait (vm/class.cpp, vm/trait.cpp,
\* vm/method_table.cpp) keep what ClassSpec promises, step by step: one definition
\* of a name on a class, the nearest found, and every gap filled and nothing else.
THEOREM ClassesKeepTheirPromise == Spec => ImplementsPromise
<1>1. Init => TypedMaps /\ Visited
  BY InitTyped DEF Init, Visited
<1>2. (TypedMaps /\ Visited) /\ [Next]_vars => (TypedMaps /\ Visited)'
  BY NextTyped, NextVisited
<1>3. TypedMaps /\ Visited /\ [Next]_vars => [Promise!Next]_Promise!specVars
  BY NextKeeps
<1> QED
  BY <1>1, <1>2, <1>3, InitKeeps, PTL DEF Spec, ImplementsPromise, Promise!Spec
=============================================================================
