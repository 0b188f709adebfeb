------------------------------- MODULE Tables -------------------------------
(***************************************************************************)
(* MethodTable and Bindings (vm/method_table.cpp, vm/bindings.cpp): chains *)
(* of entries in an array of Capa of them.  No table ever grows.           *)
(***************************************************************************)
EXTENDS Integers, Sequences

CONSTANTS
  Keys,     \* the names
  Values,   \* the methods or objects of the entries
  Capa,     \* cDefaultCapa
  Slot      \* h % capa_, the hash of a name

ASSUME CapaAssumption == Capa \in Nat \ {0}
ASSUME SlotAssumption == Slot \in [Keys -> 0 .. Capa - 1]

None == "none"
ASSUME ValuesAssumption == None \notin Values

Entry == [key : Keys, val : Values]
Table == [entries : [0 .. Capa - 1 -> Seq(Entry)], size : Nat]
\* The constructor of MethodTable leaves the array as it was allocated, which is
\* zeroes until the memory was used before.
NewTable == [entries |-> [b \in 0 .. Capa - 1 |-> <<>>], size |-> 0]

Bucket(t, key) == t.entries[Slot[key]]
Holds(chain, key, i) ==
  /\ i \in DOMAIN chain /\ chain[i].key = key
  /\ \A j \in DOMAIN chain : chain[j].key = key => i <= j
Has(t, key) == \E i \in DOMAIN Bucket(t, key) : Bucket(t, key)[i].key = key
\* lookup, find
Find(t, key) ==
  IF Has(t, key) THEN Bucket(t, key)[CHOOSE i \in DOMAIN Bucket(t, key) : Holds(Bucket(t, key), key, i)].val
  ELSE None

\* add, set: the entry of the key gets the value, or one is put at the end.
\* Faulty: the first entry of the chain is taken for that of the key.
AddedFirst(t, key, val) ==
  IF Bucket(t, key) # <<>>
  THEN [t EXCEPT !.entries[Slot[key]][1].val = val]
  ELSE [t EXCEPT !.entries[Slot[key]] = Append(@, [key |-> key, val |-> val]), !.size = @ + 1]
\* Faulty: the chain is not searched.
AddedAgain(t, key, val) ==
  [t EXCEPT !.entries[Slot[key]] = Append(@, [key |-> key, val |-> val]), !.size = @ + 1]
Added(t, key, val) ==
  IF Has(t, key)
  THEN [t EXCEPT !.entries[Slot[key]] =
          [i \in DOMAIN @ |-> IF Holds(@, key, i) THEN [@[i] EXCEPT !.val = val] ELSE @[i]]]
  ELSE [t EXCEPT !.entries[Slot[key]] = Append(@, [key |-> key, val |-> val]), !.size = @ + 1]

\* What lookup relies on: a key is in its own chain, once.
WellFormed(t) ==
  \A b \in 0 .. Capa - 1 :
    /\ \A i \in DOMAIN t.entries[b] : Slot[t.entries[b][i].key] = b
    /\ \A i, j \in DOMAIN t.entries[b] : t.entries[b][i].key = t.entries[b][j].key => i = j

\* MethodTable::Iterator: idx_ and the place of entry_ in its chain.
Start == [idx |-> -1, pos |-> 0]
At(t, it) == t.entries[it.idx][it.pos]
Following(t, it) == it.pos > 0 /\ it.pos < Len(t.entries[it.idx])
\* The chains next() can still come to.
Later(t, it) == {b \in it.idx + 1 .. Capa - 1 : t.entries[b] # <<>>}
\* After the last chain next() looks at the word behind the array.
LooksBehind(t, it) == ~Following(t, it) /\ it.idx + 1 = Capa
First(chains) == CHOOSE b \in chains : \A c \in chains : b <= c
NextEntry(t, it) ==
  IF Following(t, it) THEN [it EXCEPT !.pos = @ + 1]
  ELSE [idx |-> First(Later(t, it)), pos |-> 1]
=============================================================================
