---------------------------- MODULE RootsProofs ----------------------------
(***************************************************************************)
(* Proofs about the collector and its roots.  Handles are exactly roots    *)
(* until a scope is closed that had outgrown its array, for arrays of any  *)
(* size at any places; and a collection keeps what can be come to from the *)
(* places it scans by the fields it follows, and nothing else.             *)
(***************************************************************************)
EXTENDS HandleScopesProps, GCTrace, SequenceTheorems, TLAPS

-----------------------------------------------------------------------------
(* handles                                                                 *)
SetRec == [oops : Places, pos : Nat]
ScopeRec(n) == [set : 1 .. n, old : Nat]

\* The types of sets, scopes and handles.
Typed(ss, sc, hs) ==
  /\ ss \in Seq(SetRec)
  /\ sc \in Seq(ScopeRec(Len(ss)))
  /\ hs \in Seq(Seq(Nat)) /\ Len(hs) = Len(sc)

LEMMA Elements ==
  ASSUME NEW ss, NEW sc, NEW hs, Typed(ss, sc, hs)
  PROVE  /\ Len(ss) \in Nat /\ Len(sc) \in Nat /\ Len(hs) = Len(sc)
         /\ \A i \in 1 .. Len(ss) :
              ss[i] \in SetRec /\ ss[i].oops \in Nat /\ ss[i].pos \in Nat
              /\ ss[i].oops \in Places /\ Limit(ss[i]) \in Nat
         /\ \A k \in 1 .. Len(sc) :
              /\ sc[k] \in ScopeRec(Len(ss))
              /\ sc[k].set \in 1 .. Len(ss) /\ sc[k].old \in Nat
              /\ hs[k] \in Seq(Nat) /\ Len(hs[k]) \in Nat
         /\ SetSize \in Nat \ {0}
<1>1. ss \in Seq(SetRec) /\ sc \in Seq(ScopeRec(Len(ss))) /\ hs \in Seq(Seq(Nat))
      /\ Len(hs) = Len(sc)
  BY DEF Typed
<1>2. \A i \in 1 .. Len(ss) : ss[i] \in SetRec
  BY <1>1
<1>3. \A k \in 1 .. Len(sc) : sc[k] \in ScopeRec(Len(ss))
  BY <1>1
<1>4. \A k \in 1 .. Len(hs) : hs[k] \in Seq(Nat)
  BY <1>1
<1>5. Places \subseteq Nat /\ SetSize \in Nat \ {0}
  BY PlacesAssumption
<1>6. Len(ss) \in Nat /\ Len(sc) \in Nat
  BY <1>1
<1>7. ASSUME NEW i \in 1 .. Len(ss)
      PROVE  /\ ss[i] \in SetRec /\ ss[i].oops \in Nat /\ ss[i].pos \in Nat
             /\ ss[i].oops \in Places /\ Limit(ss[i]) \in Nat
  <2>1. ss[i] \in SetRec
    BY <1>2
  <2>2. ss[i].oops \in Places /\ ss[i].pos \in Nat
    BY <2>1 DEF SetRec
  <2>3. ss[i].oops \in Nat
    BY <2>2, <1>5
  <2>4. Limit(ss[i]) \in Nat
    BY <2>3, <1>5 DEF Limit
  <2> QED
    BY <2>1, <2>2, <2>3, <2>4
<1>8. ASSUME NEW k \in 1 .. Len(sc)
      PROVE  /\ sc[k] \in ScopeRec(Len(ss))
             /\ sc[k].set \in 1 .. Len(ss) /\ sc[k].old \in Nat
             /\ hs[k] \in Seq(Nat) /\ Len(hs[k]) \in Nat
  <2>1. sc[k] \in ScopeRec(Len(ss)) /\ hs[k] \in Seq(Nat)
    BY <1>1, <1>3, <1>4
  <2>2. Len(hs[k]) \in Nat
    BY <2>1
  <2> QED
    BY <2>1, <2>2 DEF ScopeRec
<1> QED
  BY <1>1, <1>5, <1>6, <1>7, <1>8

\* An address lies in one array only.
LEMMA OneArray ==
  ASSUME NEW ss \in Seq(SetRec), SetsOK(ss), NEW a \in Int,
         NEW i \in 1 .. Len(ss), NEW j \in 1 .. Len(ss),
         InArray(a, ss[i]), InArray(a, ss[j])
  PROVE  i = j
<1>1. /\ ss[i].oops \in Places /\ ss[j].oops \in Places
      /\ ss[i].oops \in Nat /\ ss[j].oops \in Nat /\ SetSize \in Nat
  <2>1. ss[i] \in SetRec /\ ss[j] \in SetRec
    OBVIOUS
  <2> QED
    BY <2>1, PlacesAssumption DEF SetRec
<1>2. ss[i].oops = ss[j].oops
  <2>1. ~(ss[i].oops < ss[j].oops)
    BY <1>1, PlacesAssumption DEF InArray, Limit
  <2>2. ~(ss[j].oops < ss[i].oops)
    BY <1>1, PlacesAssumption DEF InArray, Limit
  <2> QED
    BY <1>1, <2>1, <2>2
<1> QED
  BY <1>2 DEF SetsOK

LEMMA ScannedFacts ==
  ASSUME NEW ss, NEW a
  PROVE  a \in Scanned(ss)
           <=> \E i \in 1 .. Len(ss) : a \in ss[i].oops .. ss[i].pos - 1
BY DEF Scanned

LEMMA LiveFacts ==
  ASSUME NEW hs, NEW a
  PROVE  a \in Live(hs) <=> \E k \in 1 .. Len(hs) : a \in InScope(hs, k)
BY DEF Live

\* The slots of a scope are addresses.
LEMMA SlotsAreNat ==
  ASSUME NEW ss, NEW sc, NEW hs, Typed(ss, sc, hs), NEW k \in 1 .. Len(hs)
  PROVE  InScope(hs, k) \subseteq Nat
BY Elements DEF InScope

-----------------------------------------------------------------------------
(* HandleSets::pull. *)

LEMMA PullSound ==
  ASSUME NEW ss, NEW sc, NEW hs, Typed(ss, sc, hs), Sound(ss, sc, hs),
         NEW p \in Places, p \notin {ss[i].oops : i \in 1 .. Len(ss)}
  PROVE  LET tt == Append(ss, [oops |-> p, pos |-> p])
         IN  Typed(tt, sc, hs) /\ Sound(tt, sc, hs)
<1> DEFINE r == [oops |-> p, pos |-> p]
           tt == Append(ss, r)
           n == Len(ss) + 1
<1>1. r \in SetRec /\ r.oops = p /\ r.pos = p /\ p \in Nat
  BY PlacesAssumption DEF SetRec
<1>2. Len(ss) \in Nat /\ ss \in Seq(SetRec)
  BY Elements DEF Typed
<1> HIDE DEF r
<1>3. /\ tt \in Seq(SetRec) /\ Len(tt) = n
      /\ \A i \in 1 .. Len(ss) : tt[i] = ss[i]
      /\ tt[n] = r
  BY <1>1, <1>2
<1> HIDE DEF tt
<1>4. \A k \in 1 .. Len(sc) : sc[k].set \in 1 .. Len(ss) /\ tt[sc[k].set] = ss[sc[k].set]
  BY <1>3, Elements
<1>5. Typed(tt, sc, hs)
  <2>1. sc \in Seq(ScopeRec(n))
    <3>1. ScopeRec(Len(ss)) \subseteq ScopeRec(n)
      BY <1>2 DEF ScopeRec
    <3>2. sc \in Seq(ScopeRec(Len(ss)))
      BY DEF Typed
    <3> QED
      BY <3>1, <3>2
  <2> QED
    BY <2>1, <1>3 DEF Typed
<1>6. SetsOK(tt)
  <2>1. InArray(r.pos, r)
    BY <1>1, PlacesAssumption DEF InArray, Limit
  <2>2. \A i \in 1 .. n : i = n \/ i \in 1 .. Len(ss)
    BY <1>2
  <2> QED
    BY <1>1, <1>3, <2>1, <2>2 DEF SetsOK, Sound
<1>7. ScopesOK(tt, sc)
  <2> SUFFICES ASSUME NEW k \in 1 .. Len(sc)
               PROVE  /\ \E i \in 1 .. sc[k].set : InArray(sc[k].old, tt[i])
                      /\ AtHome(tt, sc[k]) => sc[k].old <= tt[sc[k].set].pos
    BY DEF ScopesOK
  <2>1. PICK i \in 1 .. sc[k].set : InArray(sc[k].old, ss[i])
    BY DEF Sound, ScopesOK
  <2>2. tt[i] = ss[i]
    BY <1>2, <1>3, <1>4
  <2>3. AtHome(ss, sc[k]) => sc[k].old <= ss[sc[k].set].pos
    BY DEF Sound, ScopesOK
  <2> QED
    BY <1>4, <2>1, <2>2, <2>3 DEF AtHome
<1>8. Nested(tt, sc, hs)
  <2>1. \A k \in 1 .. Len(sc) : AtHome(tt, sc[k]) <=> AtHome(ss, sc[k])
    BY <1>4 DEF AtHome
  <2>2. \A h : \A k \in 1 .. Len(sc) : Given(tt, sc[k], h) <=> Given(ss, sc[k], h)
    BY <1>4 DEF Given
  <2>3. \A k \in 1 .. Len(sc) : \A l \in 1 .. k - 1 : l \in 1 .. Len(sc)
    BY Elements
  <2> QED
    BY <2>1, <2>2, <2>3 DEF Sound, Nested
<1>9. Scanned(tt) = Scanned(ss)
  <2>1. \A a : a \in Scanned(tt) <=> a \in Scanned(ss)
    <3> TAKE a
    <3>1. a \notin r.oops .. r.pos - 1
      BY <1>1
    <3>2. \A i \in 1 .. n : i = n \/ i \in 1 .. Len(ss)
      BY <1>2
    <3>3. \A i \in 1 .. Len(ss) : i \in 1 .. n
      BY <1>2
    <3> QED
      BY <3>1, <3>2, <3>3, <1>3, ScannedFacts
  <2> QED
    BY <2>1
<1> QED
  BY <1>5, <1>6, <1>7, <1>8, <1>9 DEF Sound, tt, r

-----------------------------------------------------------------------------
(* HandleScope's constructor. *)

LEMMA OpenSound ==
  ASSUME NEW ss, NEW sc, NEW hs, Typed(ss, sc, hs), Sound(ss, sc, hs),
         ss # <<>>
  PROVE  LET f == [set |-> Len(ss), old |-> ss[Len(ss)].pos]
         IN  /\ Typed(ss, Append(sc, f), Append(hs, <<>>))
             /\ Sound(ss, Append(sc, f), Append(hs, <<>>))
<1> DEFINE m == Len(ss)
           f == [set |-> m, old |-> ss[m].pos]
           n == Len(sc) + 1
           sd == Append(sc, f)
           hd == Append(hs, <<>>)
<1>1. /\ m \in 1 .. m /\ m \in Nat /\ Len(sc) \in Nat /\ n \in Nat \ {0}
      /\ Len(hs) = Len(sc) /\ ss \in Seq(SetRec)
  BY Elements DEF Typed
<1>2. /\ f \in ScopeRec(m) /\ f.set = m /\ f.old = ss[m].pos
      /\ ss[m].pos \in Nat
  <2>1. ss[m].pos \in Nat
    BY <1>1, Elements
  <2> QED
    BY <1>1, <2>1 DEF ScopeRec
<1> HIDE DEF f, m
<1>3. /\ sd \in Seq(ScopeRec(m)) /\ Len(sd) = n
      /\ \A k \in 1 .. Len(sc) : sd[k] = sc[k]
      /\ sd[n] = f
  <2>1. sc \in Seq(ScopeRec(m))
    BY DEF Typed, m
  <2> QED
    BY <2>1, <1>2
<1>4. /\ hd \in Seq(Seq(Nat)) /\ Len(hd) = n
      /\ \A k \in 1 .. Len(sc) : hd[k] = hs[k]
      /\ hd[n] = <<>>
  <2>1. hs \in Seq(Seq(Nat)) /\ <<>> \in Seq(Nat)
    BY DEF Typed
  <2> QED
    BY <2>1, <1>1
<1> HIDE DEF sd, hd, n
<1>5. \A k \in 1 .. n : k = n \/ k \in 1 .. Len(sc)
  BY <1>1 DEF n
<1>6. \A k \in 1 .. Len(sc) : k \in 1 .. n /\ k # n
  BY <1>1 DEF n
<1>7. /\ \A k \in 1 .. Len(sc) : InScope(hd, k) = InScope(hs, k)
      /\ InScope(hd, n) = {}
  BY <1>4 DEF InScope
<1>8. Typed(ss, sd, hd)
  BY <1>1, <1>3, <1>4 DEF Typed, m
<1>9. ScopesOK(ss, sd)
  <2>1. ASSUME NEW k \in 1 .. Len(sc)
        PROVE  /\ \E i \in 1 .. sd[k].set : InArray(sd[k].old, ss[i])
               /\ AtHome(ss, sd[k]) => sd[k].old <= ss[sd[k].set].pos
    BY <1>3 DEF Sound, ScopesOK
  <2>2. InArray(ss[m].pos, ss[m])
    BY <1>1 DEF Sound, SetsOK, m
  <2>3. /\ \E i \in 1 .. sd[n].set : InArray(sd[n].old, ss[i])
        /\ AtHome(ss, sd[n]) => sd[n].old <= ss[sd[n].set].pos
    BY <2>2, <1>1, <1>2, <1>3
  <2> QED
    BY <2>1, <2>3, <1>3, <1>5 DEF ScopesOK
<1>10. Live(hd) = Live(hs)
  <2>1. \A a : a \in Live(hd) <=> a \in Live(hs)
    BY <1>1, <1>4, <1>5, <1>6, <1>7, LiveFacts
  <2> QED
    BY <2>1
<1>11. Nested(ss, sd, hd)
  <2>1. ASSUME NEW k \in 1 .. Len(sc), AtHome(ss, sd[k])
        PROVE  /\ \A h \in InScope(hd, k) : Given(ss, sd[k], h)
               /\ \A l \in 1 .. k - 1 :
                    /\ \A h \in InScope(hd, l) : ~Given(ss, sd[k], h)
                    /\ AtHome(ss, sd[l]) /\ sd[l].set = sd[k].set
                         => sd[l].old <= sd[k].old
    <3>1. \A l \in 1 .. k - 1 : l \in 1 .. Len(sc)
      BY <1>1
    <3> QED
      BY <2>1, <3>1, <1>3, <1>7 DEF Sound, Nested
  <2>2. ASSUME NEW l \in 1 .. Len(sc), NEW h \in InScope(hs, l)
        PROVE  ~Given(ss, f, h)
    <3>1. h \in Scanned(ss)
      BY <1>1, LiveFacts DEF Sound
    <3>2. PICK i \in 1 .. m : h \in ss[i].oops .. ss[i].pos - 1
      BY <3>1, ScannedFacts DEF m
    <3>3. /\ ss[i].oops \in Nat /\ ss[i].pos \in Nat /\ Limit(ss[i]) \in Nat
          /\ ss[m].oops \in Nat /\ Limit(ss[m]) \in Nat
      BY <1>1, Elements DEF m
    <3>4. InArray(ss[i].pos, ss[i]) /\ InArray(ss[m].pos, ss[m])
      BY <1>1 DEF Sound, SetsOK, m
    <3>5. h \in Int /\ InArray(h, ss[i]) /\ h < ss[i].pos
      BY <3>2, <3>3, <3>4 DEF InArray
    <3>6. CASE i = m
      BY <3>5, <3>6, <3>3, <1>2 DEF Given
    <3>7. CASE i # m
      <4>1. ~InArray(h, ss[m])
        BY <3>5, <3>7, <1>1, OneArray DEF Sound, m
      <4> QED
        BY <4>1, <3>3, <3>4, <3>5, <1>2 DEF Given, InArray
    <3> QED
      BY <3>6, <3>7
  <2>3. ASSUME NEW l \in 1 .. Len(sc), AtHome(ss, sc[l]), sc[l].set = m
        PROVE  sc[l].old <= f.old
    BY <2>3, <1>2 DEF Sound, ScopesOK
  <2>4. \A l \in 1 .. n - 1 : l \in 1 .. Len(sc)
    BY <1>1 DEF n
  <2>5. /\ \A h \in InScope(hd, n) : Given(ss, sd[n], h)
        /\ \A l \in 1 .. n - 1 :
             /\ \A h \in InScope(hd, l) : ~Given(ss, sd[n], h)
             /\ AtHome(ss, sd[l]) /\ sd[l].set = sd[n].set
                  => sd[l].old <= sd[n].old
    BY <2>2, <2>3, <2>4, <1>2, <1>3, <1>7
  <2> QED
    BY <2>1, <2>5, <1>3, <1>5 DEF Nested
<1>12. Distinct(hd)
  <2> SUFFICES ASSUME NEW k \in 1 .. n, NEW l \in 1 .. n,
                      NEW i \in 1 .. Len(hd[k]), NEW j \in 1 .. Len(hd[l]),
                      hd[k][i] = hd[l][j]
               PROVE  k = l /\ i = j
    BY <1>4 DEF Distinct
  <2>1. Len(hd[n]) = 0
    BY <1>4
  <2>2. k # n /\ l # n
    <3>1. 1 .. Len(hd[n]) = {}
      BY <2>1
    <3> QED
      BY <3>1
  <2>3. k \in 1 .. Len(hs) /\ l \in 1 .. Len(hs)
    BY <2>2, <1>1, <1>5
  <2>4. hd[k] = hs[k] /\ hd[l] = hs[l]
    BY <2>3, <1>1, <1>4
  <2>5. Distinct(hs)
    BY DEF Sound
  <2> QED
    BY <2>3, <2>4, <2>5 DEF Distinct
<1> QED
  BY <1>8, <1>9, <1>10, <1>11, <1>12 DEF Sound, sd, hd, f, m

-----------------------------------------------------------------------------
(* HandleScope::add. *)

\* The scope's array is full and it goes on in the last one.
LEMMA MoveSound ==
  ASSUME NEW ss, NEW sc, NEW hs, Typed(ss, sc, hs), Sound(ss, sc, hs),
         sc # <<>>, ss # <<>>,
         Full(ss[sc[Len(sc)].set]), ~Full(ss[Len(ss)])
  PROVE  LET sd == [sc EXCEPT ![Len(sc)].set = Len(ss)]
         IN  Typed(ss, sd, hs) /\ Sound(ss, sd, hs)
<1> DEFINE n == Len(sc)
           m == Len(ss)
           f == [sc[n] EXCEPT !.set = m]
           sd == [sc EXCEPT ![n] = f]
<1>1. n \in 1 .. Len(sc) /\ m \in 1 .. Len(ss) /\ n \in Nat \ {0} /\ m \in Nat
  BY Elements DEF Typed
<1>2. /\ sc[n] \in ScopeRec(m) /\ sc[n].set \in 1 .. m /\ sc[n].set # m
      /\ sc[n].old \in Nat
  BY <1>1, Elements
<1>3. f \in ScopeRec(m) /\ f.set = m /\ f.old = sc[n].old
  BY <1>1, <1>2 DEF ScopeRec
<1>4. sd = [sc EXCEPT ![Len(sc)].set = Len(ss)]
  OBVIOUS
<1> HIDE DEF f
<1>5. /\ sd \in Seq(ScopeRec(m)) /\ Len(sd) = n
      /\ \A k \in 1 .. n : sd[k] = IF k = n THEN f ELSE sc[k]
  <2>1. sc \in Seq(ScopeRec(m))
    BY DEF Typed
  <2> QED
    BY <2>1, <1>3
<1> HIDE DEF sd, n, m
<1>6. Typed(ss, sd, hs)
  BY <1>5 DEF Typed, m, n
<1>7. PICK i \in 1 .. sc[n].set : InArray(sc[n].old, ss[i])
  BY <1>1 DEF Sound, ScopesOK, n
<1>8. ~AtHome(ss, f)
  <2>1. i \in 1 .. Len(ss) /\ i # m
    BY <1>1, <1>2, <1>7 DEF m
  <2> QED
    BY <2>1, <1>1, <1>2, <1>3, <1>7, OneArray DEF AtHome, Sound, Typed
<1>9. ScopesOK(ss, sd)
  <2>1. i \in 1 .. m
    BY <1>1, <1>2, <1>7
  <2> QED
    BY <2>1, <1>3, <1>5, <1>7, <1>8 DEF Sound, ScopesOK, n
<1>10. Nested(ss, sd, hs)
  <2> SUFFICES ASSUME NEW k \in 1 .. n, AtHome(ss, sd[k])
               PROVE  /\ \A h \in InScope(hs, k) : Given(ss, sd[k], h)
                      /\ \A l \in 1 .. k - 1 :
                           /\ \A h \in InScope(hs, l) : ~Given(ss, sd[k], h)
                           /\ AtHome(ss, sd[l]) /\ sd[l].set = sd[k].set
                                => sd[l].old <= sd[k].old
    BY <1>5 DEF Nested
  <2>1. k # n /\ sd[k] = sc[k]
    BY <1>5, <1>8
  <2>2. \A l \in 1 .. k - 1 : sd[l] = sc[l]
    BY <1>1, <1>5
  <2> QED
    BY <2>1, <2>2 DEF Sound, Nested, n
<1> QED
  BY <1>4, <1>6, <1>9, <1>10 DEF Sound, n, m

LEMMA AddSound ==
  ASSUME NEW ss, NEW sc, NEW hs, Typed(ss, sc, hs), Sound(ss, sc, hs),
         sc # <<>>, NEW i, i = sc[Len(sc)].set, ~Full(ss[i])
  PROVE  LET tt == [ss EXCEPT ![i].pos = @ + 1]
             hd == [hs EXCEPT ![Len(sc)] = Append(@, ss[i].pos)]
         IN  Typed(tt, sc, hd) /\ Sound(tt, sc, hd)
<1> DEFINE n == Len(sc)
           a == ss[i].pos
           r == [ss[i] EXCEPT !.pos = a + 1]
           tt == [ss EXCEPT ![i] = r]
           x == Append(hs[n], a)
           hd == [hs EXCEPT ![n] = x]
<1>1. /\ n \in 1 .. Len(sc) /\ n \in Nat \ {0} /\ Len(hs) = n
      /\ i \in 1 .. Len(ss) /\ Len(ss) \in Nat
      /\ ss[i] \in SetRec /\ a \in Nat /\ ss[i].oops \in Nat
      /\ hs[n] \in Seq(Nat) /\ Len(hs[n]) \in Nat
  BY Elements DEF Typed
<1>2. tt = [ss EXCEPT ![i].pos = @ + 1] /\ hd = [hs EXCEPT ![n] = Append(@, a)]
  BY <1>1 DEF Typed
<1>3. r \in SetRec /\ r.oops = ss[i].oops /\ r.pos = a + 1
  BY <1>1 DEF SetRec
<1>4. /\ x \in Seq(Nat) /\ Len(x) = Len(hs[n]) + 1 /\ x[Len(hs[n]) + 1] = a
      /\ \A j \in 1 .. Len(hs[n]) : x[j] = hs[n][j]
  BY <1>1
<1>5. a < Limit(ss[i]) /\ Limit(ss[i]) \in Nat /\ ss[i].oops <= a
  BY <1>1, Elements, PlacesAssumption DEF Full, Limit, Sound, SetsOK, InArray
<1> HIDE DEF r, x, a, n
<1>6. /\ tt \in Seq(SetRec) /\ Len(tt) = Len(ss)
      /\ \A j \in 1 .. Len(ss) : tt[j] = IF j = i THEN r ELSE ss[j]
  <2>1. ss \in Seq(SetRec)
    BY DEF Typed
  <2> QED
    BY <2>1, <1>1, <1>3
<1>7. /\ hd \in Seq(Seq(Nat)) /\ Len(hd) = n
      /\ \A k \in 1 .. n : hd[k] = IF k = n THEN x ELSE hs[k]
  <2>1. hs \in Seq(Seq(Nat))
    BY DEF Typed
  <2> QED
    BY <2>1, <1>1, <1>4
<1> HIDE DEF tt, hd
<1>8. Typed(tt, sc, hd)
  BY <1>6, <1>7 DEF Typed, n
<1>9. /\ \A j \in 1 .. Len(ss) : tt[j].oops = ss[j].oops /\ Limit(tt[j]) = Limit(ss[j])
      /\ \A j \in 1 .. Len(ss) : ss[j].pos <= tt[j].pos
      /\ \A b : \A j \in 1 .. Len(ss) : InArray(b, tt[j]) <=> InArray(b, ss[j])
  <2>1. \A j \in 1 .. Len(ss) : tt[j].oops = ss[j].oops
    BY <1>3, <1>6
  <2>2. \A j \in 1 .. Len(ss) : ss[j].pos \in Nat
    BY Elements
  <2>3. \A j \in 1 .. Len(ss) : ss[j].pos <= tt[j].pos
    <3> SUFFICES ASSUME NEW j \in 1 .. Len(ss) PROVE ss[j].pos <= tt[j].pos
      OBVIOUS
    <3>1. CASE j = i
      <4>1. tt[j].pos = ss[j].pos + 1
        BY <3>1, <1>3, <1>6 DEF a
      <4> QED
        BY <4>1, <2>2
    <3>2. CASE j # i
      BY <3>2, <1>6, <2>2
    <3> QED
      BY <3>1, <3>2
  <2> QED
    BY <2>1, <2>3 DEF Limit, InArray
<1>10. SetsOK(tt)
  <2>1. InArray(r.pos, r)
    BY <1>1, <1>3, <1>5 DEF InArray, Limit
  <2> QED
    BY <2>1, <1>6, <1>9 DEF Sound, SetsOK
<1>11. /\ \A k \in 1 .. Len(sc) : sc[k].set \in 1 .. Len(ss) /\ sc[k].old \in Nat
       /\ \A k \in 1 .. Len(sc) : AtHome(tt, sc[k]) <=> AtHome(ss, sc[k])
       /\ \A h : \A k \in 1 .. Len(sc) : Given(tt, sc[k], h) <=> Given(ss, sc[k], h)
  BY <1>9, Elements DEF AtHome, Given
<1>12. ScopesOK(tt, sc)
  <2> SUFFICES ASSUME NEW k \in 1 .. Len(sc)
               PROVE  /\ \E j \in 1 .. sc[k].set : InArray(sc[k].old, tt[j])
                      /\ AtHome(tt, sc[k]) => sc[k].old <= tt[sc[k].set].pos
    BY DEF ScopesOK
  <2>1. PICK j \in 1 .. sc[k].set : InArray(sc[k].old, ss[j])
    BY DEF Sound, ScopesOK
  <2>2. j \in 1 .. Len(ss)
    BY <1>1, <1>11
  <2>3. AtHome(ss, sc[k]) => sc[k].old <= ss[sc[k].set].pos
    BY DEF Sound, ScopesOK
  <2>4. ss[sc[k].set].pos \in Nat /\ tt[sc[k].set].pos \in Nat
    BY <1>8, <1>11, <1>6, Elements
  <2>5. InArray(sc[k].old, tt[j])
    BY <2>1, <2>2, <1>9
  <2>6. AtHome(tt, sc[k]) => sc[k].old <= tt[sc[k].set].pos
    <3>1. ss[sc[k].set].pos <= tt[sc[k].set].pos
      BY <1>9, <1>11
    <3>2. sc[k].old \in Nat /\ (AtHome(tt, sc[k]) <=> AtHome(ss, sc[k]))
      BY <1>11
    <3> QED
      BY <2>3, <2>4, <3>1, <3>2
  <2> QED
    BY <2>5, <2>6
<1>13. /\ \A k \in 1 .. n - 1 : InScope(hd, k) = InScope(hs, k)
       /\ InScope(hd, n) = InScope(hs, n) \cup {a}
  <2>1. \A k \in 1 .. n - 1 : hd[k] = hs[k]
    BY <1>1, <1>7
  <2>2. \A j \in 1 .. Len(x) : j = Len(hs[n]) + 1 \/ j \in 1 .. Len(hs[n])
    BY <1>1, <1>4
  <2>3. {x[j] : j \in 1 .. Len(x)} = {hs[n][j] : j \in 1 .. Len(hs[n])} \cup {a}
    <3>1. \A j \in 1 .. Len(hs[n]) : j \in 1 .. Len(x) /\ x[j] = hs[n][j]
      BY SMTT(30), <1>1, <1>4
    <3>2. Len(hs[n]) + 1 \in 1 .. Len(x) /\ x[Len(hs[n]) + 1] = a
      BY <1>1, <1>4
    <3>3. \A b : (\E j \in 1 .. Len(x) : b = x[j])
                   <=> (\E j \in 1 .. Len(hs[n]) : b = hs[n][j]) \/ b = a
      BY <2>2, <3>1, <3>2
    <3> QED
      BY <3>3
  <2>4. hd[n] = x
    BY <1>1, <1>7
  <2> QED
    BY <2>1, <2>3, <2>4 DEF InScope
<1>14. Nested(tt, sc, hd)
  <2> SUFFICES ASSUME NEW k \in 1 .. Len(sc), AtHome(ss, sc[k])
               PROVE  /\ \A h \in InScope(hd, k) : Given(ss, sc[k], h)
                      /\ \A l \in 1 .. k - 1 :
                           \A h \in InScope(hd, l) : ~Given(ss, sc[k], h)
    <3>1. ASSUME NEW k \in 1 .. Len(sc), NEW l \in 1 .. k - 1,
                 AtHome(tt, sc[k]), AtHome(tt, sc[l]), sc[l].set = sc[k].set
          PROVE  sc[l].old <= sc[k].old
      <4>1. l \in 1 .. Len(sc)
        BY Elements
      <4>2. AtHome(ss, sc[k]) /\ AtHome(ss, sc[l])
        BY <3>1, <4>1, <1>11
      <4> QED
        BY <3>1, <4>2 DEF Sound, Nested
    <3> QED
      BY <3>1, <1>11 DEF Nested
  <2>1. /\ \A h \in InScope(hs, k) : Given(ss, sc[k], h)
        /\ \A l \in 1 .. k - 1 : \A h \in InScope(hs, l) : ~Given(ss, sc[k], h)
    BY DEF Sound, Nested
  <2>2. \A l \in 1 .. k - 1 : l \in 1 .. n - 1
    BY <1>1 DEF n
  <2>3. CASE k # n
    <3>1. k \in 1 .. n - 1
      BY <2>3, <1>1 DEF n
    <3> QED
      BY <3>1, <2>1, <2>2, <1>13
  <2>4. CASE k = n
    <3>1. Given(ss, sc[k], a)
      <4>1. sc[k].old <= a
        BY <2>4 DEF Sound, ScopesOK, n, a
      <4> QED
        BY <4>1, <2>4, <1>5 DEF Given, n
    <3> QED
      BY <3>1, <2>1, <2>2, <2>4, <1>13
  <2> QED
    BY <2>3, <2>4
<1>15. a \notin Scanned(ss)
  <2> SUFFICES ASSUME NEW j \in 1 .. Len(ss), a \in ss[j].oops .. ss[j].pos - 1
               PROVE  FALSE
    BY ScannedFacts
  <2>1. /\ ss[j].oops \in Nat /\ ss[j].pos \in Nat /\ Limit(ss[j]) \in Nat
        /\ InArray(ss[j].pos, ss[j])
    BY Elements DEF Sound, SetsOK
  <2>2. InArray(a, ss[j]) /\ InArray(a, ss[i]) /\ a \in Int
    BY <2>1, <1>1, <1>5 DEF InArray, a
  <2>3. i = j
    BY <2>2, <1>1, OneArray DEF Sound, Typed
  <2> QED
    BY <2>1, <2>3 DEF a
<1>16. Scanned(tt) = Scanned(ss) \cup {a}
  <2>1. \A b : b \in tt[i].oops .. tt[i].pos - 1
                 <=> b \in ss[i].oops .. ss[i].pos - 1 \/ b = a
    <3>1. tt[i].oops = ss[i].oops /\ tt[i].pos = a + 1 /\ ss[i].pos = a
      BY <1>1, <1>3, <1>6 DEF a
    <3>2. a \in Nat /\ ss[i].oops \in Nat /\ ss[i].oops <= a
      BY <1>1, <1>5 DEF a
    <3> QED
      BY <3>1, <3>2
  <2>2. \A j \in 1 .. Len(ss) : j # i => tt[j] = ss[j]
    BY <1>6
  <2>3. ASSUME NEW b PROVE b \in Scanned(tt) <=> b \in Scanned(ss) \cup {a}
    <3>1. b \in Scanned(tt)
            <=> \E j \in 1 .. Len(ss) : b \in tt[j].oops .. tt[j].pos - 1
      BY <1>6, ScannedFacts
    <3>2. b \in Scanned(ss)
            <=> \E j \in 1 .. Len(ss) : b \in ss[j].oops .. ss[j].pos - 1
      BY ScannedFacts
    <3> QED
      BY <3>1, <3>2, <2>1, <2>2, <1>1
  <2> QED
    BY <2>3
<1>17. Live(hd) = Live(hs) \cup {a}
  <2>1. \A k \in 1 .. n : k = n \/ k \in 1 .. n - 1
    BY <1>1
  <2>2. \A k \in 1 .. n - 1 : k \in 1 .. n
    BY <1>1
  <2>3. \A b : b \in Live(hd) <=> b \in Live(hs) \cup {a}
    BY SMTT(30), <2>1, <2>2, <1>1, <1>7, <1>13, LiveFacts
  <2> QED
    BY <2>3
<1>18. Distinct(hd)
  <2> SUFFICES ASSUME NEW k \in 1 .. n, NEW l \in 1 .. n,
                      NEW u \in 1 .. Len(hd[k]), NEW v \in 1 .. Len(hd[l]),
                      hd[k][u] = hd[l][v]
               PROVE  k = l /\ u = v
    BY <1>7 DEF Distinct
  <2> DEFINE New(p, q) == p = n /\ q = Len(hs[n]) + 1
  <2>1. ASSUME NEW p \in 1 .. n, NEW q \in 1 .. Len(hd[p])
        PROVE  IF New(p, q) THEN hd[p][q] = a
               ELSE /\ q \in 1 .. Len(hs[p]) /\ hd[p][q] = hs[p][q]
                    /\ hs[p][q] \in Live(hs)
    <3>1. CASE p = n
      <4>1. hd[p] = x
        BY <3>1, <1>7
      <4>2. q = Len(hs[n]) + 1 \/ q \in 1 .. Len(hs[n])
        BY <4>1, <1>1, <1>4
      <4>3. q \in 1 .. Len(hs[n]) => hs[n][q] \in Live(hs)
        <5>1. q \in 1 .. Len(hs[n]) => hs[n][q] \in InScope(hs, n)
          BY DEF InScope
        <5> QED
          BY <5>1, <1>1, LiveFacts
      <4>4. q \in 1 .. Len(hs[n]) => q # Len(hs[n]) + 1
        BY <1>1
      <4> QED
        BY <4>1, <4>2, <4>3, <4>4, <3>1, <1>4
    <3>2. CASE p # n
      <4>1. hd[p] = hs[p]
        BY <3>2, <1>7
      <4>2. hs[p][q] \in InScope(hs, p) /\ q \in 1 .. Len(hs[p])
        BY <4>1 DEF InScope
      <4> QED
        BY <4>1, <4>2, <3>2, <1>1, LiveFacts
    <3> QED
      BY <3>1, <3>2
  <2>2. a \notin Live(hs)
    BY <1>15 DEF Sound
  <2>3. CASE New(k, u) /\ New(l, v)
    BY <2>3
  <2>4. CASE ~New(k, u) /\ ~New(l, v)
    <3>1. /\ u \in 1 .. Len(hs[k]) /\ v \in 1 .. Len(hs[l])
          /\ hs[k][u] = hs[l][v]
      BY <2>1, <2>4
    <3> QED
      BY <3>1, <1>1 DEF Sound, Distinct
  <2>5. CASE New(k, u) # New(l, v)
    BY ZenonT(60), <2>1, <2>2, <2>5
  <2> QED
    BY <2>3, <2>4, <2>5
<1>19. Sound(tt, sc, hd)
  BY <1>10, <1>12, <1>14, <1>16, <1>17, <1>18 DEF Sound
<1> QED
  BY <1>2, <1>8, <1>19 DEF n, a

-----------------------------------------------------------------------------
(* HandleScope's destructor. *)

LEMMA CloseSound ==
  ASSUME NEW ss, NEW sc, NEW hs, Typed(ss, sc, hs), Sound(ss, sc, hs),
         sc # <<>>, NEW f, f = sc[Len(sc)], AtHome(ss, f)
  PROVE  LET tt == [ss EXCEPT ![f.set].pos = f.old]
         IN  Sound(tt, AllButTop(sc), AllButTop(hs))
<1> DEFINE n == Len(sc)
           i == f.set
           r == [ss[i] EXCEPT !.pos = f.old]
           tt == [ss EXCEPT ![i] = r]
           sd == AllButTop(sc)
           hd == AllButTop(hs)
<1>1. /\ n \in 1 .. Len(sc) /\ n \in Nat \ {0} /\ Len(hs) = n
      /\ i \in 1 .. Len(ss) /\ Len(ss) \in Nat /\ f.old \in Nat
      /\ ss[i] \in SetRec /\ ss[i].oops \in Nat /\ ss[i].pos \in Nat
      /\ Limit(ss[i]) \in Nat
  <2>1. n \in 1 .. Len(sc) /\ n \in Nat \ {0} /\ Len(hs) = n /\ Len(ss) \in Nat
    BY Elements DEF Typed
  <2>2. i \in 1 .. Len(ss) /\ f.old \in Nat
    BY <2>1, Elements
  <2> HIDE DEF i, n
  <2> QED
    BY <2>1, <2>2, Elements
<1>2. tt = [ss EXCEPT ![f.set].pos = f.old]
  OBVIOUS
<1>3. r \in SetRec /\ r.oops = ss[i].oops /\ r.pos = f.old
  BY <1>1 DEF SetRec
<1>4. ss[i].oops <= f.old /\ f.old <= ss[i].pos /\ ss[i].pos <= Limit(ss[i])
  BY <1>1 DEF Sound, ScopesOK, SetsOK, AtHome, InArray
<1> HIDE DEF r, i
<1>5. /\ tt \in Seq(SetRec) /\ Len(tt) = Len(ss)
      /\ \A j \in 1 .. Len(ss) : tt[j] = IF j = i THEN r ELSE ss[j]
  <2>1. ss \in Seq(SetRec)
    BY DEF Typed
  <2> QED
    BY <2>1, <1>1, <1>3
<1>6. /\ Len(sd) = n - 1 /\ Len(hd) = n - 1
      /\ \A k \in 1 .. n - 1 : sd[k] = sc[k] /\ hd[k] = hs[k]
  BY <1>1 DEF AllButTop
<1>7. \A k \in 1 .. n - 1 : k \in 1 .. n /\ k # n /\ k \in 1 .. Len(sc)
  BY <1>1
<1> HIDE DEF tt, sd, hd, n
<1>8. /\ \A j \in 1 .. Len(ss) : tt[j].oops = ss[j].oops /\ Limit(tt[j]) = Limit(ss[j])
      /\ \A b : \A j \in 1 .. Len(ss) : InArray(b, tt[j]) <=> InArray(b, ss[j])
  <2>1. \A j \in 1 .. Len(ss) : tt[j].oops = ss[j].oops
    BY <1>3, <1>5
  <2> QED
    BY <2>1 DEF Limit, InArray
<1>9. SetsOK(tt)
  <2>1. InArray(r.pos, r)
    BY <1>3 DEF AtHome, InArray, Limit, i
  <2> QED
    BY <2>1, <1>5, <1>8 DEF Sound, SetsOK
<1>10. /\ \A k \in 1 .. Len(sc) : sc[k].set \in 1 .. Len(ss) /\ sc[k].old \in Nat
       /\ \A k \in 1 .. Len(sc) : AtHome(tt, sc[k]) <=> AtHome(ss, sc[k])
       /\ \A h : \A k \in 1 .. Len(sc) : Given(tt, sc[k], h) <=> Given(ss, sc[k], h)
  BY <1>8, Elements DEF AtHome, Given
<1>11. ScopesOK(tt, sd)
  <2> SUFFICES ASSUME NEW k \in 1 .. n - 1
               PROVE  /\ \E j \in 1 .. sc[k].set : InArray(sc[k].old, tt[j])
                      /\ AtHome(ss, sc[k]) => sc[k].old <= tt[sc[k].set].pos
    BY <1>6, <1>7, <1>10 DEF ScopesOK
  <2>1. PICK j \in 1 .. sc[k].set : InArray(sc[k].old, ss[j])
    BY <1>7 DEF Sound, ScopesOK
  <2>2. InArray(sc[k].old, tt[j])
    <3>1. sc[k].set \in 1 .. Len(ss)
      BY <1>7, <1>10
    <3>2. j \in 1 .. Len(ss)
      BY <3>1, <1>1
    <3> QED
      BY <2>1, <3>2, <1>8
  <2>3. ASSUME AtHome(ss, sc[k]) PROVE sc[k].old <= tt[sc[k].set].pos
    <3>1. CASE sc[k].set = i
      <4>1. sc[k].old <= f.old
        BY <2>3, <3>1, <1>1 DEF Sound, Nested, n, i
      <4> QED
        BY <4>1, <3>1, <1>1, <1>3, <1>5
    <3>2. CASE sc[k].set # i
      <4>1. tt[sc[k].set] = ss[sc[k].set]
        BY <3>2, <1>5, <1>7, <1>10
      <4> QED
        BY <4>1, <2>3, <1>7 DEF Sound, ScopesOK
    <3> QED
      BY <3>1, <3>2
  <2> QED
    BY <2>1, <2>2, <2>3
<1>12. \A k \in 1 .. n - 1 : InScope(hd, k) = InScope(hs, k)
  BY <1>6 DEF InScope
<1>13. Nested(tt, sd, hd)
  <2> SUFFICES ASSUME NEW k \in 1 .. n - 1, AtHome(ss, sc[k])
               PROVE  /\ \A h \in InScope(hs, k) : Given(ss, sc[k], h)
                      /\ \A l \in 1 .. k - 1 :
                           /\ \A h \in InScope(hs, l) : ~Given(ss, sc[k], h)
                           /\ AtHome(ss, sc[l]) /\ sc[l].set = sc[k].set
                                => sc[l].old <= sc[k].old
    <3>1. \A k \in 1 .. n - 1 : \A l \in 1 .. k - 1 : l \in 1 .. n - 1
      BY <1>1
    <3> QED
      BY <3>1, <1>6, <1>7, <1>10, <1>12 DEF Nested
  <2> QED
    BY <1>7 DEF Sound, Nested
<1>14. \A h \in InScope(hs, n) : h \in Nat /\ f.old <= h /\ h < Limit(ss[i])
  <2>1. InScope(hs, n) \subseteq Nat
    BY <1>1, SlotsAreNat
  <2> QED
    BY <2>1, <1>1 DEF Sound, Nested, Given, n, i
<1>15. \A l \in 1 .. n - 1 : \A h \in InScope(hs, l) :
         ~(f.old <= h /\ h < Limit(ss[i]))
  BY <1>1, <1>7 DEF Sound, Nested, Given, n, i
<1>16. /\ tt[i].oops = ss[i].oops /\ tt[i].pos = f.old
       /\ \A j \in 1 .. Len(ss) : j # i => tt[j] = ss[j]
  BY <1>1, <1>3, <1>5
<1>17. Live(hd) \subseteq Scanned(tt)
  <2> SUFFICES ASSUME NEW l \in 1 .. n - 1, NEW h \in InScope(hs, l)
               PROVE  h \in Scanned(tt)
    BY <1>6, <1>12, LiveFacts
  <2>1. h \in Scanned(ss)
    BY <1>1, <1>7, LiveFacts DEF Sound
  <2>2. PICK j \in 1 .. Len(ss) : h \in ss[j].oops .. ss[j].pos - 1
    BY <2>1, ScannedFacts
  <2>3. h \in tt[j].oops .. tt[j].pos - 1
    <3>1. CASE j = i
      <4>1. ~(f.old <= h /\ h < Limit(ss[i]))
        BY <1>15
      <4>2. h \in Int /\ ss[i].oops <= h /\ h < ss[i].pos
        BY <2>2, <3>1, <1>1
      <4>3. h < f.old
        BY <4>1, <4>2, <1>1, <1>4
      <4> QED
        BY <4>2, <4>3, <3>1, <1>1, <1>16
    <3>2. CASE j # i
      BY <2>2, <3>2, <1>16
    <3> QED
      BY <3>1, <3>2
  <2> QED
    BY <2>3, <1>5, ScannedFacts
<1>18. Scanned(tt) \subseteq Live(hd)
  <2> SUFFICES ASSUME NEW j \in 1 .. Len(ss),
                      NEW h \in tt[j].oops .. tt[j].pos - 1
               PROVE  h \in Live(hd)
    BY <1>5, ScannedFacts
  <2>1. h \in ss[j].oops .. ss[j].pos - 1 /\ h \in Int
    <3>1. CASE j = i
      BY <3>1, <1>1, <1>4, <1>16
    <3>2. CASE j # i
      <4>1. ss[j].oops \in Nat /\ ss[j].pos \in Nat
        BY Elements
      <4> QED
        BY <4>1, <3>2, <1>16
    <3> QED
      BY <3>1, <3>2
  <2>2. h \in Live(hs)
    BY <2>1, ScannedFacts DEF Sound
  <2>3. PICK l \in 1 .. n : h \in InScope(hs, l)
    BY <2>2, <1>1, LiveFacts
  <2>4. l # n
    <3> SUFFICES ASSUME l = n PROVE FALSE
      OBVIOUS
    <3>1. h \in Nat /\ f.old <= h /\ h < Limit(ss[i])
      BY <2>3, <1>14
    <3>2. j # i
      BY <3>1, <1>1, <1>16
    <3>3. InArray(h, ss[i])
      BY <3>1, <1>1, <1>4 DEF InArray
    <3>4. InArray(h, ss[j])
      <4>1. /\ ss[j].oops \in Nat /\ ss[j].pos \in Nat /\ Limit(ss[j]) \in Nat
            /\ InArray(ss[j].pos, ss[j])
        BY Elements DEF Sound, SetsOK
      <4> QED
        BY <4>1, <2>1 DEF InArray
    <3>5. j = i
      BY <2>1, <3>3, <3>4, <1>1, OneArray DEF Sound, Typed
    <3> QED
      BY <3>2, <3>5
  <2>5. l \in 1 .. n - 1
    BY <2>3, <2>4, <1>1
  <2> QED
    BY <2>3, <2>5, <1>6, <1>12, LiveFacts
<1>19. Distinct(hd)
  <2>1. \A k \in 1 .. Len(hd) : k \in 1 .. Len(hs) /\ hd[k] = hs[k]
    BY <1>1, <1>6, <1>7
  <2>2. Distinct(hs)
    BY DEF Sound
  <2> QED
    BY SMTT(30), <2>1, <2>2 DEF Distinct
<1> QED
  BY <1>2, <1>9, <1>11, <1>13, <1>17, <1>18, <1>19 DEF Sound, sd, hd

-----------------------------------------------------------------------------
(* The types, whether or not a scope has outgrown its array. *)

LEMMA TypedIsType == TypeOK => Typed(sets, scopes, handles)
BY DEF TypeOK, Typed, SetRec, ScopeRec

LEMMA PulledFacts ==
  ASSUME TypeOK, NEW ss \in Pulled
  PROVE  /\ \/ ss = sets
            \/ \E p \in Places : /\ p \notin {sets[i].oops : i \in 1 .. Len(sets)}
                                 /\ ss = Append(sets, [oops |-> p, pos |-> p])
         /\ ss # <<>> /\ ~Full(ss[Len(ss)])
         /\ Typed(ss, scopes, handles) /\ Len(sets) <= Len(ss)
<1>1. Typed(sets, scopes, handles) /\ sets \in Seq(SetRec)
  BY TypedIsType DEF Typed
<1>2. CASE sets # <<>> /\ ~Full(sets[Len(sets)])
  <2>1. ss = sets
    BY <1>2 DEF Pulled
  <2> QED
    BY <2>1, <1>1, <1>2, Elements
<1>3. CASE ~(sets # <<>> /\ ~Full(sets[Len(sets)]))
  <2>1. PICK p \in Places : /\ p \notin {sets[i].oops : i \in 1 .. Len(sets)}
                            /\ ss = Append(sets, [oops |-> p, pos |-> p])
    BY <1>3 DEF Pulled
  <2> DEFINE r == [oops |-> p, pos |-> p]
  <2>2. r \in SetRec /\ r.oops = p /\ r.pos = p /\ p \in Nat
    BY PlacesAssumption DEF SetRec
  <2> HIDE DEF r
  <2>3. /\ ss \in Seq(SetRec) /\ Len(ss) = Len(sets) + 1 /\ Len(sets) \in Nat
        /\ ss[Len(ss)] = r /\ ss # <<>>
    BY <1>1, <2>1, <2>2 DEF r
  <2>4. ~Full(ss[Len(ss)])
    BY <2>2, <2>3, PlacesAssumption DEF Full
  <2>5. scopes \in Seq(ScopeRec(Len(ss)))
    <3>1. ScopeRec(Len(sets)) \subseteq ScopeRec(Len(ss))
      BY <2>3 DEF ScopeRec
    <3> QED
      BY <3>1, <1>1 DEF Typed
  <2> QED
    BY <1>1, <2>1, <2>3, <2>4, <2>5 DEF Typed
<1> QED
  BY <1>2, <1>3

LEMMA PulledSound ==
  ASSUME TypeOK, Sound(sets, scopes, handles), NEW ss \in Pulled
  PROVE  Sound(ss, scopes, handles)
BY PulledFacts, PullSound, TypedIsType

LEMMA AddTypes ==
  ASSUME NEW ss, NEW sc, NEW hs, Typed(ss, sc, hs), sc # <<>>,
         NEW i \in 1 .. Len(ss)
  PROVE  Typed([ss EXCEPT ![i].pos = @ + 1], sc,
               [hs EXCEPT ![Len(sc)] = Append(@, ss[i].pos)])
<1>1. /\ ss \in Seq(SetRec) /\ hs \in Seq(Seq(Nat)) /\ Len(hs) = Len(sc)
      /\ Len(sc) \in 1 .. Len(hs)
      /\ ss[i] \in SetRec /\ ss[i].pos \in Nat /\ hs[Len(sc)] \in Seq(Nat)
  BY Elements DEF Typed
<1> DEFINE r == [ss[i] EXCEPT !.pos = ss[i].pos + 1]
           x == Append(hs[Len(sc)], ss[i].pos)
<1>2. r \in SetRec
  <2>1. ss[i].pos + 1 \in Nat
    BY <1>1
  <2> QED
    BY <2>1, <1>1 DEF SetRec
<1>3. x \in Seq(Nat)
  BY <1>1
<1>4. /\ [ss EXCEPT ![i].pos = @ + 1] = [ss EXCEPT ![i] = r]
      /\ [hs EXCEPT ![Len(sc)] = Append(@, ss[i].pos)] = [hs EXCEPT ![Len(sc)] = x]
  BY <1>1
<1> HIDE DEF r, x
<1>5. /\ [ss EXCEPT ![i] = r] \in Seq(SetRec)
      /\ Len([ss EXCEPT ![i] = r]) = Len(ss)
      /\ [hs EXCEPT ![Len(sc)] = x] \in Seq(Seq(Nat))
      /\ Len([hs EXCEPT ![Len(sc)] = x]) = Len(hs)
  BY <1>1, <1>2, <1>3
<1> QED
  BY <1>4, <1>5, <1>1 DEF Typed

LEMMA TypesAreEnough ==
  ASSUME Typed(sets, scopes, handles)', (Len(scopes) <= MaxScopes)',
         spilled' \in BOOLEAN
  PROVE  TypeOK'
BY DEF TypeOK, Typed, SetRec, ScopeRec

LEMMA OpenTypes ==
  ASSUME NEW ss, NEW sc, NEW hs, Typed(ss, sc, hs), ss # <<>>
  PROVE  Typed(ss, Append(sc, [set |-> Len(ss), old |-> ss[Len(ss)].pos]),
               Append(hs, <<>>))
<1> DEFINE f == [set |-> Len(ss), old |-> ss[Len(ss)].pos]
<1>1. /\ ss \in Seq(SetRec) /\ sc \in Seq(ScopeRec(Len(ss)))
      /\ hs \in Seq(Seq(Nat)) /\ Len(hs) = Len(sc)
  BY DEF Typed
<1>2. Len(ss) \in 1 .. Len(ss) /\ ss[Len(ss)].pos \in Nat
  BY <1>1, Elements
<1>3. f \in ScopeRec(Len(ss))
  BY <1>2 DEF ScopeRec
<1> HIDE DEF f
<1>4. Append(sc, f) \in Seq(ScopeRec(Len(ss))) /\ Len(Append(sc, f)) = Len(sc) + 1
  BY <1>1, <1>3
<1>5. /\ Append(hs, <<>>) \in Seq(Seq(Nat))
      /\ Len(Append(hs, <<>>)) = Len(hs) + 1
  BY <1>1
<1> QED
  BY <1>1, <1>4, <1>5 DEF Typed, f

-----------------------------------------------------------------------------
(* The actions. *)

LEMMA OpenPreserves == HandlesSound /\ Open => HandlesSound'
<1> SUFFICES ASSUME HandlesSound, Open PROVE HandlesSound'
  OBVIOUS
<1>1. TypeOK
  BY DEF HandlesSound
<1>2. PICK ss \in Pulled :
        /\ sets' = ss
        /\ scopes' = Append(scopes, [set |-> Len(ss), old |-> ss[Len(ss)].pos])
  BY DEF Open
<1>3. handles' = Append(handles, <<>>) /\ spilled' = spilled
  BY DEF Open
<1>4. ss # <<>> /\ Typed(ss, scopes, handles)
  BY <1>1, PulledFacts
<1>5. Typed(sets, scopes, handles)'
  BY <1>2, <1>3, <1>4, OpenTypes
<1>6. (Len(scopes) <= MaxScopes)'
  <2>1. Len(scopes) \in Nat /\ Len(scopes') = Len(scopes) + 1
    BY <1>1, <1>2 DEF TypeOK
  <2> QED
    BY <2>1, PlacesAssumption DEF Open
<1>7. TypeOK'
  BY <1>1, <1>3, <1>5, <1>6, TypesAreEnough DEF TypeOK
<1>8. ASSUME ~spilled' PROVE Sound(sets, scopes, handles)'
  <2>1. Sound(sets, scopes, handles)
    BY <1>3, <1>8 DEF HandlesSound
  <2>2. Sound(ss, scopes, handles)
    BY <1>1, <2>1, PulledSound
  <2> QED
    BY <1>2, <1>3, <1>4, <2>2, OpenSound
<1> QED
  BY <1>7, <1>8 DEF HandlesSound

LEMMA AddPreserves == HandlesSound /\ Add => HandlesSound'
<1> SUFFICES ASSUME HandlesSound, Add PROVE HandlesSound'
  OBVIOUS
<1>1. TypeOK /\ Typed(sets, scopes, handles) /\ scopes # <<>>
  BY TypedIsType DEF HandlesSound, Add
<1> DEFINE i == scopes[Len(scopes)].set
<1>2. i \in 1 .. Len(sets)
  <2>1. Len(scopes) \in 1 .. Len(scopes)
    BY <1>1 DEF Typed
  <2> QED
    BY <1>1, <2>1, Elements
<1>3. /\ sets' = [sets EXCEPT ![i].pos = @ + 1]
      /\ handles' = [handles EXCEPT ![Len(scopes)] = Append(@, sets[i].pos)]
      /\ UNCHANGED <<scopes, spilled>> /\ ~Full(sets[i])
  BY DEF Add, AddTo, Top
<1> HIDE DEF i
<1>4. Typed(sets, scopes, handles)'
  BY <1>1, <1>2, <1>3, AddTypes
<1>5. TypeOK'
  BY <1>1, <1>3, <1>4, TypesAreEnough DEF TypeOK
<1>6. ASSUME ~spilled' PROVE Sound(sets, scopes, handles)'
  <2>1. Sound(sets, scopes, handles)
    BY <1>3, <1>6 DEF HandlesSound
  <2> QED
    BY <1>1, <1>3, <2>1, AddSound DEF i
<1> QED
  BY <1>5, <1>6 DEF HandlesSound

LEMMA MoveTypes ==
  ASSUME NEW ss, NEW sc, NEW hs, Typed(ss, sc, hs), sc # <<>>, ss # <<>>
  PROVE  /\ Typed(ss, [sc EXCEPT ![Len(sc)].set = Len(ss)], hs)
         /\ Len([sc EXCEPT ![Len(sc)].set = Len(ss)]) = Len(sc)
         /\ [sc EXCEPT ![Len(sc)].set = Len(ss)] # <<>>
         /\ [sc EXCEPT ![Len(sc)].set = Len(ss)][Len(sc)].set = Len(ss)
         /\ Len(ss) \in 1 .. Len(ss)
<1> DEFINE f == [sc[Len(sc)] EXCEPT !.set = Len(ss)]
<1>1. /\ sc \in Seq(ScopeRec(Len(ss))) /\ Len(sc) \in 1 .. Len(sc)
      /\ sc[Len(sc)] \in ScopeRec(Len(ss)) /\ Len(ss) \in 1 .. Len(ss)
  BY Elements DEF Typed
<1>2. f \in ScopeRec(Len(ss)) /\ f.set = Len(ss)
  BY <1>1 DEF ScopeRec
<1>3. [sc EXCEPT ![Len(sc)].set = Len(ss)] = [sc EXCEPT ![Len(sc)] = f]
  OBVIOUS
<1> HIDE DEF f
<1> DEFINE sd == [sc EXCEPT ![Len(sc)] = f]
<1>4. sd \in Seq(ScopeRec(Len(ss))) /\ Len(sd) = Len(sc) /\ sd[Len(sc)] = f
  BY <1>1, <1>2
<1> HIDE DEF sd
<1>5. sd # <<>>
  BY <1>1, <1>4
<1>6. Typed(ss, sd, hs)
  BY <1>4 DEF Typed
<1> QED
  BY <1>1, <1>2, <1>3, <1>4, <1>5, <1>6 DEF sd

LEMMA AddToNextSetPreserves == HandlesSound /\ AddToNextSet => HandlesSound'
<1> SUFFICES ASSUME HandlesSound, AddToNextSet PROVE HandlesSound'
  OBVIOUS
<1>1. /\ TypeOK /\ Typed(sets, scopes, handles) /\ scopes # <<>>
      /\ Full(sets[Top.set]) /\ spilled' = spilled
  BY TypedIsType DEF HandlesSound, AddToNextSet
<1>2. PICK ss \in Pulled :
        /\ AddTo(ss, Len(ss))
        /\ scopes' = [scopes EXCEPT ![Len(scopes)].set = Len(ss)]
  BY DEF AddToNextSet
<1>3. /\ ss # <<>> /\ ~Full(ss[Len(ss)]) /\ Typed(ss, scopes, handles)
  BY <1>1, PulledFacts
<1>4. /\ Typed(ss, scopes', handles) /\ Len(scopes') = Len(scopes)
      /\ scopes' # <<>> /\ scopes'[Len(scopes')].set = Len(ss)
      /\ Len(ss) \in 1 .. Len(ss)
  BY <1>1, <1>2, <1>3, MoveTypes
<1>5. /\ sets' = [ss EXCEPT ![Len(ss)].pos = @ + 1]
      /\ handles' = [handles EXCEPT ![Len(scopes')] = Append(@, ss[Len(ss)].pos)]
  BY <1>2, <1>4 DEF AddTo
<1>6. Typed(sets, scopes, handles)'
  BY <1>4, <1>5, AddTypes
<1>7. TypeOK'
  BY <1>1, <1>4, <1>6, TypesAreEnough DEF TypeOK
<1>8. ASSUME ~spilled' PROVE Sound(sets, scopes, handles)'
  <2>1. Sound(sets, scopes, handles)
    BY <1>1, <1>8 DEF HandlesSound
  <2>2. Sound(ss, scopes, handles)
    BY <1>1, <2>1, PulledSound
  <2>3. Full(ss[scopes[Len(scopes)].set])
    <3>1. /\ Len(scopes) \in 1 .. Len(scopes)
          /\ scopes[Len(scopes)].set \in 1 .. Len(sets)
      <4>1. Len(scopes) \in 1 .. Len(scopes)
        BY <1>1 DEF Typed
      <4> QED
        BY <1>1, <4>1, Elements
    <3>2. \A j \in 1 .. Len(sets) : ss[j] = sets[j]
      <4>1. sets \in Seq(SetRec)
        BY <1>1 DEF Typed
      <4>2. CASE ss = sets
        BY <4>2
      <4>3. ASSUME NEW p \in Places, ss = Append(sets, [oops |-> p, pos |-> p])
            PROVE  \A j \in 1 .. Len(sets) : ss[j] = sets[j]
        <5>1. [oops |-> p, pos |-> p] \in SetRec
          BY PlacesAssumption DEF SetRec
        <5> QED
          BY <4>1, <4>3, <5>1
      <4> QED
        BY <1>1, <4>2, <4>3, PulledFacts
    <3> QED
      BY <1>1, <3>1, <3>2 DEF Top
  <2>4. Sound(ss, scopes', handles)
    BY <1>1, <1>2, <1>3, <2>2, <2>3, MoveSound
  <2> QED
    BY <1>3, <1>4, <1>5, <2>4, AddSound
<1> QED
  BY <1>7, <1>8 DEF HandlesSound

LEMMA ClosePreserves == HandlesSound /\ Close => HandlesSound'
<1> SUFFICES ASSUME HandlesSound, Close PROVE HandlesSound'
  OBVIOUS
<1> DEFINE f == scopes[Len(scopes)]
           tt == [sets EXCEPT ![f.set].pos = f.old]
<1>1. /\ TypeOK /\ Typed(sets, scopes, handles) /\ scopes # <<>>
      /\ sets' = tt /\ scopes' = AllButTop(scopes) /\ handles' = AllButTop(handles)
  BY TypedIsType DEF HandlesSound, Close, Top
<1>2. /\ Len(scopes) \in 1 .. Len(scopes) /\ Len(handles) = Len(scopes)
      /\ Len(scopes) \in Nat \ {0}
  BY <1>1 DEF Typed
<1>3. /\ f.set \in 1 .. Len(sets) /\ f.old \in Nat
      /\ sets[f.set] \in SetRec
  BY <1>1, <1>2, Elements
<1>4. /\ sets \in Seq(SetRec) /\ scopes \in Seq(ScopeRec(Len(sets)))
      /\ handles \in Seq(Seq(Nat))
  BY <1>1 DEF Typed
<1>5. sets' \in Seq(SetRec) /\ Len(sets') = Len(sets)
  <2> DEFINE r == [sets[f.set] EXCEPT !.pos = f.old]
  <2>1. r \in SetRec
    BY <1>3 DEF SetRec
  <2>2. sets' = [sets EXCEPT ![f.set] = r]
    BY <1>1
  <2> HIDE DEF r, f
  <2> QED
    BY <2>1, <2>2, <1>3, <1>4
<1>6. /\ scopes' \in Seq(ScopeRec(Len(sets))) /\ Len(scopes') = Len(scopes) - 1
      /\ handles' \in Seq(Seq(Nat)) /\ Len(handles') = Len(scopes) - 1
  BY <1>1, <1>2, <1>4 DEF AllButTop
<1>7. Typed(sets, scopes, handles)'
  BY <1>5, <1>6 DEF Typed
<1>8. spilled' \in BOOLEAN /\ (~spilled' => ~spilled)
  BY <1>1 DEF Close, TypeOK
<1>9. (Len(scopes) <= MaxScopes)'
  BY <1>1, <1>2, <1>6, PlacesAssumption DEF TypeOK
<1>10. TypeOK'
  BY <1>7, <1>8, <1>9, TypesAreEnough
<1>11. ASSUME ~spilled' PROVE Sound(sets, scopes, handles)'
  <2>1. Sound(sets, scopes, handles)
    BY <1>8, <1>11 DEF HandlesSound
  <2>2. f.old \in sets[f.set].oops .. sets[f.set].oops + SetSize
    BY <1>11 DEF Close, Top
  <2>3. AtHome(sets, f)
    <3>1. sets[f.set].oops \in Nat /\ SetSize \in Nat
      BY <1>1, <1>3, Elements
    <3> HIDE DEF f
    <3> QED
      BY <1>3, <2>2, <3>1 DEF AtHome, InArray, Limit
  <2>4. Sound(tt, AllButTop(scopes), AllButTop(handles))
    BY <1>1, <2>1, <2>3, CloseSound
  <2> QED
    BY <1>1, <2>4
<1> QED
  BY <1>10, <1>11 DEF HandlesSound

LEMMA InitHandles == Init => HandlesSound
<1> SUFFICES ASSUME Init PROVE HandlesSound
  OBVIOUS
<1>1. TypeOK
  <2>1. sets = <<>> /\ scopes = <<>> /\ handles = <<>> /\ spilled = FALSE
    BY DEF Init
  <2>2. Len(scopes) <= MaxScopes /\ Len(handles) = Len(scopes)
    BY <2>1, PlacesAssumption
  <2>3. /\ sets \in Seq([oops : Places, pos : Nat])
        /\ scopes \in Seq([set : 1 .. Len(sets), old : Nat])
        /\ handles \in Seq(Seq(Nat))
    BY <2>1
  <2> QED
    BY <2>1, <2>2, <2>3 DEF TypeOK
<1>2. SetsOK(sets) /\ ScopesOK(sets, scopes) /\ Nested(sets, scopes, handles)
  BY DEF Init, SetsOK, ScopesOK, Nested
<1>3. Scanned(sets) = Live(handles) /\ Distinct(handles)
  BY DEF Init, Scanned, Live, Distinct
<1> QED
  BY <1>1, <1>2, <1>3 DEF HandlesSound, Sound

\* The inductive invariant holds in every reachable state.
THEOREM ScopesAreNested == Spec => []HandlesSound
<1>1. HandlesSound /\ [Next]_vars => HandlesSound'
  <2>1. HandlesSound /\ UNCHANGED vars => HandlesSound'
    BY DEF vars, HandlesSound, TypeOK
  <2> QED
    BY <2>1, OpenPreserves, AddPreserves, AddToNextSetPreserves, ClosePreserves
    DEF Next
<1> QED
  BY <1>1, InitHandles, PTL DEF Spec

\* The collector scans the handles of the open scopes and nothing else, until
\* a scope is closed that had outgrown its array.
THEOREM HandlesAreTheRoots == Spec => []HandlesAreRoots
<1>1. HandlesSound => HandlesAreRoots
  BY DEF HandlesSound, Sound, HandlesAreRoots
<1> QED
  BY <1>1, ScopesAreNested, PTL

-----------------------------------------------------------------------------
(* What can be come to is the smallest set that holds the start and that   *)
(* the fields do not lead out of.                                          *)

LEMMA ReachIsSmallest ==
  ASSUME NEW first \in SUBSET Objects, NEW followed,
         \A o \in Objects : Held(o, followed[kind[o]]) \subseteq Objects
  PROVE  /\ first \subseteq Reach(first, followed)
         /\ Reach(first, followed) \subseteq Objects
         /\ Closed(Reach(first, followed), followed)
         /\ \A S \in SUBSET Objects :
              first \subseteq S /\ Closed(S, followed) => Reach(first, followed) \subseteq S
<1> DEFINE R == Reach(first, followed)
<1>1. first \subseteq R /\ R \subseteq Objects
  BY DEF Reach
<1>2. \A o \in R : o \in first \/
        \A more \in SUBSET (Objects \ (first \cup {o})) : ~Closed(first \cup more, followed)
  BY DEF Reach
<1>3. \A o \in Objects :
        (\A more \in SUBSET (Objects \ (first \cup {o})) : ~Closed(first \cup more, followed)) => o \in R
  BY <1>1 DEF Reach
<1> HIDE DEF R
<1>4. Closed(R, followed)
  <2> SUFFICES ASSUME NEW o \in R, NEW v \in Held(o, followed[kind[o]]) PROVE v \in R
    BY DEF Closed
  <2>1. v \in Objects
    BY <1>1
  <2> SUFFICES ASSUME v \notin first, NEW more \in SUBSET (Objects \ (first \cup {v})),
                      Closed(first \cup more, followed)
               PROVE  FALSE
    BY <1>1, <1>3, <2>1
  <2>2. o \notin first \cup more
    BY DEF Closed
  <2>3. more \in SUBSET (Objects \ (first \cup {o}))
    BY <2>2
  <2> QED
    BY <1>2, <2>2, <2>3
<1>5. ASSUME NEW S \in SUBSET Objects, first \subseteq S, Closed(S, followed), NEW o \in R
      PROVE  o \in S
  <2> SUFFICES ASSUME o \notin S PROVE FALSE
    OBVIOUS
  <2> DEFINE more == S \ first
  <2>1. more \in SUBSET (Objects \ (first \cup {o})) /\ first \cup more = S
    BY <1>5
  <2>2. o \notin first
    BY <1>5
  <2> HIDE DEF more
  <2> QED
    BY <1>2, <1>5, <2>1, <2>2
<1> QED
  BY <1>1, <1>4, <1>5 DEF R

-----------------------------------------------------------------------------
(* Types.                                                                  *)

TraceTypeOK ==
  /\ kind \in [Objects -> DOMAIN Followed]
  /\ DOMAIN refs = Objects
  /\ \A o \in Objects : refs[o] \in [Fields(kind[o]) -> Objects \cup {Null}]
  /\ flags \in [Objects -> 0 .. 2]
  /\ roots \in [RootPlaces -> Objects \cup {Null}]
  /\ frames \in Seq([method : Objects, closure : Objects])
  /\ mode \in {"run", "mark", "aborted"} /\ mark_ \in {1, 2} /\ revived \in BOOLEAN
  /\ lines \subseteq Objects /\ mark_stack \subseteq lines

\* An object holds objects.
LEMMA HeldAreObjects ==
  ASSUME TraceTypeOK, NEW o \in Objects
  PROVE  /\ Held(o, Followed[kind[o]]) \subseteq Objects
         /\ Held(o, Fields(kind[o])) \subseteq Objects
<1>1. refs[o] \in [Fields(kind[o]) -> Objects \cup {Null}]
  BY DEF TraceTypeOK
<1>2. Followed[kind[o]] \subseteq Fields(kind[o])
  BY DEF Fields
<1> QED
  BY <1>1, <1>2 DEF Held

LEMMA PlacesHoldObjects ==
  ASSUME TraceTypeOK
  PROVE  InPlaces \subseteq Objects /\ InFrames \subseteq Objects /\ RootsScanned \subseteq Objects
<1>1. InPlaces \subseteq Objects
  BY DEF TraceTypeOK, InPlaces
<1>2. \A i \in DOMAIN frames : frames[i].method \in Objects /\ frames[i].closure \in Objects
  <2> DEFINE F == [method : Objects, closure : Objects]
  <2>2. frames \in Seq(F)
    BY DEF TraceTypeOK
  <2> HIDE DEF F
  <2>3. \A i \in DOMAIN frames : frames[i] \in F
    BY <2>2, LenProperties, ElementOfSeq
  <2>1. \A i \in DOMAIN frames : frames[i] \in [method : Objects, closure : Objects]
    BY <2>3 DEF F
  <2> QED
    BY <2>1
<1>3. InFrames \subseteq Objects
  BY <1>2 DEF InFrames
<1> QED
  BY <1>1, <1>3 DEF RootsScanned, InLastFrames

\* What the collector can come to.
LEMMA SeenFacts ==
  ASSUME TraceTypeOK
  PROVE  /\ RootsScanned \subseteq Seen /\ Seen \subseteq Objects /\ Closed(Seen, Followed)
         /\ \A S \in SUBSET Objects : RootsScanned \subseteq S /\ Closed(S, Followed) => Seen \subseteq S
<1>1. RootsScanned \in SUBSET Objects
  BY PlacesHoldObjects
<1>2. \A o \in Objects : Held(o, Followed[kind[o]]) \subseteq Objects
  BY HeldAreObjects
<1> QED
  BY <1>1, <1>2, ReachIsSmallest DEF Seen

LEMMA ReachableAreObjects ==
  ASSUME TraceTypeOK
  PROVE  Reachable \subseteq Objects
<1> DEFINE all == [k \in DOMAIN Followed |-> Fields(k)]
<1>1. InPlaces \cup InFrames \in SUBSET Objects
  BY PlacesHoldObjects
<1>2. \A o \in Objects : Held(o, all[kind[o]]) \subseteq Objects
  BY HeldAreObjects DEF TraceTypeOK
<1> HIDE DEF all
<1>3. Reach(InPlaces \cup InFrames, all) \subseteq Objects
  BY <1>1, <1>2, ReachIsSmallest
<1> QED
  BY <1>3 DEF Reachable, all

LEMMA InitTyped == TraceInit => TraceTypeOK
<1> SUFFICES ASSUME TraceInit PROVE TraceTypeOK
  OBVIOUS
<1>1. PICK m \in Objects, code \in Objects, closure \in Objects :
        /\ kind = [o \in Objects |-> IF o = m THEN "Method" ELSE IF o = code THEN "Code"
                                     ELSE IF o = closure THEN "Closure" ELSE "Raw"]
        /\ refs = [o \in Objects |-> [f \in Fields(kind[o]) |-> IF o = m /\ f = "code" THEN code ELSE Null]]
        /\ frames = <<[method |-> m, closure |-> closure]>>
        /\ lines = {m, code, closure}
        /\ roots = [p \in RootPlaces |-> Null]
        /\ flags = [o \in Objects |-> 0]
        /\ mode = "run" /\ mark_ = 1 /\ mark_stack = {} /\ revived = FALSE
  BY DEF TraceInit
<1>2. kind \in [Objects -> DOMAIN Followed]
  BY <1>1 DEF Followed
<1>3. DOMAIN refs = Objects /\ \A o \in Objects : refs[o] \in [Fields(kind[o]) -> Objects \cup {Null}]
  BY <1>1
<1>4. frames \in Seq([method : Objects, closure : Objects])
  BY <1>1
<1>5. flags \in [Objects -> 0 .. 2] /\ roots \in [RootPlaces -> Objects \cup {Null}]
  BY <1>1
<1> QED
  BY <1>1, <1>2, <1>3, <1>4, <1>5 DEF TraceTypeOK

\* An allocation takes memory for an object whose fields hold objects.
LEMMA AllocatedTyped ==
  ASSUME TraceTypeOK, NEW o \in Objects, NEW k \in DOMAIN Followed,
         NEW fields \in [Fields(k) -> Objects \cup {Null}], Allocated(o, k, fields),
         roots' \in [RootPlaces -> Objects \cup {Null}],
         frames' \in Seq([method : Objects, closure : Objects])
  PROVE  TraceTypeOK'
<1>1. /\ kind' = [kind EXCEPT ![o] = k] /\ refs' = [refs EXCEPT ![o] = fields]
      /\ flags' = [flags EXCEPT ![o] = 0] /\ lines' = lines \cup {o}
      /\ UNCHANGED <<mode, mark_, mark_stack, revived>>
  BY DEF Allocated
<1>2. kind' \in [Objects -> DOMAIN Followed] /\ flags' \in [Objects -> 0 .. 2] /\ DOMAIN refs' = Objects
  BY <1>1 DEF TraceTypeOK
<1>3. ASSUME NEW p \in Objects PROVE refs'[p] \in [Fields(kind'[p]) -> Objects \cup {Null}]
  <2>1. CASE p = o
    BY <1>1, <2>1 DEF TraceTypeOK
  <2>2. CASE p # o
    <3>1. refs'[p] = refs[p] /\ kind'[p] = kind[p]
      BY <1>1, <2>2 DEF TraceTypeOK
    <3> QED
      BY <3>1 DEF TraceTypeOK
  <2> QED
    BY <2>1, <2>2
<1> QED
  BY <1>1, <1>2, <1>3 DEF TraceTypeOK

LEMMA ProgramTyped ==
  ASSUME TraceTypeOK, Program
  PROVE  TraceTypeOK'
<1>1. PICK known \in {Reachable} : \E values \in {{v \in known : kind[v] \in Values} \cup {Null}} :
        \/ \E o \in Objects, k \in Kinds, p \in RootPlaces : NewObject(o, k, p, known)
        \/ \E o \in known, v \in values : \E f \in Settable \cap Fields(kind[o]) : Store(o, f, v)
        \/ \E p \in RootPlaces, v \in values : Load(p, v)
        \/ \E m \in known, o \in Objects : Run(m, o, known)
        \/ Leave
  BY DEF Program
<1>2. known \subseteq Objects
  BY ReachableAreObjects
<1>3. ASSUME NEW o \in Objects, NEW k \in Kinds, NEW p \in RootPlaces, NewObject(o, k, p, known) PROVE TraceTypeOK'
  <2>1. k \in DOMAIN Followed
    BY KindsAssumption
  <2>2. PICK fields \in GivenFields(k, known) : Allocated(o, k, fields)
    BY <1>3 DEF NewObject
  <2>3. fields \in [Fields(k) -> Objects \cup {Null}]
    <3>1. fields \in [Fields(k) -> known \cup {Null}]
      BY DEF GivenFields
    <3> QED
      BY <1>2, <3>1
  <2>4. roots' \in [RootPlaces -> Objects \cup {Null}] /\ frames' \in Seq([method : Objects, closure : Objects])
    BY <1>3 DEF NewObject, TraceTypeOK
  <2> QED
    BY <2>1, <2>2, <2>3, <2>4, AllocatedTyped
<1>4. ASSUME NEW o \in known, NEW v \in known \cup {Null}, NEW f \in Fields(kind[o]), Store(o, f, v) PROVE TraceTypeOK'
  <2>1. /\ refs' = [refs EXCEPT ![o][f] = v]
        /\ UNCHANGED <<kind, roots, frames, mode, marks, revived>>
    BY <1>4 DEF Store
  <2>2. DOMAIN refs' = Objects
    BY <2>1 DEF TraceTypeOK
  <2>3. ASSUME NEW p \in Objects PROVE refs'[p] \in [Fields(kind[p]) -> Objects \cup {Null}]
    <3>1. refs'[p] = IF p = o THEN [refs[o] EXCEPT ![f] = v] ELSE refs[p]
      BY <2>1 DEF TraceTypeOK
    <3>2. refs[o] \in [Fields(kind[o]) -> Objects \cup {Null}] /\ refs[p] \in [Fields(kind[p]) -> Objects \cup {Null}]
      BY <1>2 DEF TraceTypeOK
    <3>3. v \in Objects \cup {Null}
      BY <1>2
    <3> QED
      BY <3>1, <3>2, <3>3
  <2> QED
    BY <2>1, <2>2, <2>3 DEF TraceTypeOK, marks
<1>5. ASSUME NEW p \in RootPlaces, NEW v \in known \cup {Null}, Load(p, v) PROVE TraceTypeOK'
  <2>1. roots' = [roots EXCEPT ![p] = v] /\ UNCHANGED <<heap, frames, mode, marks, revived>>
    BY <1>5 DEF Load
  <2>2. roots' \in [RootPlaces -> Objects \cup {Null}]
    BY <1>2, <2>1 DEF TraceTypeOK
  <2> QED
    BY <2>1, <2>2 DEF TraceTypeOK, heap, marks
<1>6. ASSUME NEW m \in known, NEW o \in Objects, Run(m, o, known) PROVE TraceTypeOK'
  <2> DEFINE fields == [parent |-> refs[m]["closure"], values |-> Null]
             frame == [method |-> m, closure |-> o]
  <2>1. /\ kind[m] = "Method" /\ Allocated(o, "Closure", fields)
        /\ frames' = Append(frames, frame) /\ UNCHANGED roots
    BY <1>6 DEF Run
  <2>2. "closure" \in Fields("Method") /\ Fields("Closure") = {"parent", "values"} /\ "Closure" \in DOMAIN Followed
    BY DEF Fields, Followed, Passed
  <2>3. refs[m]["closure"] \in Objects \cup {Null}
    BY <1>2, <2>1, <2>2 DEF TraceTypeOK
  <2>4. fields \in [{"parent", "values"} -> Objects \cup {Null}]
    BY <2>3
  <2>5. frame \in [method : Objects, closure : Objects]
    BY <1>2
  <2> HIDE DEF fields, frame
  <2>6. frames' \in Seq([method : Objects, closure : Objects])
    BY <2>1, <2>5 DEF TraceTypeOK
  <2>7. roots' \in [RootPlaces -> Objects \cup {Null}]
    BY <2>1 DEF TraceTypeOK
  <2> QED
    BY <2>1, <2>2, <2>4, <2>6, <2>7, AllocatedTyped
<1>7. CASE Leave
  <2> DEFINE F == [method : Objects, closure : Objects]
  <2>1. Len(frames) > 1 /\ frames' = SubSeq(frames, 1, Len(frames) - 1) /\ UNCHANGED <<heap, roots, mode, marks, revived>>
    BY <1>7 DEF Leave
  <2>2. frames \in Seq(F)
    BY DEF TraceTypeOK
  <2> HIDE DEF F
  <2>3. Len(frames) \in Nat /\ Len(frames) - 1 \in Int /\ 1 \in Int
    BY <2>2, LenProperties
  <2>4. \A i \in 1 .. Len(frames) - 1 : frames[i] \in F
    BY <2>2, <2>3, ElementOfSeq
  <2>5. frames' \in Seq(F)
    BY <2>1, <2>3, <2>4, SubSeqProperties
  <2> QED
    BY <2>1, <2>5 DEF TraceTypeOK, heap, marks, F
<1>8. PICK values \in {{v \in known : kind[v] \in Values} \cup {Null}} :
        \/ \E o \in Objects, k \in Kinds, p \in RootPlaces : NewObject(o, k, p, known)
        \/ \E o \in known, v \in values : \E f \in Settable \cap Fields(kind[o]) : Store(o, f, v)
        \/ \E p \in RootPlaces, v \in values : Load(p, v)
        \/ \E m \in known, o \in Objects : Run(m, o, known)
        \/ Leave
  BY <1>1
<1>9. \A v \in values : v \in known \cup {Null}
  OBVIOUS
<1> HIDE DEF Reachable
<1> QED
  BY <1>3, <1>4, <1>5, <1>6, <1>7, <1>8, <1>9

\* What is met is marked: it is in the lines, and was marked before or is pushed.
LEMMA MarkedFacts ==
  ASSUME TraceTypeOK, NEW found \in SUBSET Objects, NEW before \in SUBSET Objects, NEW stack \in SUBSET before,
         MarkObjects(found, before, stack)
  PROVE  /\ lines' \in SUBSET Objects /\ lines' = before \cup found
         /\ flags' \in [Objects -> 0 .. 2]
         /\ mark_stack' = stack \cup Pushed(found) /\ mark_stack' \subseteq lines'
         /\ \A o \in Objects : flags'[o] = IF o \in found THEN mark_ ELSE flags[o]
         /\ Pushed(found) = {o \in found : flags[o] # mark_}
<1>1. Pushed(found) = {o \in found : flags[o] # mark_}
  BY DEF Pushed
<1>2. flags' = [o \in Objects |-> IF o \in Pushed(found) THEN mark_ ELSE flags[o]]
  BY DEF MarkObjects
<1>3. flags' \in [Objects -> 0 .. 2]
  BY <1>2 DEF TraceTypeOK
<1>4. \A o \in Objects : flags'[o] = IF o \in found THEN mark_ ELSE flags[o]
  BY <1>1, <1>2
<1> QED
  BY <1>1, <1>3, <1>4 DEF MarkObjects

LEMMA CollectTyped == ASSUME TraceTypeOK, Collect PROVE TraceTypeOK'
<1>1. RootsScanned \in SUBSET Objects /\ {} \in SUBSET Objects
  BY PlacesHoldObjects
<1>2. MarkObjects(RootsScanned, {}, {}) /\ mode' = "mark" /\ UNCHANGED <<heap, roots, frames, mark_>> /\ revived' \in BOOLEAN
  BY DEF Collect, TraceTypeOK
<1>3. lines' \in SUBSET Objects /\ flags' \in [Objects -> 0 .. 2] /\ mark_stack' \subseteq lines'
  BY <1>1, <1>2, MarkedFacts
<1> QED
  BY <1>2, <1>3 DEF TraceTypeOK, heap

LEMMA WalkTyped == ASSUME TraceTypeOK, NEW o \in mark_stack, Walk(o) PROVE TraceTypeOK'
<1>1. /\ o \in Objects /\ Held(o, Followed[kind[o]]) \in SUBSET Objects
      /\ lines \in SUBSET Objects /\ mark_stack \ {o} \in SUBSET lines
  BY HeldAreObjects DEF TraceTypeOK
<1>2. /\ MarkObjects(Held(o, Followed[kind[o]]), lines, mark_stack \ {o})
      /\ UNCHANGED <<heap, roots, frames, mode, mark_, revived>>
  BY DEF Walk
<1>3. lines' \in SUBSET Objects /\ flags' \in [Objects -> 0 .. 2] /\ mark_stack' \subseteq lines'
  BY <1>1, <1>2, MarkedFacts
<1> QED
  BY <1>2, <1>3 DEF TraceTypeOK, heap

LEMMA SweepTyped == ASSUME TraceTypeOK, Sweep PROVE TraceTypeOK'
<1> DEFINE gone == Objects \ (lines \cup Reachable)
<1>1. /\ mark_stack = {} /\ mode' = "run" /\ mark_' = NextMark
      /\ kind' = [o \in Objects |-> IF o \in gone THEN "Raw" ELSE kind[o]]
      /\ refs' = [o \in Objects |-> IF o \in gone THEN Blank ELSE refs[o]]
      /\ flags' = [o \in Objects |-> IF o \in gone THEN 0 ELSE flags[o]]
      /\ UNCHANGED <<roots, frames, mark_stack, lines, revived>>
  BY DEF Sweep
<1> HIDE DEF gone
<1>2. Fields("Raw") = {} /\ "Raw" \in DOMAIN Followed
  BY DEF Fields, Followed, Passed
<1>3. kind' \in [Objects -> DOMAIN Followed] /\ flags' \in [Objects -> 0 .. 2]
  BY <1>1, <1>2 DEF TraceTypeOK
<1>4. ASSUME NEW o \in Objects PROVE refs'[o] \in [Fields(kind'[o]) -> Objects \cup {Null}]
  <2>1. CASE o \in gone
    BY <1>1, <1>2, <2>1 DEF Blank
  <2>2. CASE o \notin gone
    BY <1>1, <2>2 DEF TraceTypeOK
  <2> QED
    BY <2>1, <2>2
<1>5. DOMAIN refs' = Objects /\ mark_' \in {1, 2}
  BY <1>1 DEF NextMark
<1> QED
  BY <1>1, <1>3, <1>4, <1>5 DEF TraceTypeOK

-----------------------------------------------------------------------------
(* Marks.                                                                  *)

\* Between collections nothing whose lines are in use has the mark the next one
\* gives.  During one everything in a line that was taken has it; the lines are
\* reached; and, as long as no object came back from a collection that missed it,
\* what is reached and has the mark has its lines, and what was walked led to
\* nothing that has not.
Marks ==
  /\ mode = "run" => mark_stack = {} /\ \A o \in lines : flags[o] # mark_
  /\ mode = "mark" =>
       /\ \A o \in lines : flags[o] = mark_
       /\ RootsScanned \subseteq lines /\ lines \subseteq Seen
       /\ ~revived =>
            /\ \A o \in Seen : flags[o] = mark_ => o \in lines
            /\ \A o \in lines \ mark_stack : Held(o, Followed[kind[o]]) \subseteq lines

Inv == TraceTypeOK /\ Marks

LEMMA InitMarks == TraceInit => Marks
BY DEF TraceInit, Marks

\* The program allocates objects without a mark.
LEMMA ProgramMarks ==
  ASSUME Inv, Program
  PROVE  Marks'
<1>1. mode = "run" /\ mode' = "run" /\ UNCHANGED <<mark_, mark_stack>>
  BY DEF Program, NewObject, Store, Load, Run, Leave, Allocated, marks
<1>2. ASSUME NEW o \in Objects, NEW k, NEW fields, Allocated(o, k, fields)
      PROVE  \A p \in lines' : flags'[p] # mark_
  <2>1. lines' = lines \cup {o} /\ flags' = [flags EXCEPT ![o] = 0]
    BY <1>2 DEF Allocated
  <2>2. flags \in [Objects -> 0 .. 2] /\ mark_ \in {1, 2} /\ \A p \in lines : p \in Objects /\ flags[p] # mark_
    BY <1>1 DEF Inv, TraceTypeOK, Marks
  <2>3. flags'[o] = 0 /\ \A p \in lines : p # o => flags'[p] = flags[p]
    BY <2>1, <2>2
  <2> QED
    BY <2>1, <2>2, <2>3
<1>3. CASE UNCHANGED <<lines, flags>>
  BY <1>1, <1>3 DEF Inv, Marks
<1>4. CASE \E o \in Objects : \E k, fields : Allocated(o, k, fields)
  BY <1>1, <1>2, <1>4 DEF Inv, Marks
<1>5. UNCHANGED <<lines, flags>> \/ \E o \in Objects : \E k, fields : Allocated(o, k, fields)
  BY DEF Program, NewObject, Store, Load, Run, Leave, marks
<1> QED
  BY <1>3, <1>4, <1>5

\* What the collector can come to stays as it is while it works.
LEMMA SeenStays ==
  ASSUME UNCHANGED <<heap, roots, frames>>
  PROVE  UNCHANGED <<RootsScanned, Seen>>
<1>1. UNCHANGED RootsScanned
  BY DEF RootsScanned, InPlaces, InLastFrames, InFrames
<1>2. \A S : Closed(S, Followed)' <=> Closed(S, Followed)
  BY DEF heap, Closed, Held
<1> QED
  BY <1>1, <1>2 DEF Seen, Reach

LEMMA CollectMarks ==
  ASSUME Inv, Collect
  PROVE  Marks'
<1>1. /\ mode = "run" /\ mode' = "mark" /\ UNCHANGED <<heap, roots, frames, mark_>>
      /\ MarkObjects(RootsScanned, {}, {})
      /\ revived' = (revived \/ ~(Seen \subseteq lines))
  BY DEF Collect
<1>2. UNCHANGED <<RootsScanned, Seen>>
  BY <1>1, SeenStays
<1>3. RootsScanned \subseteq Seen /\ Seen \subseteq Objects /\ RootsScanned \in SUBSET Objects /\ {} \in SUBSET Objects
  BY SeenFacts, PlacesHoldObjects DEF Inv
<1>4. /\ lines' = RootsScanned /\ \A o \in Objects : flags'[o] = IF o \in RootsScanned THEN mark_ ELSE flags[o]
      /\ mark_stack' = {o \in RootsScanned : flags[o] # mark_}
  <2> HIDE DEF RootsScanned
  <2>1. /\ lines' = {} \cup RootsScanned /\ mark_stack' = {} \cup Pushed(RootsScanned)
        /\ \A o \in Objects : flags'[o] = IF o \in RootsScanned THEN mark_ ELSE flags[o]
    BY <1>1, <1>3, MarkedFacts DEF Inv
  <2> QED
    BY <2>1 DEF Pushed
<1>5. \A o \in lines : flags[o] # mark_
  BY <1>1 DEF Inv, Marks
<1>6. \A o \in lines' : flags'[o] = mark_
  BY <1>3, <1>4
<1>7. ASSUME ~revived'
      PROVE  /\ \A o \in Seen : flags'[o] = mark_ => o \in lines'
             /\ lines' \subseteq mark_stack'
  <2>1. \A o \in Seen : flags[o] # mark_
    BY <1>1, <1>5, <1>7
  <2> QED
    BY <1>3, <1>4, <2>1
<1> QED
  BY <1>1, <1>2, <1>3, <1>4, <1>6, <1>7 DEF Marks

LEMMA WalkMarks ==
  ASSUME Inv, NEW o \in mark_stack, Walk(o)
  PROVE  Marks'
<1> DEFINE found == Held(o, Followed[kind[o]])
<1>1. /\ mode = "mark" /\ UNCHANGED <<heap, roots, frames, mode, mark_, revived>>
      /\ MarkObjects(found, lines, mark_stack \ {o})
  BY DEF Walk
<1>2. UNCHANGED <<RootsScanned, Seen>> /\ \A p : Held(p, Followed[kind[p]])' = Held(p, Followed[kind[p]])
  BY <1>1, SeenStays DEF heap, Held
<1>3. /\ o \in Objects /\ o \in lines /\ lines \in SUBSET Objects /\ mark_stack \ {o} \in SUBSET lines
      /\ found \in SUBSET Objects
  BY HeldAreObjects DEF Inv, TraceTypeOK
<1>4. Seen \subseteq Objects /\ Closed(Seen, Followed)
  BY SeenFacts DEF Inv
<1>5. /\ \A p \in lines : flags[p] = mark_
      /\ RootsScanned \subseteq lines /\ lines \subseteq Seen
      /\ ~revived =>
           /\ \A p \in Seen : flags[p] = mark_ => p \in lines
           /\ \A p \in lines \ mark_stack : Held(p, Followed[kind[p]]) \subseteq lines
  BY <1>1 DEF Inv, Marks
<1>6. found \subseteq Seen
  BY <1>3, <1>4, <1>5 DEF Closed
<1> HIDE DEF found
<1>7. /\ lines' = lines \cup found
      /\ \A p \in Objects : flags'[p] = IF p \in found THEN mark_ ELSE flags[p]
      /\ mark_stack' = (mark_stack \ {o}) \cup {p \in found : flags[p] # mark_}
  <2> DEFINE rest == mark_stack \ {o}
  <2>a. TraceTypeOK /\ rest \in SUBSET lines /\ MarkObjects(found, lines, rest)
    BY <1>1, <1>3 DEF Inv
  <2> HIDE DEF rest
  <2>b. /\ lines' = lines \cup found /\ mark_stack' = rest \cup Pushed(found)
        /\ \A p \in Objects : flags'[p] = IF p \in found THEN mark_ ELSE flags[p]
    BY <1>3, <2>a, MarkedFacts
  <2>1. /\ lines' = lines \cup found /\ mark_stack' = (mark_stack \ {o}) \cup Pushed(found)
        /\ \A p \in Objects : flags'[p] = IF p \in found THEN mark_ ELSE flags[p]
    BY <2>b DEF rest
  <2> QED
    BY <2>1 DEF Pushed
<1>8. \A p \in lines' : flags'[p] = mark_
  BY <1>3, <1>5, <1>7
<1>9. ASSUME ~revived, NEW p \in Seen, flags'[p] = mark_ PROVE p \in lines'
  BY <1>4, <1>5, <1>7, <1>9
<1>10. ASSUME ~revived, NEW p \in lines' \ mark_stack' PROVE Held(p, Followed[kind[p]]) \subseteq lines'
  <2>1. CASE p = o
    BY <1>7, <2>1 DEF found
  <2>2. CASE p # o
    <3>1. p \in lines
      BY <1>5, <1>6, <1>7, <1>10, <2>2
    <3>2. p \notin mark_stack
      BY <1>7, <1>10, <2>2
    <3> QED
      BY <1>5, <1>7, <1>10, <3>1, <3>2
  <2> QED
    BY <2>1, <2>2
<1> QED
  BY <1>1, <1>2, <1>5, <1>6, <1>7, <1>8, <1>9, <1>10 DEF Marks

LEMMA SweepMarks ==
  ASSUME Inv, Sweep
  PROVE  Marks'
<1> DEFINE gone == Objects \ (lines \cup Reachable)
<1>1. /\ mode = "mark" /\ mark_stack = {} /\ mode' = "run" /\ mark_' = NextMark
      /\ flags' = [o \in Objects |-> IF o \in gone THEN 0 ELSE flags[o]]
      /\ UNCHANGED <<mark_stack, lines>>
  BY DEF Sweep
<1>2. \A o \in lines : o \in Objects /\ flags[o] = mark_
  BY <1>1 DEF Inv, TraceTypeOK, Marks
<1>3. mark_' # mark_ /\ \A o \in lines : flags'[o] = flags[o]
  BY <1>1, <1>2 DEF NextMark, Inv, TraceTypeOK
<1> QED
  BY <1>1, <1>2, <1>3 DEF Marks

LEMMA StepKeepsInv == Inv /\ [TraceNext]_traceVars => Inv'
<1> SUFFICES ASSUME Inv, [TraceNext]_traceVars PROVE Inv'
  OBVIOUS
<1>0. TraceTypeOK
  BY DEF Inv
<1>1. CASE Program
  BY <1>0, <1>1, ProgramTyped, ProgramMarks DEF Inv
<1>2. CASE Collect
  BY <1>0, <1>2, CollectTyped, CollectMarks DEF Inv
<1>3. ASSUME NEW o \in mark_stack, Walk(o) PROVE Inv'
  BY <1>0, <1>3, WalkTyped, WalkMarks DEF Inv
<1>4. ASSUME NEW o \in mark_stack, WalkCode(o) PROVE Inv'
  BY <1>0, <1>4 DEF WalkCode, Inv, TraceTypeOK, Marks, heap, marks
<1>5. CASE Sweep
  BY <1>0, <1>5, SweepTyped, SweepMarks DEF Inv
<1>6. CASE UNCHANGED traceVars
  <2>1. UNCHANGED <<RootsScanned, Seen>> /\ \A p : Held(p, Followed[kind[p]])' = Held(p, Followed[kind[p]])
    BY <1>6, SeenStays DEF traceVars, heap, Held
  <2> QED
    BY <1>0, <1>6, <2>1 DEF Inv, TraceTypeOK, Marks, traceVars, heap, marks
<1> QED
  BY <1>1, <1>2, <1>3, <1>4, <1>5, <1>6 DEF TraceNext, Collection

LEMMA InvHolds == TraceSpec => []Inv
<1>1. TraceInit => Inv
  BY InitTyped, InitMarks DEF Inv
<1> QED
  BY <1>1, StepKeepsInv, PTL DEF TraceSpec

\* A collection that comes to its end has kept what can be come to from the places
\* it scans by the fields it follows, and nothing else, for any objects, roots and
\* kinds and whatever marks earlier collections left (gc.cpp:215-230, 531).
THEOREM CollectionsKeepWhatTheySee == TraceSpec => KeepsWhatItSees
<1> DEFINE Keeps == mode = "mark" /\ mode' = "run" /\ ~revived => lines = Seen
<1>1. Inv /\ [TraceNext]_traceVars => [Keeps]_traceVars
  <2> SUFFICES ASSUME Inv, TraceNext, mode = "mark", mode' = "run", ~revived PROVE lines = Seen
    OBVIOUS
  <2>1. mark_stack = {}
    BY DEF TraceNext, Program, NewObject, Store, Load, Run, Leave, Collect, Collection, Walk, WalkCode, Sweep
  <2>2. RootsScanned \subseteq lines /\ lines \subseteq Seen /\ lines \in SUBSET Objects
    BY DEF Inv, Marks, TraceTypeOK
  <2>3. Closed(lines, Followed)
    BY <2>1 DEF Inv, Marks, Closed
  <2>4. Seen \subseteq lines
    BY <2>2, <2>3, SeenFacts DEF Inv
  <2> QED
    BY <2>2, <2>4
<1> HIDE DEF Keeps
<1>2. TraceSpec => [][Keeps]_traceVars
  BY <1>1, InvHolds, PTL DEF TraceSpec
<1> QED
  BY <1>2 DEF KeepsWhatItSees, Keeps
=============================================================================
