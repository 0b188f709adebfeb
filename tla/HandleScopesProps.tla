------------------------- MODULE HandleScopesProps -------------------------
(***************************************************************************)
(* What handles promise to the collector and to native code.               *)
(***************************************************************************)
EXTENDS HandleScopes

\* Every variable has its type: the sets, scopes and slots of
\* handle_sets.hpp:10, handle_scope.hpp:8-11 and handle_set.hpp:8-10.
TypeOK ==
  /\ sets \in Seq([oops : Places, pos : Nat])
  /\ scopes \in Seq([set : 1 .. Len(sets), old : Nat])
  /\ Len(scopes) <= MaxScopes
  /\ handles \in Seq(Seq(Nat)) /\ Len(handles) = Len(scopes)
  /\ spilled \in BOOLEAN

\* The slots GCImpl::collect scans in the sets ss, and those that the handles
\* hs of the open scopes refer to.
Scanned(ss) == UNION {ss[i].oops .. ss[i].pos - 1 : i \in 1 .. Len(ss)}
InScope(hs, k) == {hs[k][j] : j \in 1 .. Len(hs[k])}
Live(hs) == UNION {InScope(hs, k) : k \in 1 .. Len(hs)}

\* No slot is handed out twice while a handle refers to it.
Distinct(hs) ==
  \A k, l \in 1 .. Len(hs) :
    \A i \in 1 .. Len(hs[k]), j \in 1 .. Len(hs[l]) :
      hs[k][i] = hs[l][j] => k = l /\ i = j

\* Until a scope is closed that had outgrown its array, the collector scans
\* exactly the handles of the open scopes, however scopes nest, arrays fill
\* and scopes share them (gc.cpp:501-516, handle_scope.hpp:14-35).
HandlesAreRoots ==
  ~spilled => Scanned(sets) = Live(handles) /\ Distinct(handles)

-----------------------------------------------------------------------------
(* Why they are: an inductive invariant, on sets ss, scopes sc, handles hs. *)

Limit(s) == s.oops + SetSize
InArray(a, s) == s.oops <= a /\ a <= Limit(s)

\* Each array is in use up to its position, and malloc gives it to one set.
SetsOK(ss) ==
  /\ \A i \in 1 .. Len(ss) : InArray(ss[i].pos, ss[i])
  /\ \A i, j \in 1 .. Len(ss) : i # j => ss[i].oops # ss[j].oops

\* The scope still adds to the array it was opened in.
AtHome(ss, f) == InArray(f.old, ss[f.set])

\* Scopes remember a position of the array they were opened in.
ScopesOK(ss, sc) ==
  \A k \in 1 .. Len(sc) :
    /\ \E i \in 1 .. sc[k].set : InArray(sc[k].old, ss[i])
    /\ AtHome(ss, sc[k]) => sc[k].old <= ss[sc[k].set].pos

\* What closing a scope at home gives up, all it has made and nothing else.
Given(ss, f, h) == f.old <= h /\ h < Limit(ss[f.set])
Nested(ss, sc, hs) ==
  \A k \in 1 .. Len(sc) : AtHome(ss, sc[k]) =>
    /\ \A h \in InScope(hs, k) : Given(ss, sc[k], h)
    /\ \A l \in 1 .. k - 1 :
         /\ \A h \in InScope(hs, l) : ~Given(ss, sc[k], h)
         /\ AtHome(ss, sc[l]) /\ sc[l].set = sc[k].set => sc[l].old <= sc[k].old

Sound(ss, sc, hs) ==
  /\ SetsOK(ss) /\ ScopesOK(ss, sc) /\ Nested(ss, sc, hs)
  /\ Scanned(ss) = Live(hs) /\ Distinct(hs)

\* The inductive invariant: up to that point the innermost scope's slots are
\* the last ones of its array (handle_scope.hpp:21-24, handle_set.hpp:27-39).
HandlesSound == TypeOK /\ (~spilled => Sound(sets, scopes, handles))

-----------------------------------------------------------------------------
\* All the collector scans lies inside the arrays: an address from anywhere
\* else is no object's (check(gc_.allocated_address(addr)), gc.cpp:220).
ScansHandles ==
  \A i \in 1 .. Len(sets) : sets[i].pos <= sets[i].oops + SetSize
=============================================================================
