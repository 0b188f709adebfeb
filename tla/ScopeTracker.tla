---------------------------- MODULE ScopeTracker ----------------------------
(***************************************************************************)
(* Which register, closure slot or global every use of a name stands for:  *)
(* the Visitor of vm/scope_tracker.cpp and the accept methods of           *)
(* vm/ast.cpp that walk the tree with it.  A visitor is a record: the      *)
(* Local objects, the LocalMap from nodes (paths) to them, the scope being *)
(* walked, the scopes around it, the traits around it with the self sends  *)
(* found in them, and the registers and slots given to finished scopes.    *)
(***************************************************************************)
EXTENDS Ast, Bytecode

CONSTANT NameOrder      \* every name a program uses, in the order of StringMap

GlobalNames == ToSet(Globals)
GlobalSlot(name) == (CHOOSE i \in DOMAIN Globals : Globals[i] = name) - 1

\* Local::Local, make_global, make_arg, make_closure_access
NewLocal == [type |-> "eReg", idx |-> 0, set_idx |-> FALSE, owned |-> 0,
             depth |-> 0, extra |-> 0]
GlobalLocal(slot, depth) ==
  [NewLocal EXCEPT !.type = "eClosureGlobal", !.idx = slot, !.set_idx = TRUE,
                   !.depth = depth]
ArgLocal(reg) == [NewLocal EXCEPT !.type = "eArgument", !.idx = reg, !.set_idx = TRUE]
AccessLocal(owned, depth) ==
  [NewLocal EXCEPT !.type = "eClosureAccess", !.owned = owned, !.depth = depth]
RegP(l) == l.type \in {"eReg", "eArgument"}
NeedsRegP(l) == RegP(l) /\ ~l.set_idx

Tracker == [objs |-> <<>>, map |-> <<>>, scope |-> <<>>, stack |-> <<>>,
            traits |-> <<>>, sends |-> <<>>, scopes |-> <<>>]

\* Faulty: the type of a captured local is not changed.
MakeClosureForgotten(st, o) == [st EXCEPT !.objs[o].set_idx = FALSE]
MakeClosure(st, o) ==
  [st EXCEPT !.objs[o].type = "eClosureOwn", !.objs[o].set_idx = FALSE]

\* LocalMap::add for a new local and for one that exists.
AddTo(st, p, o) == [st EXCEPT !.map = (p :> o) @@ @]
Add(st, p, l) == AddTo([st EXCEPT !.objs = Append(@, l)], p, Len(st.objs) + 1)
\* std::map::insert does nothing when the name is there.
Insert(st, name, o) == [st EXCEPT !.scope = @ @@ (name :> o)]
AddNamed(st, p, l, name) == LET s == Add(st, p, l) IN Insert(s, name, Len(s.objs))

\* The depths, counted from the scope around this one, at which a name is found.
Depths(st, name) ==
  {d \in 1 .. Len(st.stack) : name \in DOMAIN st.stack[Len(st.stack) - d + 1]}
Outer(st, name, d) == st.stack[Len(st.stack) - d + 1][name]
Nearest(ds) == CHOOSE d \in ds : \A e \in ds : d <= e

\* The search of visit(AssignOp) and start_try_body counts from zero.
CaptureShallow(st, p, name, d) ==
  LET o == Outer(st, name, d) IN Add(MakeClosure(st, o), p, AccessLocal(o, d - 1))
Capture(st, p, name, d) ==
  LET o == Outer(st, name, d) IN Add(MakeClosure(st, o), p, AccessLocal(o, d))

\* ScopeTracker::find_scoped; a name that is nowhere has no entry in the map.
FindScoped(st, p, name) ==
  LET ds == Depths(st, name) IN
  IF name \in DOMAIN st.scope THEN AddTo(st, p, st.scope[name])
  ELSE IF ds # {} THEN Capture(st, p, name, Nearest(ds))
  ELSE IF name \in GlobalNames
       THEN Add(st, p, GlobalLocal(GlobalSlot(name), Len(st.stack)))
  ELSE st
Found(st, p) == p \in DOMAIN st.map

VisitAssign(st, p, name) ==
  LET ds == Depths(st, name) IN
  IF name \in DOMAIN st.scope THEN AddTo(st, p, st.scope[name])
  ELSE IF ds # {} THEN Capture(st, p, name, Nearest(ds))
  ELSE AddNamed(st, p, NewLocal, name)

\* start_try_body and visit(AssignOp): the search does not stop at what it
\* finds, and ends with a local of this scope.
RECURSIVE CaptureAll(_, _, _, _)
CaptureAll(st, p, name, ds) ==
  IF ds = {} THEN st
  ELSE LET d == Nearest(ds) IN
       CaptureAll(CaptureShallow(st, p, name, d), p, name, ds \ {d})
VisitAssignOp(st, p, name) ==
  IF name \in DOMAIN st.scope THEN AddTo(st, p, st.scope[name])
  ELSE AddNamed(CaptureAll(st, p, name, Depths(st, name)), p, NewLocal, name)
StartTryBody(st, p, name) == IF name = "" THEN st ELSE VisitAssignOp(st, p, name)

\* visit(Import), visit(ImportOne), visit(Trait): a local whose extra is a global.
VisitWithGlobal(st, p, global, name) ==
  LET s == [st EXCEPT !.objs = Append(@, GlobalLocal(GlobalSlot(global), Len(st.stack)))]
  IN AddNamed(s, p, [NewLocal EXCEPT !.extra = Len(s.objs)], name)
VisitDictionary(st, p) ==
  Add(st, p, GlobalLocal(GlobalSlot("Dictionary"), Len(st.stack)))

VisitSend(st, n, p) ==
  LET s == IF SelfLess(n) THEN FindScoped(st, p, n.name) ELSE st
      t == Last(st.traits)
  IN IF SelfLess(n) /\ Found(s, p) THEN s
     ELSE IF s.traits # <<>> /\ IsSelf(n.kids[1])
          THEN [s EXCEPT !.sends[t] = Append(@, n.name)]
     ELSE s

-----------------------------------------------------------------------------
\* before_visit(Scope): a new scope with the arguments, then self.
AddArg(st, p, a) == AddNamed(st, p, ArgLocal(a.val), a.name)
BeforeScope(st, n, p) ==
  LET k == Len(n.kids)
      start == [st EXCEPT !.stack = Append(@, st.scope), !.scope = <<>>]
      f[i \in 2 .. k] ==
        IF i = 2 THEN start ELSE AddArg(f[i - 1], Append(p, i), n.kids[i])
  IN IF n.kids[2] = Null THEN f[k] ELSE AddArg(f[k], Append(p, 2), n.kids[2])

\* visit(Scope): registers to the locals, slots to the captured ones, by name.
\* Faulty: the arguments' registers are handed out again.
FirstRegZero(n) == 0
FirstReg(n) == Len(ArgObjs(n))
VisitScope(st, n, p) ==
  LET names == SelectSeq(NameOrder, LAMBDA m : m \in DOMAIN st.scope)
      obj(i) == st.objs[st.scope[names[i]]]
      before(i, P(_)) == Cardinality({j \in 1 .. i - 1 : P(st.objs[st.scope[names[j]]])})
      place(i) == IF NeedsRegP(obj(i)) THEN FirstReg(n) + before(i, NeedsRegP)
                  ELSE IF RegP(obj(i)) THEN obj(i).idx
                  ELSE before(i, LAMBDA l : ~RegP(l))
      placed == [o \in DOMAIN st.objs |->
                   IF \E i \in DOMAIN names : st.scope[names[i]] = o
                   THEN [st.objs[o] EXCEPT !.idx =
                           place(CHOOSE i \in DOMAIN names : st.scope[names[i]] = o)]
                   ELSE st.objs[o]]
      regs == {i \in DOMAIN names : RegP(obj(i))}
  IN [st EXCEPT !.objs = placed, !.scope = Last(st.stack), !.stack = Front(@),
                !.scopes = (p :> [locals |-> Cardinality(regs),
                                  cov |-> Len(names) - Cardinality(regs)]) @@ @]

\* accept: a node's children, in the order of its class, and then its visit.
RECURSIVE Accept(_, _, _), AcceptKids(_, _, _, _)
AcceptKids(st, n, p, order) ==
  IF order = <<>> THEN st
  ELSE LET i == Head(order)
           s == IF n.kids[i] = Null THEN st ELSE Accept(st, n.kids[i], Append(p, i))
       IN AcceptKids(s, n, p, Tail(order))
AcceptScope(st, n, p) ==
  LET k == Len(n.kids)
      f[i \in 2 .. k] ==
        IF i = 2 THEN BeforeScope(st, n, p)
        ELSE AcceptKids(f[i - 1], n.kids[i], Append(p, i), <<1>>)
  IN VisitScope(Accept(f[k], n.kids[1], Append(p, 1)), n, p)
AcceptTry(st, n, p) ==
  LET s == StartTryBody(AcceptKids(st, n, p, <<1>>), p, n.name)
  IN AcceptKids(s, n, p, <<3, 2>>)
AcceptClass(st, n, p) ==
  AcceptKids(AddNamed(st, Append(p, 2), NewLocal, n.name), n, p, <<1, 2>>)
AcceptTrait(st, n, p) ==
  LET inside == [st EXCEPT !.traits = Append(@, p), !.sends = (p :> <<>>) @@ @]
      s == VisitWithGlobal(AcceptKids(inside, n, p, <<1>>), p, "Trait", n.name)
  IN [s EXCEPT !.traits = Front(@)]
\* The first case, which never applies, makes TLC evaluate st before the node.
Accept(st, n, p) ==
  LET s == AcceptKids(st, n, p, ArgIndices(n, 0)) IN
  CASE Len(st.objs) < 0 -> st
    [] n.type = "Scope" -> AcceptScope(st, n, p)
    [] n.type = "Try" -> AcceptTry(st, n, p)
    [] n.type = "Class" -> AcceptClass(st, n, p)
    [] n.type = "Trait" -> AcceptTrait(st, n, p)
    [] n.type = "SendIndirect" -> AcceptKids(st, n, p, <<2, 1>> \o ArgIndices(n, 2))
    [] n.type = "Cast" -> AcceptKids(st, n, p, <<2, 1>>)
    [] n.type = "Send" -> VisitSend(s, n, p)
    [] n.type = "Named" -> FindScoped(st, p, n.name)
    [] n.type = "Self" -> FindScoped(st, p, "self")
    [] n.type = "Assign" -> VisitAssign(s, p, n.name)
    [] n.type = "AssignOp" -> VisitAssignOp(s, p, n.name)
    [] n.type = "Import" -> VisitWithGlobal(st, p, "Importer", n.name)
    [] n.type = "ImportOne" -> VisitWithGlobal(st, p, "Importer", n.name)
    [] n.type = "Dictionary" -> VisitDictionary(s, p)
    [] OTHER -> s

\* calculate_locals
CalculateLocals(top) == Accept(Tracker, top, <<>>)
=============================================================================
