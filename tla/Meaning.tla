------------------------------ MODULE Meaning ------------------------------
(***************************************************************************)
(* What a program means, told from its syntax tree alone: the reference    *)
(* for the compiler and the machine.  There are no registers, slots or     *)
(* jumps here: a scope is a table of names with the scope around it, and   *)
(* the value of a node comes from the values of its children, left to      *)
(* right.  answers says what the world returned to the sends it was asked. *)
(*                                                                         *)
(* Eval gives how the evaluation ended ("value", "raise", "return", or      *)
(* "abort" where the language has no answer), its value, for a return the  *)
(* scope returned from, and the store.                                     *)
(***************************************************************************)
EXTENDS Machine, Compiler

Store0(as) ==
  [scopes |-> <<>>, lambdas |-> <<>>, defs |-> <<>>, attrs |-> <<>>, events |-> <<>>,
   answers |-> as]
Ends(how, v, st) == [how |-> how, v |-> v, to |-> 0, st |-> st]
Gives(v, st) == Ends("value", v, st)
Throws(v, st) == Ends("raise", v, st)
Aborted(st) == Ends("abort", NilV, st)

\* self: the receiver of the method around; method: the scope of the def around,
\* 0 without one; home: the scope a return leaves, for a lambda that of the def.
NewScope(st, names, parent, self, kind) ==
  LET own == Len(st.scopes) + 1
      around == IF parent = 0 THEN 0 ELSE st.scopes[parent].method
      scope == [names |-> names, parent |-> parent, self |-> self,
                method |-> IF kind = "def" THEN own ELSE around,
                home |-> IF kind = "lambda" THEN around ELSE own]
  IN [st EXCEPT !.scopes = Append(@, scope)]

RECURSIVE Holder(_, _, _)
Holder(st, e, name) ==
  IF e = 0 THEN 0
  ELSE IF name \in DOMAIN st.scopes[e].names THEN e
  ELSE Holder(st, st.scopes[e].parent, name)
Bind(st, e, name, v) == [st EXCEPT !.scopes[e].names = (name :> v) @@ @]
Store(st, e, name, v) ==
  LET h == Holder(st, e, name) IN Bind(st, IF h = 0 THEN e ELSE h, name, v)
IsBound(st, e, name) == Holder(st, e, name) # 0 \/ name \in GlobalNames
ValueOf(st, e, name) ==
  LET h == Holder(st, e, name) IN
  IF h = 0 THEN GlobalV(GlobalSlot(name)) ELSE st.scopes[h].names[name]

\* The world answers, if this execution asked it; "none" ends the evaluation.
Ask(st, name, recv, args, keywords) ==
  LET n == Len(st.events) + 1
      asked == [st EXCEPT !.events =
                  Append(@, [name |-> name, recv |-> recv, args |-> args,
                             keywords |-> keywords])]
  IN IF n > Len(st.answers) THEN Ends("none", NilV, st)
     ELSE CASE st.answers[n] = "nil" -> Gives(NilV, asked)
            [] st.answers[n] = "object" -> Gives(ObjV(n), asked)
            [] st.answers[n] = "raise" -> Throws(ExcV(n, ""), asked)

\* A node evaluated, and then more only if it gave a value.
Then(r, More(_, _)) == IF r.how = "value" THEN More(r.v, r.st) ELSE r

RECURSIVE Eval(_, _, _)
RECURSIVE EvalAll(_, _, _, _)
\* The values of several nodes, as a sequence.
EvalAll(ns, e, st, vs) ==
  IF ns = <<>> THEN Gives(SeqV("all", vs), st)
  ELSE Then(Eval(Head(ns), e, st), LAMBDA v, s : EvalAll(Tail(ns), e, s, Append(vs, v)))

\* The body of a lambda or method, in a scope of its own; a return to that
\* scope is its value.
Call(scope, names, parent, self, kind, st) ==
  LET inner == NewScope(st, names, parent, self, kind)
      r == Eval(scope.kids[1], Len(inner.scopes), inner)
  IN IF r.how = "return" /\ r.to = Len(inner.scopes) THEN Gives(r.v, r.st) ELSE r
Params(scope) == [i \in DOMAIN ArgObjs(scope) |-> ArgObjs(scope)[i].name]
NamesFor(params, args) ==
  [m \in ToSet(params) |->
     LET i == CHOOSE j \in DOMAIN params : params[j] = m IN
     IF i \in DOMAIN args THEN args[i] ELSE JunkV]
\* An argument is a parameter's by its keyword, else by its position.
ByKeyword(params, args, keywords) ==
  [m \in ToSet(params) |->
     LET i == CHOOSE j \in DOMAIN params : params[j] = m IN
     IF \E k \in DOMAIN keywords : keywords[k] = m
     THEN args[CHOOSE k \in DOMAIN keywords : keywords[k] = m] ELSE args[i]]

\* The casts and defaults of a method's parameters, before its body.
RECURSIVE Prepare(_, _, _, _)
Prepare(as, e, given, st) ==
  IF as = <<>> THEN Gives(NilV, st)
  ELSE LET a == Head(as)
           Next1(v, s) == Prepare(Tail(as), e, given, Bind(s, e, a.name, v))
       IN IF a.kids[2] # Null /\ a.val >= given
          THEN Then(Eval(a.kids[2], e, st), Next1)
          ELSE IF a.kids[1] # Null
          THEN Then(Eval(a.kids[1], e, st), LAMBDA t, s :
                 Then(Ask(s, "cast", t, <<st.scopes[e].names[a.name]>>, <<>>), Next1))
          ELSE Prepare(Tail(as), e, given, st)
CallMethod(m, recv, args, keywords, st) ==
  LET scope == m.scope
      as == ArgObjs(scope)
      req == Len(SelectSeq(as, LAMBDA a : a.kids[2] = Null))
      names == IF keywords = <<>> THEN NamesFor(Params(scope), args)
               ELSE ByKeyword(Params(scope), args, keywords)
      inner == NewScope(st, names, m.parent, recv, "def")
      e == Len(inner.scopes)
      r == Then(Prepare(as, e, Len(args), inner), LAMBDA v, s : Eval(scope.kids[1], e, s))
  IN IF req > 0 /\ Len(args) \notin req .. Len(as) THEN Throws(ExcV(0, "ArgumentError"), st)
     ELSE IF r.how = "return" /\ r.to = e THEN Gives(r.v, r.st) ELSE r

Dispatch(st, name, recv, args, keywords) ==
  IF recv.k = "meth" /\ name \in {"apply", "|"}
  THEN LET m == st.lambdas[recv.n] IN
       Call(m.scope, NamesFor(Params(m.scope), args), m.parent,
            st.scopes[m.parent].self, "lambda", st)
  ELSE IF recv.k \in {"obj", "main"} /\ name \in DOMAIN st.defs
  THEN CallMethod(st.lambdas[st.defs[name]], recv, args, keywords, st)
  ELSE Ask(st, name, recv, args, keywords)

KeywordsOf(n) == IF n.keywords = <<>> THEN <<>> ELSE ArgmapToLtuple(n.keywords)
EvalMessage(n, name, recv, args, e, st) ==
  Then(EvalAll(args, e, st, <<>>), LAMBDA vs, s :
    Dispatch(s, name, recv, vs.e, KeywordsOf(n)))
EvalSend(n, e, st) ==
  LET args == Tail(n.kids)
      name == IF n.spec = "eSetAttr" THEN n.name \o "=" ELSE n.name
  IN IF SelfLess(n) /\ IsBound(st, e, n.name)
     THEN EvalMessage(n, "apply", ValueOf(st, e, n.name), args, e, st)
     ELSE Then(Eval(n.kids[1], e, st), LAMBDA v, s : EvalMessage(n, name, v, args, e, s))
EvalNamed(n, e, st) ==
  IF IsBound(st, e, n.name) THEN Gives(ValueOf(st, e, n.name), st)
  ELSE Dispatch(st, n.name, st.scopes[e].self, <<>>, <<>>)

\* A new method or lambda, in the scope that makes it.
Made(st, scope, e) == [st EXCEPT !.lambdas = Append(@, [scope |-> scope, parent |-> e])]
EvalDef(n, e, st) ==
  LET s == Made(st, n.kids[1], e) IN
  Gives(NilV, [s EXCEPT !.defs = (n.name :> Len(s.lambdas)) @@ @])

\* A class or trait: made by a message, named, and its body run as its own.
EvalNew(n, i, recv, name, args, e, st) ==
  Then(Ask(st, name, recv, args, <<>>), LAMBDA v, s :
    LET named == [Store(s, e, n.name, v) EXCEPT
                    !.attrs = (<<s.scopes[e].self, n.name>> :> v) @@ @]
    IN Call(n.kids[i], <<>>, e, v, "body", Made(named, n.kids[i], e)))
RECURSIVE SelfSends(_)
SelfSends(n) ==
  FlattenSeq([i \in DOMAIN n.kids |-> SelfSends(n.kids[i])])
    \o (IF n.type = "Send" /\ IsSelf(n.kids[1]) THEN <<n.name>> ELSE <<>>)
EvalTrait(n, e, st) ==
  EvalNew(n, 1, GlobalV(GlobalSlot("Trait")), "new",
          <<StrV(n.name), SeqV("tuple", [i \in DOMAIN SelfSends(n) |-> StrV(SelfSends(n)[i])])>>,
          e, st)

EvalTry(n, e, st) ==
  LET r == Eval(n.kids[1], e, st)
      Handler(s) == Eval(n.kids[2], e, s)
  IN IF r.how # "raise" THEN r
     ELSE IF n.name = "" THEN Handler(r.st)
     ELSE Then(Eval(n.kids[3], e, r.st), LAMBDA t, s :
            Then(Ask(s, "===", t, <<r.v>>, <<>>), LAMBDA ok, s2 :
              IF TrueCondition(ok) THEN Handler(Store(s2, e, n.name, r.v))
              ELSE Throws(r.v, s2)))

EvalImport(n, e, st) ==
  Then(Ask(st, "current", GlobalV(GlobalSlot("Importer")), <<>>, <<>>), LAMBDA v, s :
    Then(Ask(s, "import", v, <<StrV(n.str)>>, <<>>), LAMBDA m, s2 :
      LET r == IF n.type = "ImportOne" THEN Ask(s2, "::", m, <<StrV(n.spec)>>, <<>>)
               ELSE Gives(m, s2)
      IN Then(r, LAMBDA x, s3 : Gives(x, Bind(s3, e, n.name, x)))))

\* What can be raised: an exception, and a string, which becomes the message of one.
EvalRaise(v, st) ==
  CASE v.k = "exc" -> Throws(v, st)
    [] v.k = "str" -> Throws(ExcV(0, v.s), st)
    [] OTHER -> Aborted(st)

\* `x op= e` sends op to x with the value of e and stores what it returns.
EvalOp(old, n, e, st, Put(_, _)) ==
  Then(Eval(n.kids[1], e, st), LAMBDA v, s :
    Then(Dispatch(s, n.str, old, <<v>>, <<>>), LAMBDA w, s2 : Gives(w, Put(s2, w))))
AttrIn(st, obj, name) ==
  IF <<obj, name>> \in DOMAIN st.attrs THEN st.attrs[<<obj, name>>] ELSE NilV
PutAttr(st, e, name, v) ==
  [st EXCEPT !.attrs = (<<st.scopes[e].self, name>> :> v) @@ @]

Eval(n, e, st) ==
  LET first == Eval(n.kids[1], e, st)
      second(s) == Eval(n.kids[2], e, s)
      all == EvalAll(n.kids, e, st, <<>>)
      self == st.scopes[e].self
  IN
  CASE n.type = "Seq" -> Then(first, LAMBDA v, s : second(s))
    [] n.type = "Number" -> Gives(IntV(n.val), st)
    [] n.type = "LiteralString" -> Gives(StrV(n.str), st)
    [] n.type = "Nil" -> Gives(NilV, st)
    [] n.type = "True" -> Gives(BoolV(TRUE), st)
    [] n.type = "False" -> Gives(BoolV(FALSE), st)
    [] n.type = "Self" -> Gives(self, st)
    [] n.type = "Named" -> EvalNamed(n, e, st)
    [] n.type = "Send" -> EvalSend(n, e, st)
    [] n.type = "SendIndirect" ->
         Then(first, LAMBDA m, s : Then(second(s), LAMBDA v, s2 :
           EvalMessage(n, m.s, v, SubSeq(n.kids, 3, Len(n.kids)), e, s2)))
    [] n.type = "Cast" ->
         Then(second(st), LAMBDA t, s : Then(Eval(n.kids[1], e, s), LAMBDA v, s2 :
           Dispatch(s2, "cast", t, <<v>>, <<>>)))
    [] n.type = "Tuple" -> Then(all, LAMBDA vs, s : Gives(SeqV("tuple", vs.e), s))
    [] n.type = "List" -> Then(all, LAMBDA vs, s : Gives(SeqV("list", vs.e), s))
    [] n.type = "Dictionary" ->
         EvalMessage(n, "literal", GlobalV(GlobalSlot("Dictionary")), n.kids, e, st)
    [] n.type = "Not" -> Then(first, LAMBDA v, s : Gives(BoolV(~TrueCondition(v)), s))
    [] n.type = "And" ->
         Then(first, LAMBDA v, s : IF TrueCondition(v) THEN second(s) ELSE Gives(v, s))
    [] n.type = "IfCond" ->
         Then(first, LAMBDA v, s : IF TrueCondition(v) THEN second(s)
                                   ELSE IF n.kids[3] = Null THEN Gives(v, s)
                                   ELSE Eval(n.kids[3], e, s))
    [] n.type = "Unless" ->
         Then(first, LAMBDA v, s : IF TrueCondition(v) THEN Gives(v, s) ELSE second(s))
    [] n.type = "While" ->
         Then(first, LAMBDA v, s :
           IF TrueCondition(v) THEN Then(second(s), LAMBDA w, s2 : Eval(n, e, s2))
           ELSE Gives(v, s))
    [] n.type = "Try" -> EvalTry(n, e, st)
    [] n.type = "Raise" -> Then(first, EvalRaise)
    [] n.type = "Return" ->
         Then(first, LAMBDA v, s :
           IF s.scopes[e].home = 0 THEN Aborted(s)
           ELSE [Ends("return", v, s) EXCEPT !.to = s.scopes[e].home])
    [] n.type = "Assign" -> Then(first, LAMBDA v, s : Gives(v, Store(s, e, n.name, v)))
    [] n.type = "AssignOp" ->
         EvalOp(ValueOf(st, e, n.name), n, e, st, LAMBDA s, w : Store(s, e, n.name, w))
    [] n.type = "IvarAssign" ->
         Then(first, LAMBDA v, s : Gives(v, PutAttr(s, e, n.name, v)))
    [] n.type = "IvarAssignOp" ->
         EvalOp(AttrIn(st, self, n.name), n, e, st, LAMBDA s, w : PutAttr(s, e, n.name, w))
    [] n.type = "IvarRead" -> Gives(AttrIn(st, self, n.name), st)
    [] n.type = "Lambda" ->
         LET s == Made(st, n.kids[1], e) IN Gives(MethV(Len(s.lambdas)), s)
    [] n.type = "Def" -> EvalDef(n, e, st)
    [] n.type = "Class" ->
         Then(first, LAMBDA v, s :
           EvalNew(n, 2, v, "new_subclass", <<StrV(n.name)>>, e, s))
    [] n.type = "Trait" -> EvalTrait(n, e, st)
    [] n.type \in {"Import", "ImportOne"} -> EvalImport(n, e, st)

\* The meaning of a whole program; how it ends, with what, after which events.
Meaning(program, as) ==
  LET r == Call(program, <<>>, 0, MainV, "body", Store0(as)) IN
  [how |-> r.how, v |-> r.v, events |-> r.st.events]
=============================================================================
