------------------------------- MODULE Lemon -------------------------------
(***************************************************************************)
(* What lemon (tools/lemon.c) makes of the grammar: the states of an       *)
(* LALR(1) automaton, and for each the shifts, reductions and default      *)
(* reduction of the generated tables.  A configuration is a rule and the   *)
(* position of the dot; a state is known by its basis configurations.      *)
(* Lemon keeps a follow set for every configuration of a state.  Those     *)
(* that the closure adds for one nonterminal share theirs, so that here    *)
(* only the basis has follow sets of its own.                              *)
(***************************************************************************)
EXTENDS Grammar, FiniteSetsExt, Functions, TLC

\* In a follow set: whatever follows the configuration it was derived from.
Outer == "outer"
Through(fws, outer) == IF Outer \in fws THEN (fws \ {Outer}) \cup outer ELSE fws

\* The same function and the same sequence: TLC keeps the values of these.
Table(f) == f @@ <<>>
Row(s) == s \o <<>>

IsTerminal(sym) == sym \in Terminals
RulesOf == Table([nt \in Nonterminals |-> {r \in DOMAIN Rules : Rules[r].lhs = nt}])

\* F applied until nothing changes (the loops that run while there is progress);
\* a recursive function, whose value TLC keeps.
Fixpoint(F(_), S, x) ==
  LET fix[y \in S] == LET z == F(y) IN IF z = y THEN y ELSE fix[z] IN fix[x]

-----------------------------------------------------------------------------
(* FindRulePrecedences, FindFirstSets                                      *)
Prec(sym) == LET at == {p \in DOMAIN Lefts : sym \in Lefts[p]} IN
             IF at = {} THEN 0 ELSE CHOOSE p \in at : TRUE
\* The precedence of the first symbol of the rule that has one, or 0.
RulePrec ==
  Row([r \in DOMAIN Rules |->
         LET precs == SelectSeq([i \in DOMAIN Rhs(r) |-> Prec(Rhs(r)[i])], LAMBDA p : p > 0)
         IN IF precs = <<>> THEN 0 ELSE Head(precs)])

Lambdas(lambda) ==
  {nt \in Nonterminals : \E r \in RulesOf[nt] : \A i \in DOMAIN Rhs(r) : Rhs(r)[i] \in lambda}
Lambda_ == Fixpoint(Lambdas, SUBSET Nonterminals, {})
\* What the symbols from the i-th on can begin with; Outer if they can be empty.
FirstFrom(first, r, i) ==
  LET open(j) == \A k \in i .. j - 1 : Rhs(r)[k] \in Lambda_
      some == {j \in i .. Len(Rhs(r)) : open(j)}
  IN UNION {IF IsTerminal(Rhs(r)[j]) THEN {Rhs(r)[j]} ELSE first[Rhs(r)[j]] : j \in some}
       \cup (IF open(Len(Rhs(r)) + 1) THEN {Outer} ELSE {})
FirstSets(first) ==
  Table([nt \in Nonterminals |-> UNION {FirstFrom(first, r, 1) : r \in RulesOf[nt]} \ {Outer}])
FirstSet == Fixpoint(FirstSets, [Nonterminals -> SUBSET Terminals],
                     [nt \in Nonterminals |-> {}])
\* What follows the i-th symbol of a rule.
Suffix ==
  Row([r \in DOMAIN Rules |-> Row([i \in DOMAIN Rhs(r) |-> FirstFrom(FirstSet, r, i + 1)])])

-----------------------------------------------------------------------------
(* Configlist_closure, buildshifts, getstate, FindStates                   *)
Config(r, dot) == <<r, dot>>
Complete(c) == c[2] = Len(Rhs(c[1]))
AfterDot(c) == Rhs(c[1])[c[2] + 1]
Advance(c) == Config(c[1], c[2] + 1)

RulesFrom ==
  Table([nt \in Nonterminals |-> {r \in DOMAIN Rules : Rhs(r) # <<>> /\ Rhs(r)[1] = nt}])
\* The nonterminals that a derivation of nt can begin with, each with its
\* follow set in terms of what follows nt.
Begins(ahead) ==
  Table([nt \in Nonterminals |-> Table([a \in Nonterminals |->
     ahead[nt][a] \cup
       UNION {Through(Suffix[r][1], ahead[nt][Rules[r].lhs]) :
                r \in {q \in RulesFrom[a] : ahead[nt][Rules[q].lhs] # {}}}])])
Ahead ==
  Fixpoint(Begins, [Nonterminals -> [Nonterminals -> SUBSET (Terminals \cup {Outer})]],
           Table([nt \in Nonterminals |-> Table(
              [a \in Nonterminals |-> IF a = nt THEN {Outer} ELSE {}])]))
AheadOf == Table([nt \in Nonterminals |-> {a \in Nonterminals : Ahead[nt][a] # {}}])

NextSymbols(cs) == {AfterDot(c) : c \in {d \in cs : ~Complete(d)}}
Closure(basis) ==
  basis \cup {Config(r, 0) :
     r \in UNION {RulesOf[a] : a \in UNION {AheadOf[b] : b \in NextSymbols(basis) \ Terminals}}}
ShiftBasis(closure, sym) ==
  {Advance(c) : c \in {d \in closure : ~Complete(d) /\ AfterDot(d) = sym}}

FirstBasis == {Config(r, 0) : r \in RulesOf[Start]}
Configs == {Config(r, dot) : r \in DOMAIN Rules, dot \in 0 .. 12}
\* states: those found, in that order; new: those whose successors are still
\* to be found.
InSomeOrder(S) == FoldSet(LAMBDA basis, seq : Append(seq, basis), <<>>, S)
Successors(f) ==
  LET next(basis) == LET closure == Closure(basis)
                     IN {ShiftBasis(closure, sym) : sym \in NextSymbols(closure)}
      found == UNION {next(f.new[i]) : i \in DOMAIN f.new}
      states == f.states \o f.new
  IN [states |-> states, new |-> InSomeOrder(found \ Range(states))]
\* The first state is number 1 and the others have any number.
Basis ==
  Fixpoint(Successors, [states : Seq(SUBSET Configs), new : Seq(SUBSET Configs)],
           [states |-> <<>>, new |-> <<FirstBasis>>]).states
States == DOMAIN Basis
Closures == Row([s \in States |-> Closure(Basis[s])])
StateOf(basis) == CHOOSE s \in States : Basis[s] = basis
\* The SHIFT actions, those of nonterminals included.
Shifts ==
  Row([s \in States |-> Table(
         [sym \in NextSymbols(Closures[s]) |-> StateOf(ShiftBasis(Closures[s], sym))])])

-----------------------------------------------------------------------------
(* FindLinks, FindFollowSets                                               *)
\* The basis configurations of a state, in an order for their follow sets.
Kernel == Row([s \in States |-> Row(InSomeOrder(Basis[s]))])
IndexOf(s, c) == CHOOSE i \in DOMAIN Kernel[s] : Kernel[s][i] = c
Waiting ==
  Row([s \in States |-> {i \in DOMAIN Kernel[s] :
         ~Complete(Kernel[s][i]) /\ ~IsTerminal(AfterDot(Kernel[s][i]))}])
\* A link from the i-th of state s: what a follow set makes of its own.
Link(s, i, via) == [state |-> s, index |-> i, via |-> via]
\* The links to the configurations that the closure of s adds for nt.
ClosureLinks(s, nt) ==
  {LET c == Kernel[s][i]
   IN Link(s, i, Through(Ahead[AfterDot(c)][nt], Suffix[c[1]][c[2] + 1])) : i \in Waiting[s]}
Before == Row([s \in States |-> {p \in States : s \in Range(Shifts[p])}])
LinksTo ==
  Row([s \in States |-> Row([i \in DOMAIN Kernel[s] |->
         LET c == Kernel[s][i]
             old == Config(c[1], c[2] - 1)
         IN UNION {IF old \in Basis[p] THEN {Link(p, IndexOf(p, old), {Outer})}
                   ELSE ClosureLinks(p, Rules[c[1]].lhs) : p \in Before[s]}])])
Along(links, fws) == UNION {Through(l.via, fws[l.state][l.index]) : l \in links}
Propagate(fws) ==
  Row([s \in States |->
         Row([i \in DOMAIN Kernel[s] |-> fws[s][i] \cup Along(LinksTo[s][i], fws)])])
FollowSets ==
  Fixpoint(Propagate, Seq(Seq(SUBSET Terminals)),
           Row([s \in States |-> Row([i \in DOMAIN Kernel[s] |-> IF s = 1 THEN {End} ELSE {}])]))

-----------------------------------------------------------------------------
(* FindActions, resolve_conflict, CompressTables                           *)
\* The rules that state s can reduce, each with its lookaheads.
Reductions ==
  Row([s \in States |-> Table(
         [r \in {c[1] : c \in {d \in Closures[s] : Complete(d)}} |->
            LET c == Config(r, Len(Rhs(r)))
            IN IF c \in Basis[s] THEN FollowSets[s][IndexOf(s, c)]
               ELSE Along(ClosureLinks(s, Rules[r].lhs), FollowSets)])])

Act(type, arg) == [type |-> type, arg |-> arg]
ErrorAct == Act("ERROR", 0)
\* The actions of s on tok in the order of actioncmp.
ActionsOn(s, tok) ==
  (IF tok \in DOMAIN Shifts[s] THEN <<Act("SHIFT", Shifts[s][tok])>> ELSE <<>>)
    \o [i \in 1 .. Cardinality({r \in DOMAIN Reductions[s] : tok \in Reductions[s][r]}) |->
          Act("REDUCE", SetToSortSeq({r \in DOMAIN Reductions[s] : tok \in Reductions[s][r]},
                                     LAMBDA a, b : a < b)[i])]
\* What becomes of two actions on the same token; every precedence is %left.
ResolveConflict(tok, x, y) ==
  LET px == IF x.type = "SHIFT" THEN Prec(tok) ELSE RulePrec[x.arg]
      py == RulePrec[y.arg]
      as(tx, ty) == <<[x EXCEPT !.type = tx], [y EXCEPT !.type = ty]>>
  IN CASE x.type = "SHIFT" /\ y.type = "REDUCE" ->
            IF px = 0 \/ py = 0 THEN as("SHIFT", "SRCONFLICT")
            ELSE IF px > py THEN as("SHIFT", "RD_RESOLVED") ELSE as("SH_RESOLVED", "REDUCE")
       [] x.type = "REDUCE" /\ y.type = "REDUCE" ->
            IF px = 0 \/ py = 0 \/ px = py THEN as("REDUCE", "RRCONFLICT")
            ELSE IF px > py THEN as("REDUCE", "RD_RESOLVED") ELSE as("RD_RESOLVED", "REDUCE")
       [] OTHER -> <<x, y>>
\* Every action against every later one.
ResolveAll(tok, acts) ==
  LET indices == [i \in DOMAIN acts |-> i]
      against(i, as, j) ==
        IF i >= j THEN as
        ELSE LET xy == ResolveConflict(tok, as[i], as[j])
             IN [as EXCEPT ![i] = xy[1], ![j] = xy[2]]
  IN FoldLeft(LAMBDA as, i : FoldLeft(LAMBDA bs, j : against(i, bs, j), as, indices),
              acts, indices)
Resolved ==
  Row([s \in States |-> Table([tok \in Terminals |-> ResolveAll(tok, ActionsOn(s, tok))])])
Kept(acts) == SelectSeq(acts, LAMBDA a : a.type \in {"SHIFT", "REDUCE"})
Conflicts == {<<s, tok>> \in States \X Terminals :
                \E i \in DOMAIN Resolved[s][tok] :
                   Resolved[s][tok][i].type \in {"SRCONFLICT", "RRCONFLICT"}}
Chosen ==
  Row([s \in States |-> Table([tok \in Terminals |->
         IF Kept(Resolved[s][tok]) = <<>> THEN ErrorAct ELSE Head(Kept(Resolved[s][tok]))])])

\* The default: the rule reduced on most tokens, the first such in their order.
TokenNumber(tok) == IF tok = End THEN 0 ELSE CHOOSE i \in DOMAIN Tokens : Tokens[i] = tok
On(s, r) == {tok \in Terminals : Chosen[s][tok] = Act("REDUCE", r)}
Default ==
  Row([s \in States |->
     LET rs == {r \in DOMAIN Reductions[s] : On(s, r) # {} /\ Rules[r].lhs # Start}
         most == {r \in rs : \A q \in rs : Cardinality(On(s, q)) <= Cardinality(On(s, r))}
         first(r) == Min({TokenNumber(tok) : tok \in On(s, r)})
     IN IF rs = {} THEN ErrorAct
        ELSE Act("REDUCE", CHOOSE r \in most : \A q \in most : first(r) <= first(q))])
\* The generated tables: yy_action with yy_default, and the moves after a reduction.
LemonActions ==
  Row([s \in States |-> Table([tok \in Terminals |->
         IF Chosen[s][tok] = ErrorAct THEN Default[s] ELSE Chosen[s][tok]])])
LemonGotos == Row([s \in States |-> Table(Restrict(Shifts[s], DOMAIN Shifts[s] \ Terminals))])
=============================================================================
