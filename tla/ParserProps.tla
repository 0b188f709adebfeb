---------------------------- MODULE ParserProps ----------------------------
(* What is expected of the stacks of a parse, whatever the tables.         *)
EXTENDS Parser

CONSTANTS
  Samples,   \* the texts
  Items      \* of every state, its configurations: rules, each with a dot
VARIABLE written    \* the tokens, and the tree they are of: Null for no tree
allVars == <<vars, written>>

Sample(tokens, tree) == [tokens |-> tokens, tree |-> tree]
Init == written \in Samples /\ InitWith(written.tokens)
Step == Next /\ UNCHANGED written
Spec == Init /\ [][Step]_allVars /\ WF_allVars(Step)

-----------------------------------------------------------------------------
(* What the tables have to be: those of an automaton whose states are sets *)
(* of configurations.                                                      *)
StateNumbers == DOMAIN ActionTable
\* Before a dot is the symbol that led to the state, and the same dot, one
\* place to the left, is in the state it was come from.
Advances(s, symbol, t) ==
  /\ t \in StateNumbers \ {1}
  /\ \A c \in Items[t] :
       c[2] > 0 => Rhs(c[1])[c[2]] = symbol /\ <<c[1], c[2] - 1>> \in Items[s]
\* What is reduced has its dot at the end.
Completes(s, r) == r \in DOMAIN Rules /\ <<r, Len(Rhs(r))>> \in Items[s]
\* What is begun can be moved over once it is read; only the first state
\* begins the start symbol.
CanGoOn(s) ==
  \A c \in Items[s] :
    c[2] = 0 => IF Rules[c[1]].lhs = Start THEN s = 1
                ELSE Rules[c[1]].lhs \in DOMAIN GotoTable[s]
ASSUME TablesAssumption ==
  /\ 1 \in StateNumbers
  /\ \A c \in Items[1] : c[2] = 0
  /\ \A s \in StateNumbers :
       /\ CanGoOn(s)
       /\ \A tok \in Terminals :
            LET a == ActionTable[s][tok]
            IN /\ a.type = "SHIFT" => Advances(s, tok, a.arg)
               /\ a.type = "REDUCE" => Completes(s, a.arg)
       /\ \A nt \in DOMAIN GotoTable[s] : Advances(s, nt, GotoTable[s][nt])

-----------------------------------------------------------------------------
\* At every step of every parse, one that fails included, there is a context
\* set aside for each class, trait, def or lambda that is open on the stack,
\* and an argument list for each list that is open or not yet taken by a send.
Openers == {"class_start", "trait_start", "def_start", "lambda_start"}
ArgLists == {"np_arg_list_start", "np_arg_list"}
Among(stack, majors) == Cardinality({i \in DOMAIN stack : stack[i].major \in majors})
StacksBalance ==
  yystack # <<>> /\ outcome = "" =>
    /\ Len(ps.stack) = Among(yystack, Openers)
    /\ Len(ps.arg_infos) = Among(yystack, ArgLists)

\* A rule is only reduced when its right-hand side is on top of the stack, and
\* there is a state to move to after it.
ReducesItsHandle ==
  outcome = "" /\ ~Idle /\ Action.type = "REDUCE" =>
    LET r == Action.arg
        n == Len(Rhs(r))
    IN /\ n < Len(yystack)
       /\ \A i \in 1 .. n : yystack[Len(yystack) - n + i].major = Rhs(r)[i]
       /\ Rules[r].lhs = Start \/ Rules[r].lhs \in DOMAIN GotoTable[MoveFrom(yystack, r)[2].stateno]

\* parse() ends on every text: false after a syntax error, true otherwise, with no
\* tree when a character that is no token stopped it (parser.cpp:575-597).
Ends == <>(outcome # "")
=============================================================================
