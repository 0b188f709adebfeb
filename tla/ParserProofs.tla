---------------------------- MODULE ParserProofs ----------------------------
(***************************************************************************)
(* Proofs about the stacks of the parser, for any tables of an automaton,  *)
(* any texts and any depth.                                                *)
(***************************************************************************)
EXTENDS ParserProps, SequenceTheorems, FiniteSetTheorems, WellFoundedInduction, TLAPS

\* A sequence, of whatever it holds.
IsSequence(s) == s \in Seq(ToSet(s))

\* What the stack is at every step: neighbours are as the tables lead.
Linked(stack) ==
  /\ IsSequence(stack)
  /\ stack # <<>> => stack[1].stateno = 1 /\ stack[1].major = End
  /\ \A i \in 1 .. Len(stack) : stack[i].stateno \in StateNumbers
  /\ \A i \in 2 .. Len(stack) :
       Advances(stack[i - 1].stateno, stack[i].major, stack[i].stateno)
Reads == yymajor.major \in Terminals \cup {NoCode}

-----------------------------------------------------------------------------
(* Sequences                                                               *)

LEMMA SmallestOfNat ==
  ASSUME NEW T \in SUBSET Nat, T # {}
  PROVE  \E x \in T : \A y \in T : x <= y
<1>1. \E x \in T : \A y \in T : ~ (<<y, x>> \in OpToRel(<, Nat))
  BY NatLessThanWellFounded, WFMin
<1>2. ASSUME NEW x \in T, NEW y \in T, ~ (<<y, x>> \in OpToRel(<, Nat))
      PROVE  x <= y
  <2>1. OpToRel(<, Nat) = {p \in Nat \X Nat : p[1] < p[2]}
    BY Zenon DEF OpToRel
  <2>2. ~ (y < x)
    BY <1>2, <2>1
  <2> QED
    BY <2>2
<1> QED
  BY <1>1, <1>2

LEMMA SequenceFacts ==
  ASSUME NEW s, IsSequence(s)
  PROVE  /\ Len(s) \in Nat /\ DOMAIN s = 1 .. Len(s)
         /\ s = <<>> <=> Len(s) = 0
         /\ s # <<>> => Last(s) = s[Len(s)] /\ Len(s) \in Nat \ {0}
<1>1. Len(s) \in Nat /\ DOMAIN s = 1 .. Len(s)
  BY LenProperties DEF IsSequence
<1>2. s = <<>> <=> Len(s) = 0
  BY <1>1, EmptySeq DEF IsSequence
<1> QED
  BY <1>1, <1>2 DEF Last

LEMMA SequenceOf ==
  ASSUME NEW S, NEW s \in Seq(S)
  PROVE  IsSequence(s)
<1>1. Len(s) \in Nat /\ s \in [1 .. Len(s) -> S] /\ DOMAIN s = 1 .. Len(s)
  BY LenProperties
<1>2. s \in [1 .. Len(s) -> ToSet(s)]
  BY <1>1 DEF ToSet
<1> QED
  BY <1>1, <1>2, SeqDef DEF IsSequence

LEMMA AppendFacts ==
  ASSUME NEW s, NEW e, IsSequence(s)
  PROVE  /\ IsSequence(Append(s, e)) /\ Len(Append(s, e)) = Len(s) + 1
         /\ Append(s, e)[Len(s) + 1] = e
         /\ \A i \in 1 .. Len(s) : Append(s, e)[i] = s[i]
         /\ Append(s, e) # <<>>
<1> DEFINE S == ToSet(s) \cup {e}
<1>1. s \in Seq(S)
  <2>1. Len(s) \in Nat /\ s \in [1 .. Len(s) -> ToSet(s)]
    BY LenProperties DEF IsSequence
  <2> QED
    BY <2>1, SeqDef
<1>2. e \in S
  OBVIOUS
<1> HIDE DEF S
<1>3. Append(s, e) \in Seq(S)
  BY <1>1, <1>2
<1>4. Len(Append(s, e)) = Len(s) + 1
  BY <1>1, <1>2
<1>5. Append(s, e)[Len(s) + 1] = e
  BY <1>1, <1>2
<1>6. \A i \in 1 .. Len(s) : Append(s, e)[i] = s[i]
  BY <1>1, <1>2
<1>7. Append(s, e) # <<>>
  BY <1>1, <1>4, LenProperties, EmptySeq
<1> QED
  BY <1>3, <1>4, <1>5, <1>6, <1>7, SequenceOf

LEMMA PrefixFacts ==
  ASSUME NEW s, IsSequence(s), NEW m \in 0 .. Len(s)
  PROVE  /\ IsSequence(SubSeq(s, 1, m)) /\ Len(SubSeq(s, 1, m)) = m
         /\ \A i \in 1 .. m : SubSeq(s, 1, m)[i] = s[i]
<1>1. Len(s) \in Nat /\ m \in Int /\ m >= 0 /\ 1 \in Int
  BY SequenceFacts
<1>2. \A i \in 1 .. m : s[i] \in ToSet(s)
  BY <1>1, SequenceFacts DEF ToSet
<1>3. /\ SubSeq(s, 1, m) \in Seq(ToSet(s))
      /\ Len(SubSeq(s, 1, m)) = IF 1 <= m THEN m - 1 + 1 ELSE 0
      /\ \A i \in 1 .. m - 1 + 1 : SubSeq(s, 1, m)[i] = s[1 + i - 1]
  BY <1>1, <1>2, SubSeqProperties
<1>4. ASSUME NEW i \in 1 .. m PROVE SubSeq(s, 1, m)[i] = s[i]
  <2>1. i \in 1 .. m - 1 + 1 /\ 1 + i - 1 = i
    BY <1>1
  <2> QED
    BY <1>3, <2>1
<1>5. Len(SubSeq(s, 1, m)) = m
  BY <1>1, <1>3
<1> QED
  BY <1>3, <1>4, <1>5, SequenceOf

-----------------------------------------------------------------------------
(* The stack                                                               *)

LEMMA LinkedEmpty == Linked(<<>>)
<1>1. IsSequence(<<>>)
  BY EmptySeq, SequenceOf
<1> QED
  BY <1>1, EmptySeq DEF Linked

LEMMA LinkedBottom ==
  /\ Linked(<<Bottom>>) /\ <<Bottom>> # <<>>
  /\ Len(<<Bottom>>) = 1 /\ <<Bottom>>[1].major = End
<1>1. <<Bottom>> \in Seq({Bottom}) /\ Len(<<Bottom>>) = 1 /\ <<Bottom>>[1] = Bottom
  OBVIOUS
<1>2. IsSequence(<<Bottom>>)
  BY <1>1, SequenceOf
<1>3. Bottom.stateno = 1 /\ Bottom.major = End
  BY DEF Bottom, Entry
<1>4. 1 \in StateNumbers
  BY TablesAssumption
<1>5. <<Bottom>> # <<>>
  BY <1>1, EmptySeq
<1> HIDE DEF Bottom
<1> QED
  BY <1>1, <1>2, <1>3, <1>4, <1>5 DEF Linked

LEMMA LinkedPush ==
  ASSUME NEW stack, Linked(stack), stack # <<>>, NEW e,
         Advances(Last(stack).stateno, e.major, e.stateno)
  PROVE  Linked(Append(stack, e))
<1> DEFINE len == Len(stack)
<1>1. IsSequence(stack) /\ len \in Nat \ {0} /\ Last(stack) = stack[len]
  BY SequenceFacts DEF Linked
<1>2. /\ IsSequence(Append(stack, e)) /\ Len(Append(stack, e)) = len + 1
      /\ Append(stack, e)[len + 1] = e
      /\ \A i \in 1 .. len : Append(stack, e)[i] = stack[i]
  BY <1>1, AppendFacts
<1>3. e.stateno \in StateNumbers
  BY DEF Advances
<1> HIDE DEF len
<1>4. Append(stack, e)[1] = stack[1]
  BY <1>1, <1>2
<1>5. stack[1].stateno = 1 /\ stack[1].major = End
  BY DEF Linked
<1>6. ASSUME NEW i \in 1 .. len + 1 PROVE Append(stack, e)[i].stateno \in StateNumbers
  <2>1. CASE i = len + 1
    BY <1>2, <1>3, <2>1
  <2>2. CASE i \in 1 .. len
    BY <1>2, <2>2 DEF Linked, len
  <2>3. i = len + 1 \/ i \in 1 .. len
    BY <1>1
  <2> QED
    BY <2>1, <2>2, <2>3
<1>7. ASSUME NEW i \in 2 .. len + 1
      PROVE  Advances(Append(stack, e)[i - 1].stateno, Append(stack, e)[i].major,
                      Append(stack, e)[i].stateno)
  <2>1. i - 1 \in 1 .. len /\ Append(stack, e)[i - 1] = stack[i - 1]
    BY <1>1, <1>2
  <2>2. CASE i = len + 1
    <3>1. i - 1 = len
      BY <1>1, <2>2
    <3> QED
      BY <1>1, <1>2, <2>1, <2>2, <3>1
  <2>3. CASE i \in 2 .. len
    <3>1. Append(stack, e)[i] = stack[i]
      BY <1>2, <2>3
    <3>2. Advances(stack[i - 1].stateno, stack[i].major, stack[i].stateno)
      BY <2>3 DEF Linked, len
    <3> QED
      BY <2>1, <3>1, <3>2
  <2>4. i = len + 1 \/ i \in 2 .. len
    BY <1>1
  <2> QED
    BY <2>2, <2>3, <2>4
<1> QED
  BY <1>2, <1>4, <1>5, <1>6, <1>7 DEF Linked

\* What is left of the stack when what lies above the m-th entry is popped.
LEMMA LinkedPop ==
  ASSUME NEW stack, Linked(stack), NEW m \in 1 .. Len(stack)
  PROVE  /\ Linked(SubSeq(stack, 1, m)) /\ SubSeq(stack, 1, m) # <<>>
         /\ Last(SubSeq(stack, 1, m)) = stack[m] /\ Len(SubSeq(stack, 1, m)) = m
<1> DEFINE left == SubSeq(stack, 1, m)
<1>1. IsSequence(stack) /\ Len(stack) \in Nat /\ m \in 0 .. Len(stack)
  BY SequenceFacts DEF Linked
<1>2. IsSequence(left) /\ Len(left) = m /\ \A i \in 1 .. m : left[i] = stack[i]
  BY <1>1, PrefixFacts
<1> HIDE DEF left
<1>3. left # <<>> /\ Last(left) = stack[m]
  BY <1>1, <1>2, SequenceFacts
<1>4. stack # <<>>
  BY <1>1, SequenceFacts
<1>5. left[1].stateno = 1 /\ left[1].major = End
  BY <1>1, <1>2, <1>4 DEF Linked
<1>6. \A i \in 1 .. m : left[i].stateno \in StateNumbers
  BY <1>1, <1>2 DEF Linked
<1>7. ASSUME NEW i \in 2 .. m
      PROVE  Advances(left[i - 1].stateno, left[i].major, left[i].stateno)
  <2>1. i \in 2 .. Len(stack) /\ i \in 1 .. m /\ i - 1 \in 1 .. m
    BY <1>1
  <2>2. Advances(stack[i - 1].stateno, stack[i].major, stack[i].stateno)
    BY <2>1 DEF Linked
  <2> QED
    BY <1>2, <2>1, <2>2
<1>8. Linked(left)
  BY <1>2, <1>5, <1>6, <1>7 DEF Linked
<1> QED
  BY <1>2, <1>3, <1>8 DEF left

OnTop(stack, rhs) ==
  /\ Len(rhs) < Len(stack)
  /\ \A i \in 1 .. Len(rhs) : stack[Len(stack) - Len(rhs) + i].major = rhs[i]

\* A rule that the topmost state completes lies on the stack, above a state
\* that begins it.
LEMMA HandleOnTop ==
  ASSUME NEW stack, Linked(stack), stack # <<>>,
         NEW r \in DOMAIN Rules, Len(Rhs(r)) \in Nat, Completes(Last(stack).stateno, r)
  PROVE  /\ OnTop(stack, Rhs(r))
         /\ <<r, 0>> \in Items[stack[Len(stack) - Len(Rhs(r))].stateno]
<1> DEFINE n == Len(Rhs(r))
           len == Len(stack)
           Read(k) ==
             /\ k < len /\ <<r, n - k>> \in Items[stack[len - k].stateno]
             /\ k > 0 => stack[len - k + 1].major = Rhs(r)[n - k + 1]
<1>1. n \in Nat /\ len \in Nat \ {0} /\ Last(stack) = stack[len]
  BY SequenceFacts DEF Linked
<1>2. <<r, n>> \in Items[stack[len].stateno]
  BY <1>1 DEF Completes
<1>3. \A i \in 2 .. len : Advances(stack[i - 1].stateno, stack[i].major, stack[i].stateno)
  BY DEF Linked
<1>4. stack[1].stateno = 1
  BY DEF Linked
<1> HIDE DEF n, len
<1>5. Read(0)
  <2>1. n - 0 = n /\ len - 0 = len
    BY <1>1
  <2> QED
    BY <1>1, <1>2, <2>1
<1>6. ASSUME NEW k \in 0 .. n - 1, Read(k) PROVE Read(k + 1)
  <2>1. len - k \in 1 .. len /\ n - k \in Nat /\ n - k > 0
    BY <1>1, <1>6
  <2>2. CASE len - k = 1
    <3>1. <<r, n - k>> \in Items[1]
      BY <1>4, <1>6, <2>2
    <3>2. n - k = 0
      BY <3>1, TablesAssumption
    <3> QED
      BY <2>1, <3>2
  <2>3. CASE len - k \in 2 .. len
    <3>1. Advances(stack[len - k - 1].stateno, stack[len - k].major, stack[len - k].stateno)
      BY <1>3, <2>3
    <3>2. /\ Rhs(r)[n - k] = stack[len - k].major
          /\ <<r, n - k - 1>> \in Items[stack[len - k - 1].stateno]
      BY <1>6, <2>1, <3>1 DEF Advances
    <3>3. /\ n - (k + 1) = n - k - 1 /\ len - (k + 1) = len - k - 1 /\ k + 1 < len
          /\ n - (k + 1) + 1 = n - k /\ len - (k + 1) + 1 = len - k
      BY <1>1, <2>3
    <3> QED
      BY <3>2, <3>3
  <2> QED
    BY <2>1, <2>2, <2>3
<1> HIDE DEF Read
<1>7. ASSUME NEW k \in 0 .. n PROVE Read(k)
  <2> DEFINE Unread == {j \in 0 .. n : ~Read(j)}
  <2>1. SUFFICES ASSUME Unread # {} PROVE FALSE
    BY <1>7
  <2>2. PICK x \in Unread : \A y \in Unread : x <= y
    <3>1. Unread \in SUBSET Nat
      BY <1>1
    <3> HIDE DEF Unread
    <3> QED
      BY <2>1, <3>1, SmallestOfNat
  <2>3. x \in 0 .. n /\ ~Read(x) /\ x # 0
    BY <1>5, <2>2
  <2>4. x - 1 \in 0 .. n - 1 /\ x - 1 + 1 = x /\ x - 1 \in 0 .. n /\ ~(x <= x - 1)
    BY <1>1, <2>3
  <2>5. Read(x - 1)
    BY <2>2, <2>4
  <2> QED
    BY <1>6, <2>3, <2>4, <2>5
<1>8. n < len /\ <<r, 0>> \in Items[stack[len - n].stateno]
  <2>1. Read(n) /\ n - n = 0
    BY <1>1, <1>7
  <2> QED
    BY <2>1 DEF Read
<1>9. ASSUME NEW i \in 1 .. n PROVE stack[len - n + i].major = Rhs(r)[i]
  <2>1. /\ n - i + 1 \in 0 .. n /\ n - i + 1 > 0
        /\ len - (n - i + 1) + 1 = len - n + i /\ n - (n - i + 1) + 1 = i
    BY <1>1
  <2>2. Read(n - i + 1)
    BY <1>7, <2>1
  <2> QED
    BY <2>1, <2>2 DEF Read
<1> QED
  BY <1>8, <1>9 DEF n, len, OnTop

-----------------------------------------------------------------------------
(* The grammar: every rule sets aside what the left-hand side stands for   *)
(* and takes back what the right-hand side does.                           *)

\* The symbols that stand for nothing set aside.
PlainSymbols ==
  {"NL", "SEMI", "EOF", "COMMA", "CLASS", "END", "ID", "LT", "TRAIT", "DEF", "CAST",
   "EQUAL", "LP", "RP", "OP0", "OP1", "OP2", "SQUARE", "SELF", "DOT", "NUM", "NIL",
   "TRUE", "FALSE", "IVAR", "LITSTR", "DCOLON", "DOT_DOLLAR", "LSB", "RSB",
   "TUPLE_START", "LIST", "DICT_START", "RB", "PIPE", "NEQUAL", "NOT", "AND", "LB",
   "IF", "ELSE", "RETURN", "RAISE", "UNLESS", "WHILE", "IMPORT", "DOT_NAME", "AS",
   "TRY", "RESCUE", "OP2_SET", "OP1_SET", "OP0_SET", "program", "l1", "last_fin",
   "fin", "l1e", "class", "def", "stmt", "fin_m", "comma", "delim_seq", "class_body",
   "s2", "trait_body", "def_body", "arg", "np_recv", "id_list", "opt_arg",
   "opt_arg_list", "def_name", "def_scope", "lit", "np_arg", "np_arg_list_elems",
   "np_kw_arg", "np_kw_arg_list_elems", "cond", "def_args", "lambda_args", "lambda",
   "trait", "seq", "opt_fin", "np_opt_kw_arg_list"}
StartActs == {"start_class", "start_trait", "start_def", "start_lambda"}
EndActs ==
  {"ast_class", "ast_class_of", "trait", "ast_def", "ast_def_nil", "ast_def_spec",
   "ast_def_spec_nil", "lambda"}
ListEnds ==
  {"send_args", "send_args_index", "self_send_args", "send_indirect_args", "tuple",
   "list", "dict"}
PlainActs ==
  {"add_arg", "add_kw_arg", "and_", "assign", "assign_op", "ast_binop",
   "ast_binop_cs", "ast_false", "ast_nil", "ast_true", "ast_try", "ast_try_of",
   "cast", "dcolon", "def_arg", "def_arg_cast", "def_opt_arg", "if_cond", "if_else",
   "if_raise", "if_ret", "import", "import_as", "import_one", "import_one_as",
   "ivar_assign", "ivar_assign_op", "ivar_read", "lit_str", "named", "none", "not_",
   "not_equal", "number", "raise", "ret", "self", "self_send", "send", "send_attr",
   "send_indirect", "send_set_attr", "seq", "set_top", "string_self", "unless",
   "value", "while_"}

Acts == PlainActs \cup StartActs \cup EndActs \cup {"start_arg_list"} \cup ListEnds
Symbols == PlainSymbols \cup Openers \cup ArgLists

NoneOf(rhs, majors) == \A i \in DOMAIN rhs : rhs[i] \notin majors
OneOf(rhs, majors) == \E i \in DOMAIN rhs : \A j \in DOMAIN rhs : rhs[j] \in majors <=> j = i
\* For a symbol in `majors` something is set aside, which an action in `starts`
\* does and one in `ends` undoes.
Balances(rule, majors, starts, ends) ==
  /\ rule.act \in starts => rule.lhs \in majors /\ NoneOf(rule.rhs, majors)
  /\ rule.act \in ends => rule.lhs \notin majors /\ OneOf(rule.rhs, majors)
  /\ rule.act \notin starts \cup ends =>
       IF rule.lhs \in majors THEN OneOf(rule.rhs, majors) ELSE NoneOf(rule.rhs, majors)
RuleRecords == [lhs : Symbols, rhs : Seq(Symbols), act : Acts, of : Seq(Nat)]
GoodRules ==
  {x \in RuleRecords : /\ Balances(x, Openers, StartActs, EndActs)
                       /\ Balances(x, ArgLists, {"start_arg_list"}, ListEnds)}
PlainRules == [lhs : PlainSymbols, rhs : Seq(PlainSymbols), act : PlainActs, of : Seq(Nat)]

LEMMA Disjoint ==
  /\ PlainSymbols \cap (Openers \cup ArgLists) = {} /\ Openers \cap ArgLists = {}
  /\ PlainActs \cap (StartActs \cup EndActs \cup {"start_arg_list"} \cup ListEnds) = {}
  /\ StartActs \cap (EndActs \cup {"start_arg_list"} \cup ListEnds) = {}
  /\ EndActs \cap ({"start_arg_list"} \cup ListEnds) = {}
  /\ "start_arg_list" \notin ListEnds /\ "none" \in PlainActs
  BY DEF PlainSymbols, Openers, ArgLists, PlainActs, StartActs, EndActs, ListEnds

LEMMA PlainIsGood == PlainRules \subseteq GoodRules
<1> SUFFICES ASSUME NEW x \in PlainRules PROVE x \in GoodRules
  OBVIOUS
<1>1. \A i \in DOMAIN x.rhs : x.rhs[i] \in PlainSymbols
  BY ElementOfSeq, LenProperties DEF PlainRules
<1>2. x.rhs \in Seq(Symbols)
  BY <1>1 DEF PlainRules, Symbols
<1>3. x \in RuleRecords
  BY <1>2 DEF PlainRules, RuleRecords, Symbols, Acts
<1> QED
  BY <1>1, <1>3, Disjoint DEF PlainRules, GoodRules, Balances, NoneOf

LEMMA OpenIsGood ==
  ASSUME NEW lhs \in Openers, NEW rhs \in Seq(PlainSymbols), NEW act \in StartActs,
         NEW of \in Seq(Nat)
  PROVE  Rule(lhs, rhs, act, of) \in GoodRules
<1>1. \A i \in DOMAIN rhs : rhs[i] \in PlainSymbols
  BY ElementOfSeq, LenProperties
<1>2. rhs \in Seq(Symbols)
  BY <1>1 DEF Symbols
<1>3. Rule(lhs, rhs, act, of) \in RuleRecords
  BY <1>2 DEF Rule, RuleRecords, Symbols, Acts
<1> QED
  BY <1>1, <1>3, Disjoint DEF Rule, GoodRules, Balances, NoneOf

LEMMA CloseIsGood ==
  ASSUME NEW lhs \in PlainSymbols, NEW rhs \in Seq(PlainSymbols \cup Openers),
         OneOf(rhs, Openers), NEW act \in EndActs, NEW of \in Seq(Nat)
  PROVE  Rule(lhs, rhs, act, of) \in GoodRules
<1>1. \A i \in DOMAIN rhs : rhs[i] \in PlainSymbols \cup Openers
  BY ElementOfSeq, LenProperties
<1>2. rhs \in Seq(Symbols)
  BY <1>1 DEF Symbols
<1>3. Rule(lhs, rhs, act, of) \in RuleRecords
  BY <1>2 DEF Rule, RuleRecords, Symbols, Acts
<1> QED
  BY <1>1, <1>3, Disjoint DEF Rule, GoodRules, Balances, NoneOf

LEMMA TakeIsGood ==
  ASSUME NEW lhs \in PlainSymbols, NEW rhs \in Seq(PlainSymbols \cup ArgLists),
         OneOf(rhs, ArgLists), NEW act \in ListEnds, NEW of \in Seq(Nat)
  PROVE  Rule(lhs, rhs, act, of) \in GoodRules
<1>1. \A i \in DOMAIN rhs : rhs[i] \in PlainSymbols \cup ArgLists
  BY ElementOfSeq, LenProperties
<1>2. rhs \in Seq(Symbols)
  BY <1>1 DEF Symbols
<1>3. Rule(lhs, rhs, act, of) \in RuleRecords
  BY <1>2 DEF Rule, RuleRecords, Symbols, Acts
<1> QED
  BY <1>1, <1>3, Disjoint DEF Rule, GoodRules, Balances, NoneOf

LEMMA ListIsGood ==
  ASSUME NEW rhs \in Seq(PlainSymbols \cup ArgLists), OneOf(rhs, ArgLists)
  PROVE  Empty_("np_arg_list", rhs) \in GoodRules
<1>1. \A i \in DOMAIN rhs : rhs[i] \in PlainSymbols \cup ArgLists
  BY ElementOfSeq, LenProperties
<1>2. rhs \in Seq(Symbols) /\ <<>> \in Seq(Nat)
  BY <1>1 DEF Symbols
<1>3. "np_arg_list" \in ArgLists
  BY DEF ArgLists
<1>4. Empty_("np_arg_list", rhs) \in RuleRecords
  BY <1>2, <1>3, Disjoint DEF Empty_, Rule, RuleRecords, Symbols, Acts
<1> QED
  BY <1>1, <1>3, <1>4, Disjoint DEF Empty_, Rule, GoodRules, Balances, NoneOf

\* A sequence of rules that begins with another.
LEMMA Joins ==
  ASSUME NEW a \in Seq(GoodRules), NEW b \in Seq(GoodRules)
  PROVE  a \o b \in Seq(GoodRules) /\ (a # <<>> => a \o b # <<>> /\ (a \o b)[1] = a[1])
<1>1. /\ a \o b \in Seq(GoodRules) /\ Len(a \o b) = Len(a) + Len(b)
      /\ \A i \in 1 .. Len(a) + Len(b) : (a \o b)[i] = IF i <= Len(a) THEN a[i] ELSE b[i - Len(a)]
      /\ Len(a) \in Nat /\ Len(b) \in Nat
  BY ConcatProperties, LenProperties
<1>2. ASSUME a # <<>> PROVE a \o b # <<>> /\ (a \o b)[1] = a[1]
  <2>1. Len(a) > 0 /\ Len(a \o b) > 0
    BY <1>1, <1>2, EmptySeq
  <2>2. 1 \in 1 .. Len(a) + Len(b) /\ 1 <= Len(a)
    BY <1>1, <2>1
  <2> QED
    BY <1>1, <2>1, <2>2, EmptySeq
<1> QED
  BY <1>1, <1>2

LEMMA PlainGroups ==
  /\ ProgramRules \in Seq(GoodRules) /\ LiteralRules \in Seq(GoodRules)
  /\ ConditionRules \in Seq(GoodRules) /\ ImportRules \in Seq(GoodRules)
  /\ TryRules \in Seq(GoodRules) /\ AssignRules \in Seq(GoodRules)
<1>1. \A rules \in Seq(PlainRules) : rules \in Seq(GoodRules)
  BY PlainIsGood
<1>2. ProgramRules \in Seq(PlainRules)
  BY DEF ProgramRules, Value, Empty_, Rule, PlainRules, PlainSymbols, PlainActs
<1>3. LiteralRules \in Seq(PlainRules)
  BY DEF LiteralRules, Rule, PlainRules, PlainSymbols, PlainActs
<1>4. ConditionRules \in Seq(PlainRules)
  BY DEF ConditionRules, Value, Rule, PlainRules, PlainSymbols, PlainActs
<1>5. ImportRules \in Seq(PlainRules)
  BY DEF ImportRules, Rule, PlainRules, PlainSymbols, PlainActs
<1>6. TryRules \in Seq(PlainRules)
  BY DEF TryRules, Rule, PlainRules, PlainSymbols, PlainActs
<1>7. AssignRules \in Seq(PlainRules)
  BY DEF AssignRules, Operate, Rule, PlainRules, PlainSymbols, PlainActs
<1> QED
  BY <1>1, <1>2, <1>3, <1>4, <1>5, <1>6, <1>7

LEMMA OpenRules ==
  /\ Rule("class_start", <<"CLASS">>, "start_class", <<>>) \in GoodRules
  /\ Rule("trait_start", <<"TRAIT">>, "start_trait", <<>>) \in GoodRules
  /\ Rule("def_start", <<"DEF">>, "start_def", <<>>) \in GoodRules
  /\ Rule("lambda_start", <<"LB">>, "start_lambda", <<>>) \in GoodRules
<1>1. /\ <<"CLASS">> \in Seq(PlainSymbols) /\ <<"TRAIT">> \in Seq(PlainSymbols)
      /\ <<"DEF">> \in Seq(PlainSymbols) /\ <<"LB">> \in Seq(PlainSymbols)
      /\ <<>> \in Seq(Nat)
  BY DEF PlainSymbols
<1>2. StartActs = {"start_class", "start_trait", "start_def", "start_lambda"}
  BY DEF StartActs
<1>3. Openers = {"class_start", "trait_start", "def_start", "lambda_start"}
  BY DEF Openers
<1> QED
  BY <1>1, <1>2, <1>3, OpenIsGood

LEMMA ClassGroup == ClassRules \in Seq(GoodRules)
<1>1. /\ <<"class_start", "ID", "fin", "class_body">> \in Seq(PlainSymbols \cup Openers)
      /\ <<"class_start", "ID", "LT", "s2", "fin", "class_body">>
           \in Seq(PlainSymbols \cup Openers)
      /\ <<"trait_start", "ID", "fin", "trait_body">> \in Seq(PlainSymbols \cup Openers)
  BY DEF PlainSymbols, Openers
<1>2. /\ OneOf(<<"class_start", "ID", "fin", "class_body">>, Openers)
      /\ OneOf(<<"class_start", "ID", "LT", "s2", "fin", "class_body">>, Openers)
      /\ OneOf(<<"trait_start", "ID", "fin", "trait_body">>, Openers)
  BY DEF OneOf, Openers
<1>3. /\ "class" \in PlainSymbols /\ "trait" \in PlainSymbols
      /\ "ast_class" \in EndActs /\ "ast_class_of" \in EndActs /\ "trait" \in EndActs
      /\ <<2, 4>> \in Seq(Nat) /\ <<2, 4, 6>> \in Seq(Nat)
  BY DEF PlainSymbols, EndActs
<1>4. /\ Rule("class", <<"class_start", "ID", "fin", "class_body">>, "ast_class", <<2, 4>>)
           \in GoodRules
      /\ Rule("class", <<"class_start", "ID", "LT", "s2", "fin", "class_body">>,
              "ast_class_of", <<2, 4, 6>>) \in GoodRules
      /\ Rule("trait", <<"trait_start", "ID", "fin", "trait_body">>, "trait", <<2, 4>>)
           \in GoodRules
  BY <1>1, <1>2, <1>3, CloseIsGood
<1>5. /\ Value("class_body", <<"l1", "fin", "END">>, 1) \in PlainRules
      /\ Value("trait_body", <<"l1", "fin", "END">>, 1) \in PlainRules
  BY DEF Value, Rule, PlainRules, PlainSymbols, PlainActs
<1> QED
  BY <1>4, <1>5, OpenRules, PlainIsGood DEF ClassRules

LEMMA DefGroup == DefRules \in Seq(GoodRules)
<1>1. /\ <<"def_start", "def_name", "def_args", "fin", "def_body">>
           \in Seq(PlainSymbols \cup Openers)
      /\ <<"def_start", "def_name", "def_args", "fin", "END">>
           \in Seq(PlainSymbols \cup Openers)
      /\ <<"def_start", "def_scope", "DOT", "def_args", "fin", "def_body">>
           \in Seq(PlainSymbols \cup Openers)
      /\ <<"def_start", "def_scope", "DOT", "def_args", "fin", "END">>
           \in Seq(PlainSymbols \cup Openers)
  BY DEF PlainSymbols, Openers
<1>2. /\ OneOf(<<"def_start", "def_name", "def_args", "fin", "def_body">>, Openers)
      /\ OneOf(<<"def_start", "def_name", "def_args", "fin", "END">>, Openers)
      /\ OneOf(<<"def_start", "def_scope", "DOT", "def_args", "fin", "def_body">>, Openers)
      /\ OneOf(<<"def_start", "def_scope", "DOT", "def_args", "fin", "END">>, Openers)
  BY DEF OneOf, Openers
<1>3. /\ "def" \in PlainSymbols
      /\ "ast_def" \in EndActs /\ "ast_def_nil" \in EndActs
      /\ "ast_def_spec" \in EndActs /\ "ast_def_spec_nil" \in EndActs
      /\ <<2>> \in Seq(Nat) /\ <<2, 3>> \in Seq(Nat)
      /\ <<2, 5>> \in Seq(Nat) /\ <<2, 3, 6>> \in Seq(Nat)
  BY DEF PlainSymbols, EndActs
<1>4. /\ Rule("def", <<"def_start", "def_name", "def_args", "fin", "def_body">>,
              "ast_def", <<2, 5>>) \in GoodRules
      /\ Rule("def", <<"def_start", "def_name", "def_args", "fin", "END">>,
              "ast_def_nil", <<2>>) \in GoodRules
      /\ Rule("def", <<"def_start", "def_scope", "DOT", "def_args", "fin", "def_body">>,
              "ast_def_spec", <<2, 3, 6>>) \in GoodRules
      /\ Rule("def", <<"def_start", "def_scope", "DOT", "def_args", "fin", "END">>,
              "ast_def_spec_nil", <<2, 3>>) \in GoodRules
  BY <1>1, <1>2, <1>3, CloseIsGood
<1>5. DOMAIN DefRules = 1 .. 24 /\ \A i \in 2 .. 20 : DefRules[i] \in PlainRules
  BY DEF DefRules, Value, Empty_, Rule, PlainRules, PlainSymbols, PlainActs
<1>6. \A i \in 1 .. 24 \ 2 .. 20 : DefRules[i] \in GoodRules
  BY SMTT(30), <1>4, OpenRules DEF DefRules
<1>7. DefRules \in [1 .. 24 -> GoodRules]
  BY SMTT(30), <1>5, <1>6, PlainIsGood DEF DefRules
<1> QED
  BY <1>7, SeqDef

LEMMA LambdaGroup == LambdaRules \in Seq(GoodRules)
<1>1. <<"lambda_start", "lambda_args", "opt_fin", "delim_seq", "RB">>
        \in Seq(PlainSymbols \cup Openers)
  BY DEF PlainSymbols, Openers
<1>2. OneOf(<<"lambda_start", "lambda_args", "opt_fin", "delim_seq", "RB">>, Openers)
  BY DEF OneOf, Openers
<1>3. "lambda" \in PlainSymbols /\ "lambda" \in EndActs /\ <<4>> \in Seq(Nat)
  BY DEF PlainSymbols, EndActs
<1>4. Rule("lambda", <<"lambda_start", "lambda_args", "opt_fin", "delim_seq", "RB">>,
           "lambda", <<4>>) \in GoodRules
  BY <1>1, <1>2, <1>3, CloseIsGood
<1>5. /\ Rule("lambda_args", <<"PIPE", "ID", "PIPE">>, "def_arg", <<2>>) \in PlainRules
      /\ Empty_("lambda_args", <<>>) \in PlainRules
  BY DEF Empty_, Rule, PlainRules, PlainSymbols, PlainActs
<1> QED
  BY <1>4, <1>5, OpenRules, PlainIsGood DEF LambdaRules

LEMMA PairOf ==
  ASSUME NEW S, NEW f \in [1 .. 2 -> S]
  PROVE  f \in Seq(S)
<1>1. 2 \in Nat
  OBVIOUS
<1> QED
  BY <1>1, SeqDef

\* The rules for operators, sends and lists, which s2, arguments and receivers
\* each have.
LEMMA OperatorGroup ==
  ASSUME NEW lhs \in {"np_arg", "s2"}, NEW left \in {"np_arg", "np_recv"},
         NEW op \in {"OP0", "LT", "OP1", "PIPE", "OP2"}
  PROVE  Binary(lhs, left, op) \in Seq(GoodRules) /\ BinaryCs(lhs, left, op) \in Seq(GoodRules)
<1>1. /\ lhs \in PlainSymbols /\ left \in PlainSymbols /\ op \in PlainSymbols
      /\ "np_arg" \in PlainSymbols /\ "LP" \in PlainSymbols /\ "s2" \in PlainSymbols
      /\ "RP" \in PlainSymbols /\ "ast_binop" \in PlainActs /\ "ast_binop_cs" \in PlainActs
  BY DEF PlainSymbols, PlainActs
<1>2. /\ Rule(lhs, <<left, op, "np_arg">>, "ast_binop", <<2, 1, 3>>) \in PlainRules
      /\ Rule(lhs, <<left, op, "LP", "s2", "RP">>, "ast_binop", <<2, 1, 4>>) \in PlainRules
  BY <1>1 DEF Rule, PlainRules
<1> DEFINE both == Binary(lhs, left, op)
<1>3. both \in Seq(PlainRules) /\ both[1] \in PlainRules /\ both[2] \in PlainRules
  BY <1>2 DEF Binary
<1> HIDE DEF both
<1>4. \A x \in PlainRules : [x EXCEPT !.act = "ast_binop_cs"] \in PlainRules
  BY <1>1 DEF PlainRules
<1>5. [i \in 1 .. 2 |-> [both[i] EXCEPT !.act = "ast_binop_cs"]] \in [1 .. 2 -> PlainRules]
  BY <1>3, <1>4
<1>6. BinaryCs(lhs, left, op) \in [1 .. 2 -> PlainRules]
  BY <1>5 DEF BinaryCs, both
<1>7. BinaryCs(lhs, left, op) \in Seq(PlainRules)
  BY <1>6, PairOf
<1> QED
  BY <1>3, <1>7, PlainIsGood DEF both

LEMMA SendGroup ==
  ASSUME NEW nt \in {"np_arg", "np_recv"}
  PROVE  SendRules(nt) \in Seq(GoodRules) /\ SelfSendRules(nt) \in Seq(GoodRules)
<1>1. /\ nt \in PlainSymbols /\ "DOT" \in PlainSymbols /\ "LP" \in PlainSymbols
      /\ "RP" \in PlainSymbols /\ "ID" \in PlainSymbols
      /\ "send_attr" \in PlainActs /\ "send" \in PlainActs /\ "self_send" \in PlainActs
      /\ "send_args" \in ListEnds /\ "self_send_args" \in ListEnds
      /\ <<1>> \in Seq(Nat) /\ <<1, 2>> \in Seq(Nat)
  BY DEF PlainSymbols, PlainActs, ListEnds
<1>2. /\ Rule(nt, <<nt, "DOT">>, "send_attr", <<1, 2>>) \in PlainRules
      /\ Rule(nt, <<nt, "DOT", "LP", "RP">>, "send", <<1, 2>>) \in PlainRules
      /\ Rule(nt, <<"ID", "LP", "RP">>, "self_send", <<1>>) \in PlainRules
  BY <1>1 DEF Rule, PlainRules
<1>3. /\ <<nt, "DOT", "LP", "np_arg_list", "RP">> \in Seq(PlainSymbols \cup ArgLists)
      /\ <<"ID", "LP", "np_arg_list", "RP">> \in Seq(PlainSymbols \cup ArgLists)
  BY <1>1 DEF ArgLists
<1>4. /\ OneOf(<<nt, "DOT", "LP", "np_arg_list", "RP">>, ArgLists)
      /\ OneOf(<<"ID", "LP", "np_arg_list", "RP">>, ArgLists)
  BY DEF OneOf, ArgLists
<1>5. /\ Rule(nt, <<nt, "DOT", "LP", "np_arg_list", "RP">>, "send_args", <<1, 2>>) \in GoodRules
      /\ Rule(nt, <<"ID", "LP", "np_arg_list", "RP">>, "self_send_args", <<1>>) \in GoodRules
  BY <1>1, <1>3, <1>4, TakeIsGood
<1> QED
  BY <1>2, <1>5, PlainIsGood DEF SendRules, SelfSendRules

LEMMA IndirectGroup ==
  ASSUME NEW nt \in {"np_arg", "np_recv"}
  PROVE  IndirectRules(nt) \in Seq(GoodRules) /\ IndexRule(nt) \in GoodRules
<1>1. /\ nt \in PlainSymbols /\ "DCOLON" \in PlainSymbols /\ "DOT_DOLLAR" \in PlainSymbols
      /\ "LP" \in PlainSymbols /\ "RP" \in PlainSymbols /\ "ID" \in PlainSymbols
      /\ "lit" \in PlainSymbols /\ "LSB" \in PlainSymbols /\ "RSB" \in PlainSymbols
      /\ "dcolon" \in PlainActs /\ "send_indirect" \in PlainActs
      /\ "send_indirect_args" \in ListEnds /\ "send_args_index" \in ListEnds
      /\ <<1>> \in Seq(Nat) /\ <<1, 3>> \in Seq(Nat) /\ <<1, 2, 3>> \in Seq(Nat)
  BY DEF PlainSymbols, PlainActs, ListEnds
<1>2. /\ Rule(nt, <<nt, "DCOLON", "ID">>, "dcolon", <<1, 2, 3>>) \in PlainRules
      /\ Rule(nt, <<nt, "DOT_DOLLAR", "lit">>, "send_indirect", <<1, 3>>) \in PlainRules
      /\ Rule(nt, <<nt, "DOT_DOLLAR", "lit", "LP", "RP">>, "send_indirect", <<1, 3>>)
           \in PlainRules
  BY <1>1 DEF Rule, PlainRules
<1>3. /\ <<nt, "DOT_DOLLAR", "lit", "LP", "np_arg_list", "RP">>
           \in Seq(PlainSymbols \cup ArgLists)
      /\ <<nt, "LSB", "np_arg_list", "RSB">> \in Seq(PlainSymbols \cup ArgLists)
  BY <1>1 DEF ArgLists
<1>4. /\ OneOf(<<nt, "DOT_DOLLAR", "lit", "LP", "np_arg_list", "RP">>, ArgLists)
      /\ OneOf(<<nt, "LSB", "np_arg_list", "RSB">>, ArgLists)
  BY DEF OneOf, ArgLists
<1>5. /\ Rule(nt, <<nt, "DOT_DOLLAR", "lit", "LP", "np_arg_list", "RP">>,
              "send_indirect_args", <<1, 3>>) \in GoodRules
      /\ Rule(nt, <<nt, "LSB", "np_arg_list", "RSB">>, "send_args_index", <<1>>) \in GoodRules
  BY <1>1, <1>3, <1>4, TakeIsGood
<1> QED
  BY <1>2, <1>5, PlainIsGood DEF IndirectRules, IndexRule

LEMMA CollectionGroup ==
  ASSUME NEW nt \in {"np_arg", "np_recv"}
  PROVE  CollectionRules(nt) \in Seq(GoodRules)
<1>1. /\ nt \in PlainSymbols
      /\ "tuple" \in ListEnds /\ "list" \in ListEnds /\ "dict" \in ListEnds
      /\ <<>> \in Seq(Nat)
  BY DEF PlainSymbols, ListEnds
<1>2. /\ <<"TUPLE_START", "np_arg_list", "RP">> \in Seq(PlainSymbols \cup ArgLists)
      /\ <<"LIST", "np_arg_list", "RSB">> \in Seq(PlainSymbols \cup ArgLists)
      /\ <<"DICT_START", "np_arg_list", "RB">> \in Seq(PlainSymbols \cup ArgLists)
  BY DEF PlainSymbols, ArgLists
<1>3. /\ OneOf(<<"TUPLE_START", "np_arg_list", "RP">>, ArgLists)
      /\ OneOf(<<"LIST", "np_arg_list", "RSB">>, ArgLists)
      /\ OneOf(<<"DICT_START", "np_arg_list", "RB">>, ArgLists)
  BY DEF OneOf, ArgLists
<1>4. /\ Rule(nt, <<"TUPLE_START", "np_arg_list", "RP">>, "tuple", <<>>) \in GoodRules
      /\ Rule(nt, <<"LIST", "np_arg_list", "RSB">>, "list", <<>>) \in GoodRules
      /\ Rule(nt, <<"DICT_START", "np_arg_list", "RB">>, "dict", <<>>) \in GoodRules
  BY <1>1, <1>2, <1>3, TakeIsGood
<1> QED
  BY <1>4 DEF CollectionRules

LEMMA ArgGroup == ArgRules \in Seq(GoodRules)
<1>1. /\ <<Value("np_arg", <<"lit">>, 1)>> \in Seq(PlainRules)
      /\ <<Rule("np_arg", <<"np_arg", "CAST", "np_arg">>, "cast", <<1, 3>>),
           Rule("np_arg", <<"np_arg", "NEQUAL", "np_arg">>, "not_equal", <<1, 3>>)>>
           \in Seq(PlainRules)
      /\ Rule("np_arg", <<"NOT", "np_arg">>, "not_", <<2>>) \in PlainRules
      /\ Value("np_arg", <<"lambda">>, 1) \in PlainRules
  BY DEF Value, Rule, PlainRules, PlainSymbols, PlainActs
<1>2. /\ <<Value("np_arg", <<"lit">>, 1)>> \in Seq(GoodRules)
      /\ <<Rule("np_arg", <<"np_arg", "CAST", "np_arg">>, "cast", <<1, 3>>),
           Rule("np_arg", <<"np_arg", "NEQUAL", "np_arg">>, "not_equal", <<1, 3>>)>>
           \in Seq(GoodRules)
      /\ <<Rule("np_arg", <<"NOT", "np_arg">>, "not_", <<2>>),
           Value("np_arg", <<"lambda">>, 1), IndexRule("np_arg")>> \in Seq(GoodRules)
  BY <1>1, PlainIsGood, IndirectGroup
<1>3. \A op \in {"OP0", "LT", "OP1", "PIPE", "OP2"} :
        /\ Binary("np_arg", "np_arg", op) \in Seq(GoodRules)
        /\ BinaryCs("np_arg", "np_arg", op) \in Seq(GoodRules)
  BY OperatorGroup
<1>4. /\ SendRules("np_arg") \in Seq(GoodRules) /\ SelfSendRules("np_arg") \in Seq(GoodRules)
      /\ IndirectRules("np_arg") \in Seq(GoodRules)
      /\ CollectionRules("np_arg") \in Seq(GoodRules)
  BY SendGroup, IndirectGroup, CollectionGroup
<1>5. \A a, b \in Seq(GoodRules) : a \o b \in Seq(GoodRules)
  BY Joins
<1> QED
  BY <1>2, <1>3, <1>4, <1>5 DEF ArgRules

LEMMA ArgListGroup == ArgListRules \in Seq(GoodRules)
<1>1. Rule("np_arg_list_start", <<>>, "start_arg_list", <<>>) \in GoodRules
  BY Disjoint DEF Rule, GoodRules, RuleRecords, Balances, NoneOf, Symbols, Acts, ArgLists, Openers
<1>2. /\ <<"np_arg_list_start", "np_arg_list_elems", "np_opt_kw_arg_list">>
           \in Seq(PlainSymbols \cup ArgLists)
      /\ <<"np_arg_list_start", "np_kw_arg_list_elems">> \in Seq(PlainSymbols \cup ArgLists)
  BY DEF PlainSymbols, ArgLists
<1>3. /\ OneOf(<<"np_arg_list_start", "np_arg_list_elems", "np_opt_kw_arg_list">>, ArgLists)
      /\ OneOf(<<"np_arg_list_start", "np_kw_arg_list_elems">>, ArgLists)
  BY DEF OneOf, ArgLists
<1>4. /\ Empty_("np_arg_list",
                <<"np_arg_list_start", "np_arg_list_elems", "np_opt_kw_arg_list">>) \in GoodRules
      /\ Empty_("np_arg_list", <<"np_arg_list_start", "np_kw_arg_list_elems">>) \in GoodRules
  BY <1>2, <1>3, ListIsGood
<1>5. DOMAIN ArgListRules = 1 .. 10 /\ \A i \in 2 .. 8 : ArgListRules[i] \in PlainRules
  BY DEF ArgListRules, Empty_, Rule, PlainRules, PlainSymbols, PlainActs
<1>6. \A i \in 1 .. 10 \ 2 .. 8 : ArgListRules[i] \in GoodRules
  BY <1>1, <1>4 DEF ArgListRules
<1>7. ArgListRules \in [1 .. 10 -> GoodRules]
  BY <1>5, <1>6, PlainIsGood DEF ArgListRules
<1> QED
  BY <1>7, SeqDef

LEMMA RecvGroup == RecvRules \in Seq(GoodRules)
<1>1. /\ Value("np_recv", <<"lit">>, 1) \in PlainRules
      /\ Value("np_recv", <<"lambda">>, 1) \in PlainRules
      /\ Value("np_recv", <<"LP", "s2", "RP">>, 2) \in PlainRules
  BY DEF Value, Rule, PlainRules, PlainSymbols, PlainActs
<1>2. /\ <<Value("np_recv", <<"lit">>, 1)>> \in Seq(GoodRules)
      /\ <<Value("np_recv", <<"lambda">>, 1)>> \in Seq(GoodRules)
      /\ <<IndexRule("np_recv"), Value("np_recv", <<"LP", "s2", "RP">>, 2)>> \in Seq(GoodRules)
  BY <1>1, PlainIsGood, IndirectGroup
<1>3. /\ SendRules("np_recv") \in Seq(GoodRules) /\ SelfSendRules("np_recv") \in Seq(GoodRules)
      /\ IndirectRules("np_recv") \in Seq(GoodRules)
      /\ CollectionRules("np_recv") \in Seq(GoodRules)
  BY SendGroup, IndirectGroup, CollectionGroup
<1>4. \A a, b \in Seq(GoodRules) : a \o b \in Seq(GoodRules)
  BY Joins
<1> QED
  BY <1>2, <1>3, <1>4 DEF RecvRules

LEMMA ExpressionGroup == ExpressionRules \in Seq(GoodRules)
<1>1. /\ "s2" \in PlainSymbols /\ "send_args" \in ListEnds
      /\ "send_indirect_args" \in ListEnds /\ "self_send_args" \in ListEnds
      /\ <<1, 2>> \in Seq(Nat) /\ <<1, 3>> \in Seq(Nat) /\ <<1>> \in Seq(Nat)
  BY DEF PlainSymbols, ListEnds
<1>2. /\ <<"np_recv", "DOT", "np_arg_list">> \in Seq(PlainSymbols \cup ArgLists)
      /\ <<"np_recv", "DOT_DOLLAR", "lit", "np_arg_list">> \in Seq(PlainSymbols \cup ArgLists)
      /\ <<"ID", "np_arg_list">> \in Seq(PlainSymbols \cup ArgLists)
  BY DEF PlainSymbols, ArgLists
<1>3. /\ OneOf(<<"np_recv", "DOT", "np_arg_list">>, ArgLists)
      /\ OneOf(<<"np_recv", "DOT_DOLLAR", "lit", "np_arg_list">>, ArgLists)
      /\ OneOf(<<"ID", "np_arg_list">>, ArgLists)
  BY DEF OneOf, ArgLists
<1>4. /\ Rule("s2", <<"np_recv", "DOT", "np_arg_list">>, "send_args", <<1, 2>>) \in GoodRules
      /\ Rule("s2", <<"np_recv", "DOT_DOLLAR", "lit", "np_arg_list">>,
              "send_indirect_args", <<1, 3>>) \in GoodRules
      /\ Rule("s2", <<"ID", "np_arg_list">>, "self_send_args", <<1>>) \in GoodRules
  BY <1>1, <1>2, <1>3, TakeIsGood
<1>5. Rule("s2", <<"np_recv", "CAST", "np_arg">>, "cast", <<1, 3>>) \in GoodRules
  <2>1. Rule("s2", <<"np_recv", "CAST", "np_arg">>, "cast", <<1, 3>>) \in PlainRules
    BY DEF Rule, PlainRules, PlainSymbols, PlainActs
  <2> QED
    BY <2>1, PlainIsGood
<1>6. <<Rule("s2", <<"np_recv", "NEQUAL", "np_arg">>, "not_equal", <<1, 3>>),
        Value("s2", <<"np_recv">>, 1), Rule("s2", <<"NOT", "s2">>, "not_", <<2>>),
        Rule("s2", <<"np_recv", "AND", "np_arg">>, "and_", <<1, 3>>),
        Rule("s2", <<"np_recv", "DOT", "EQUAL", "s2">>, "send_set_attr", <<1, 2, 4>>),
        Value("stmt", <<"s2">>, 1)>> \in Seq(GoodRules)
  <2>1. <<Rule("s2", <<"np_recv", "NEQUAL", "np_arg">>, "not_equal", <<1, 3>>),
          Value("s2", <<"np_recv">>, 1), Rule("s2", <<"NOT", "s2">>, "not_", <<2>>),
          Rule("s2", <<"np_recv", "AND", "np_arg">>, "and_", <<1, 3>>),
          Rule("s2", <<"np_recv", "DOT", "EQUAL", "s2">>, "send_set_attr", <<1, 2, 4>>),
          Value("stmt", <<"s2">>, 1)>> \in Seq(PlainRules)
    BY DEF Value, Rule, PlainRules, PlainSymbols, PlainActs
  <2> QED
    BY <2>1, PlainIsGood
<1>7. \A op \in {"OP0", "LT", "OP1", "PIPE", "OP2"} :
        Binary("s2", "np_recv", op) \in Seq(GoodRules)
  BY OperatorGroup
<1>8. \A a, b \in Seq(GoodRules) : a \o b \in Seq(GoodRules)
  BY Joins
<1> QED
  BY <1>4, <1>5, <1>6, <1>7, <1>8 DEF ExpressionRules

\* Every rule of the grammar is good, and the rule of the start symbol is plain.
LEMMA GrammarFacts ==
  /\ Rules \in Seq(GoodRules)
  /\ \A r \in DOMAIN Rules : Rules[r] \in GoodRules /\ Len(Rhs(r)) \in Nat
  /\ Start = "program"
<1>1. ProgramRules # <<>> /\ ProgramRules[1].lhs = "program"
  BY DEF ProgramRules, Rule
<1> DEFINE R1 == ProgramRules \o ClassRules
           R2 == R1 \o DefRules
           R3 == R2 \o LiteralRules
           R4 == R3 \o ArgRules
           R5 == R4 \o ArgListRules
           R6 == R5 \o RecvRules
           R7 == R6 \o ExpressionRules
           R8 == R7 \o LambdaRules
           R9 == R8 \o ConditionRules
           R10 == R9 \o ImportRules
           R11 == R10 \o TryRules
           R12 == R11 \o AssignRules
           Begun(x) == x \in Seq(GoodRules) /\ x # <<>> /\ x[1].lhs = "program"
<1>2. Rules = R12
  BY DEF Rules
<1>3. ASSUME NEW a, NEW b \in Seq(GoodRules), Begun(a) PROVE Begun(a \o b)
  BY <1>3, Joins
<1>4. Begun(ProgramRules)
  BY <1>1, PlainGroups
<1> HIDE DEF Begun
<1>5. Begun(R1) /\ Begun(R2) /\ Begun(R3) /\ Begun(R4)
  BY <1>3, <1>4, ClassGroup, DefGroup, PlainGroups, ArgGroup
<1>6. Begun(R5) /\ Begun(R6) /\ Begun(R7) /\ Begun(R8)
  <2> HIDE DEF R4
  <2> QED
    BY <1>3, <1>5, ArgListGroup, RecvGroup, ExpressionGroup, LambdaGroup
<1>7. Begun(R9) /\ Begun(R10) /\ Begun(R11) /\ Begun(R12)
  <2> HIDE DEF R8
  <2> QED
    BY <1>3, <1>6, PlainGroups
<1> HIDE DEF R12
<1>8. Rules \in Seq(GoodRules) /\ Rules[1].lhs = "program"
  BY <1>2, <1>7 DEF Begun
<1>9. ASSUME NEW r \in DOMAIN Rules PROVE Rules[r] \in GoodRules /\ Len(Rhs(r)) \in Nat
  <2>1. Rules[r] \in GoodRules
    BY <1>8, ElementOfSeq, LenProperties
  <2>2. Rules[r].rhs \in Seq(Symbols)
    BY <2>1 DEF GoodRules, RuleRecords
  <2> QED
    BY <2>1, <2>2, LenProperties DEF Rhs
<1> QED
  BY <1>8, <1>9 DEF Start

-----------------------------------------------------------------------------
(* The actions                                                             *)

Fields == {"context", "stack", "arg_info", "arg_infos", "syntax_error", "top", "line"}
\* The actions that write to the context or the list being read, or to the top.
Writers == {"set_top", "def_arg", "def_arg_cast", "def_opt_arg", "add_arg", "add_kw_arg"}

Typed(p) == Fields \subseteq DOMAIN p /\ IsSequence(p.stack) /\ IsSequence(p.arg_infos)
Change(act, starts, ends) == IF act \in starts THEN 1 ELSE IF act \in ends THEN -1 ELSE 0

LEMMA FrontFacts ==
  ASSUME NEW s, IsSequence(s), s # <<>>
  PROVE  IsSequence(Front(s)) /\ Len(Front(s)) = Len(s) - 1
<1>1. Len(s) \in Nat \ {0}
  BY SequenceFacts
<1>2. Len(s) - 1 \in 0 .. Len(s)
  BY <1>1
<1> QED
  BY <1>2, PrefixFacts DEF Front

LEMMA PlainActsFacts ==
  ASSUME NEW act \in PlainActs, NEW a, NEW p, Fields \subseteq DOMAIN p,
         NEW q, q = Actions(act, a, p).ps
  PROVE  /\ DOMAIN q = DOMAIN p /\ q.syntax_error = p.syntax_error
         /\ q.stack = p.stack /\ q.arg_infos = p.arg_infos
<1>1. CASE act \in Writers
  BY <1>1 DEF Actions, Gives, SetTop, AddArgument, AddArg, AddKwArg, Fields, Writers
<1>2. CASE act \in PlainActs \ Writers
  <2>1. q = p
    BY ZenonT(60), <1>2 DEF Actions, Gives, ImportAs, ImportOneAs, SelfSend, PlainActs, Writers
  <2> QED
    BY <2>1
<1> QED
  BY <1>1, <1>2

LEMMA StartActsFacts ==
  ASSUME NEW act \in StartActs, NEW a, NEW p, Fields \subseteq DOMAIN p,
         NEW q, q = Actions(act, a, p).ps
  PROVE  /\ DOMAIN q = DOMAIN p /\ q.syntax_error = p.syntax_error
         /\ q.stack = Append(p.stack, p.context) /\ q.arg_infos = p.arg_infos
BY DEF Actions, Gives, StartContext, StartActs, Fields

LEMMA EndActsFacts ==
  ASSUME NEW act \in EndActs, NEW a, NEW p, Fields \subseteq DOMAIN p,
         NEW q, q = Actions(act, a, p).ps
  PROVE  /\ DOMAIN q = DOMAIN p /\ q.syntax_error = p.syntax_error
         /\ q.stack = Front(p.stack) /\ q.arg_infos = p.arg_infos
BY ZenonT(60), Disjoint DEF Actions, Gives, EndContext, EndActs, Fields, AstClass, AstTrait,
                AstDef, AstDefSpec, AstLambda

LEMMA ListStartFacts ==
  ASSUME NEW a, NEW p, Fields \subseteq DOMAIN p, NEW q, q = Actions("start_arg_list", a, p).ps
  PROVE  /\ DOMAIN q = DOMAIN p /\ q.syntax_error = p.syntax_error
         /\ q.stack = p.stack /\ q.arg_infos = Append(p.arg_infos, p.arg_info)
BY DEF Actions, Gives, StartArgList, Fields

LEMMA ListEndFacts ==
  ASSUME NEW act \in ListEnds, NEW a, NEW p, Fields \subseteq DOMAIN p,
         NEW q, q = Actions(act, a, p).ps
  PROVE  /\ DOMAIN q = DOMAIN p /\ q.syntax_error = p.syntax_error
         /\ q.stack = p.stack /\ q.arg_infos = Front(p.arg_infos)
BY Disjoint DEF Actions, Gives, EndArgList, ListEnds, Fields, SendArgs, SelfSendArgs,
                SendIndirectArgs, EndTuple, EndList, EndDict

\* What an action leaves set aside.
LEMMA ActionFacts ==
  ASSUME NEW act \in Acts, NEW a, NEW p, Typed(p), NEW q, q = Actions(act, a, p).ps,
         act \in EndActs => p.stack # <<>>, act \in ListEnds => p.arg_infos # <<>>
  PROVE  /\ Typed(q) /\ q.syntax_error = p.syntax_error
         /\ Len(q.stack) = Len(p.stack) + Change(act, StartActs, EndActs)
         /\ Len(q.arg_infos) = Len(p.arg_infos) + Change(act, {"start_arg_list"}, ListEnds)
<1>1. Fields \subseteq DOMAIN p /\ IsSequence(p.stack) /\ IsSequence(p.arg_infos)
  BY DEF Typed
<1>2. Len(p.stack) \in Nat /\ Len(p.arg_infos) \in Nat
  BY <1>1, SequenceFacts
<1>3. CASE act \in PlainActs
  <2>1. /\ DOMAIN q = DOMAIN p /\ q.syntax_error = p.syntax_error
        /\ q.stack = p.stack /\ q.arg_infos = p.arg_infos
    BY <1>1, <1>3, PlainActsFacts
  <2>2. /\ Change(act, StartActs, EndActs) = 0
        /\ Change(act, {"start_arg_list"}, ListEnds) = 0
    BY <1>3, Disjoint DEF Change
  <2> QED
    BY <1>1, <1>2, <2>1, <2>2 DEF Typed
<1>4. CASE act \in StartActs
  <2>1. /\ DOMAIN q = DOMAIN p /\ q.syntax_error = p.syntax_error
        /\ q.stack = Append(p.stack, p.context) /\ q.arg_infos = p.arg_infos
    BY <1>1, <1>4, StartActsFacts
  <2>2. IsSequence(q.stack) /\ Len(q.stack) = Len(p.stack) + 1
    BY <1>1, <2>1, AppendFacts
  <2>3. /\ Change(act, StartActs, EndActs) = 1
        /\ Change(act, {"start_arg_list"}, ListEnds) = 0
    BY <1>4, Disjoint DEF Change
  <2> QED
    BY <1>1, <1>2, <2>1, <2>2, <2>3 DEF Typed
<1>5. CASE act \in EndActs
  <2>1. /\ DOMAIN q = DOMAIN p /\ q.syntax_error = p.syntax_error
        /\ q.stack = Front(p.stack) /\ q.arg_infos = p.arg_infos
    BY <1>1, <1>5, EndActsFacts
  <2>2. IsSequence(q.stack) /\ Len(q.stack) = Len(p.stack) - 1
    BY <1>1, <1>5, <2>1, FrontFacts
  <2>3. /\ Change(act, StartActs, EndActs) = -1
        /\ Change(act, {"start_arg_list"}, ListEnds) = 0
    BY <1>5, Disjoint DEF Change
  <2> QED
    BY <1>1, <1>2, <2>1, <2>2, <2>3 DEF Typed
<1>6. CASE act = "start_arg_list"
  <2>1. /\ DOMAIN q = DOMAIN p /\ q.syntax_error = p.syntax_error
        /\ q.stack = p.stack /\ q.arg_infos = Append(p.arg_infos, p.arg_info)
    BY <1>1, <1>6, ListStartFacts
  <2>2. IsSequence(q.arg_infos) /\ Len(q.arg_infos) = Len(p.arg_infos) + 1
    BY <1>1, <2>1, AppendFacts
  <2>3. /\ Change(act, StartActs, EndActs) = 0
        /\ Change(act, {"start_arg_list"}, ListEnds) = 1
    BY <1>6, Disjoint DEF Change
  <2> QED
    BY <1>1, <1>2, <2>1, <2>2, <2>3 DEF Typed
<1>7. CASE act \in ListEnds
  <2>1. /\ DOMAIN q = DOMAIN p /\ q.syntax_error = p.syntax_error
        /\ q.stack = p.stack /\ q.arg_infos = Front(p.arg_infos)
    BY <1>1, <1>7, ListEndFacts
  <2>2. IsSequence(q.arg_infos) /\ Len(q.arg_infos) = Len(p.arg_infos) - 1
    BY <1>1, <1>7, <2>1, FrontFacts
  <2>3. /\ Change(act, StartActs, EndActs) = 0
        /\ Change(act, {"start_arg_list"}, ListEnds) = -1
    BY <1>7, Disjoint DEF Change
  <2> QED
    BY <1>1, <1>2, <2>1, <2>2, <2>3 DEF Typed
<1> QED
  BY <1>3, <1>4, <1>5, <1>6, <1>7 DEF Acts

-----------------------------------------------------------------------------
(* Counting                                                                *)

Places(stack, majors) == {i \in 1 .. Len(stack) : stack[i].major \in majors}

Weight(symbol, majors) == IF symbol \in majors THEN 1 ELSE 0

LEMMA AmongFacts ==
  ASSUME NEW stack, IsSequence(stack), NEW majors
  PROVE  /\ Among(stack, majors) = Cardinality(Places(stack, majors))
         /\ IsFiniteSet(Places(stack, majors)) /\ Among(stack, majors) \in Nat
         /\ Places(stack, majors) = {} => Among(stack, majors) = 0
<1>1. Len(stack) \in Nat /\ DOMAIN stack = 1 .. Len(stack)
  BY SequenceFacts
<1>2. Among(stack, majors) = Cardinality(Places(stack, majors))
  BY <1>1 DEF Among, Places
<1>3. IsFiniteSet(1 .. Len(stack)) /\ Places(stack, majors) \in SUBSET (1 .. Len(stack))
  BY <1>1, FS_Interval DEF Places
<1>4. IsFiniteSet(Places(stack, majors))
  BY <1>3, FS_Subset
<1> QED
  BY <1>2, <1>4, FS_CardinalityType, FS_EmptySet

LEMMA AmongAppend ==
  ASSUME NEW stack, IsSequence(stack), NEW majors, NEW e
  PROVE  Among(Append(stack, e), majors)
           = Among(stack, majors) + Weight(e.major, majors)
<1> DEFINE len == Len(stack)
           more == Append(stack, e)
           S == Places(stack, majors)
<1>1. len \in Nat
  BY SequenceFacts
<1>2. /\ IsSequence(more) /\ Len(more) = len + 1 /\ more[len + 1] = e
      /\ \A i \in 1 .. len : more[i] = stack[i]
  BY AppendFacts
<1> HIDE DEF more
<1>3. Places(more, majors) = IF e.major \in majors THEN S \cup {len + 1} ELSE S
  BY <1>1, <1>2 DEF Places
<1>4. len + 1 \notin S
  BY <1>1 DEF Places
<1>5. /\ Among(stack, majors) = Cardinality(S) /\ IsFiniteSet(S) /\ Cardinality(S) \in Nat
      /\ Among(more, majors) = Cardinality(Places(more, majors))
  BY <1>2, AmongFacts
<1> HIDE DEF S, len
<1>6. Cardinality(S \cup {len + 1}) = Cardinality(S) + 1
  BY <1>4, <1>5, FS_AddElement
<1> QED
  BY <1>3, <1>5, <1>6 DEF more, Weight

\* The places that are left when the upper n are taken away.
LEMMA PlacesLeft ==
  ASSUME NEW m \in Nat, NEW n \in Nat, NEW S \in SUBSET (1 .. m + n),
         NEW rhs, DOMAIN rhs = 1 .. n, NEW majors,
         \A i \in 1 .. n : m + i \in S <=> rhs[i] \in majors
  PROVE  /\ NoneOf(rhs, majors) => S \cap (1 .. m) = S
         /\ OneOf(rhs, majors) => \E k \in S : S \cap (1 .. m) = S \ {k}
<1>1. ASSUME NEW k \in S, k \notin 1 .. m PROVE \E i \in 1 .. n : k = m + i
  <2>1. k \in 1 .. m + n
    OBVIOUS
  <2>2. k - m \in 1 .. n /\ k = m + (k - m)
    BY <1>1, <2>1
  <2> QED
    BY <2>2
<1>2. ASSUME NoneOf(rhs, majors) PROVE S \subseteq 1 .. m
  <2>1. ASSUME NEW k \in S, k \notin 1 .. m PROVE FALSE
    BY <1>1, <1>2, <2>1 DEF NoneOf
  <2> QED
    BY <2>1
<1>3. ASSUME OneOf(rhs, majors) PROVE \E k \in S : S \cap (1 .. m) = S \ {k}
  <2>1. PICK i \in DOMAIN rhs : \A j \in DOMAIN rhs : rhs[j] \in majors <=> j = i
    BY <1>3, Zenon DEF OneOf
  <2>2. i \in 1 .. n /\ \A j \in 1 .. n : rhs[j] \in majors <=> j = i
    BY <2>1
  <2>3. m + i \in S /\ m + i \notin 1 .. m
    BY <2>2
  <2>4. ASSUME NEW k \in S, k \notin 1 .. m PROVE k = m + i
    <3>1. PICK j \in 1 .. n : k = m + j
      BY <1>1, <2>4
    <3> QED
      BY <2>2, <2>4, <3>1
  <2> QED
    BY <2>3, <2>4
<1> QED
  BY <1>2, <1>3

\* When a right-hand side is popped.
LEMMA AmongPop ==
  ASSUME NEW stack, IsSequence(stack), NEW rhs \in Seq(Symbols), OnTop(stack, rhs),
         NEW majors, NEW left, left = SubSeq(stack, 1, Len(stack) - Len(rhs))
  PROVE  /\ IsSequence(left) /\ Among(left, majors) \in Nat
         /\ NoneOf(rhs, majors) => Among(left, majors) = Among(stack, majors)
         /\ OneOf(rhs, majors) => Among(left, majors) = Among(stack, majors) - 1
<1> DEFINE n == Len(rhs)
           m == Len(stack) - n
           S == Places(stack, majors)
           P == Places(left, majors)
<1>1. n \in Nat /\ DOMAIN rhs = 1 .. n /\ Len(stack) \in Nat /\ m \in 0 .. Len(stack)
  BY SequenceFacts, LenProperties DEF OnTop
<1>2. IsSequence(left) /\ Len(left) = m /\ \A i \in 1 .. m : left[i] = stack[i]
  BY <1>1, PrefixFacts
<1>3. /\ Among(stack, majors) = Cardinality(S) /\ IsFiniteSet(S) /\ Cardinality(S) \in Nat
      /\ Among(left, majors) = Cardinality(P) /\ Cardinality(P) \in Nat
  BY <1>2, AmongFacts
<1>4. P = S \cap (1 .. m)
  BY <1>1, <1>2 DEF Places
<1>5. m \in Nat /\ m + n = Len(stack) /\ \A i \in 1 .. n : m + i \in 1 .. Len(stack)
  BY <1>1
<1>6. S \in SUBSET (1 .. m + n)
  BY <1>5 DEF Places
<1>7. \A i \in 1 .. n : m + i \in S <=> rhs[i] \in majors
  BY <1>5 DEF Places, OnTop
<1> HIDE DEF n, m, S, P
<1>8. /\ NoneOf(rhs, majors) => P = S
      /\ OneOf(rhs, majors) => \E k \in S : P = S \ {k}
  BY <1>1, <1>4, <1>5, <1>6, <1>7, PlacesLeft
<1>9. OneOf(rhs, majors) => Cardinality(P) = Cardinality(S) - 1
  BY <1>3, <1>8, FS_RemoveElement
<1> QED
  BY <1>2, <1>3, <1>8, <1>9

Apart(starts, ends) == starts \cap ends = {}

Keeps(stack, left, r, majors, starts, ends) ==
  /\ Among(left, majors) + Weight(Rules[r].lhs, majors)
       = Among(stack, majors) + Change(Rules[r].act, starts, ends)
  /\ Rules[r].act \in ends => Among(stack, majors) > 0

\* A reduction sets aside, or takes back, as its action does.
LEMMA RuleBalances ==
  ASSUME NEW stack, IsSequence(stack), NEW r \in DOMAIN Rules, OnTop(stack, Rhs(r)),
         NEW majors, NEW starts, NEW ends, Apart(starts, ends),
         Balances(Rules[r], majors, starts, ends),
         NEW left, left = SubSeq(stack, 1, Len(stack) - Len(Rhs(r)))
  PROVE  Keeps(stack, left, r, majors, starts, ends)
<1>1. Rhs(r) \in Seq(Symbols)
  BY GrammarFacts DEF Rhs, GoodRules, RuleRecords
<1>2. /\ Among(left, majors) \in Nat
      /\ NoneOf(Rhs(r), majors) => Among(left, majors) = Among(stack, majors)
      /\ OneOf(Rhs(r), majors) => Among(left, majors) = Among(stack, majors) - 1
  BY <1>1, AmongPop
<1>3. Among(stack, majors) \in Nat
  BY AmongFacts
<1>4. CASE Rules[r].act \in starts
  BY <1>2, <1>3, <1>4 DEF Balances, Change, Rhs, Weight, Apart, Keeps
<1>5. CASE Rules[r].act \in ends
  BY <1>2, <1>3, <1>5 DEF Balances, Change, Rhs, Weight, Apart, Keeps
<1>6. CASE Rules[r].act \notin starts \cup ends
  BY <1>2, <1>3, <1>6 DEF Balances, Change, Rhs, Weight, Apart, Keeps
<1> QED
  BY <1>4, <1>5, <1>6

-----------------------------------------------------------------------------
(* The steps                                                               *)

StackInv == Linked(yystack) /\ Reads

LEMMA TableFacts ==
  ASSUME NEW s \in StateNumbers, NEW tok \in Terminals
  PROVE  /\ CanGoOn(s)
         /\ ActionTable[s][tok].type = "SHIFT" => Advances(s, tok, ActionTable[s][tok].arg)
         /\ ActionTable[s][tok].type = "REDUCE" => Completes(s, ActionTable[s][tok].arg)
         /\ \A nt \in DOMAIN GotoTable[s] : Advances(s, nt, GotoTable[s][nt])
BY TablesAssumption

LEMMA TopFacts ==
  ASSUME StackInv, ~Idle
  PROVE  /\ yystack # <<>> /\ IsSequence(yystack) /\ Len(yystack) \in Nat \ {0}
         /\ yymajor.major \in Terminals /\ Top.stateno \in StateNumbers
<1>1. yystack # <<>> /\ yymajor.major \in Terminals
  BY DEF Idle, StackInv, Reads
<1>2. IsSequence(yystack)
  BY DEF StackInv, Linked
<1>3. Len(yystack) \in Nat \ {0} /\ Top = yystack[Len(yystack)]
  BY <1>1, <1>2, SequenceFacts DEF Top
<1>4. Len(yystack) \in 1 .. Len(yystack)
  BY <1>3
<1>5. Top.stateno \in StateNumbers
  BY <1>3, <1>4 DEF StackInv, Linked
<1> QED
  BY <1>1, <1>2, <1>3, <1>5

\* Where a rule that is reduced lies, and what is under it.
Handle(r, m, left) ==
  /\ r \in DOMAIN Rules /\ Len(Rhs(r)) \in Nat /\ m \in 1 .. Len(yystack)
  /\ OnTop(yystack, Rhs(r))
  /\ Linked(left) /\ left # <<>> /\ Len(left) = m
  /\ MoveFrom(yystack, r) = <<left, Last(left)>> /\ Last(left).stateno \in StateNumbers
  /\ IF Rules[r].lhs = Start THEN m = 1
     ELSE Rules[r].lhs \in DOMAIN GotoTable[Last(left).stateno]
LEMMA HandleFacts ==
  ASSUME StackInv, ~Idle, Action.type = "REDUCE",
         NEW r, r = Action.arg, NEW m, m = Len(yystack) - Len(Rhs(r)),
         NEW left, left = SubSeq(yystack, 1, m)
  PROVE  Handle(r, m, left)
<1>1. /\ yystack # <<>> /\ IsSequence(yystack) /\ Len(yystack) \in Nat \ {0}
      /\ yymajor.major \in Terminals /\ Top.stateno \in StateNumbers
  BY TopFacts
<1>2. Completes(Top.stateno, r)
  BY <1>1, TableFacts DEF Action
<1>3. r \in DOMAIN Rules /\ Len(Rhs(r)) \in Nat
  BY <1>2, GrammarFacts DEF Completes
<1>4. /\ OnTop(yystack, Rhs(r))
      /\ <<r, 0>> \in Items[yystack[Len(yystack) - Len(Rhs(r))].stateno]
  BY <1>1, <1>2, <1>3, HandleOnTop DEF StackInv, Top
<1>5. m \in 1 .. Len(yystack)
  BY <1>1, <1>3, <1>4 DEF OnTop
<1>6. Linked(left) /\ left # <<>> /\ Len(left) = m /\ Last(left) = yystack[m]
  BY <1>5, LinkedPop DEF StackInv
<1>7. yystack[m].stateno \in StateNumbers
  BY <1>5 DEF StackInv, Linked
<1>8. CanGoOn(yystack[m].stateno)
  BY <1>1, <1>7, TableFacts
<1>9. IF Rules[r].lhs = Start THEN yystack[m].stateno = 1
      ELSE Rules[r].lhs \in DOMAIN GotoTable[yystack[m].stateno]
  BY <1>4, <1>8 DEF CanGoOn
<1>10. ASSUME yystack[m].stateno = 1 PROVE m = 1
  <2>1. SUFFICES ASSUME m \in 2 .. Len(yystack) PROVE FALSE
    BY <1>5
  <2>2. Advances(yystack[m - 1].stateno, yystack[m].major, yystack[m].stateno)
    BY <2>1 DEF StackInv, Linked
  <2> QED
    BY <1>10, <2>2 DEF Advances
<1>11. MoveFrom(yystack, r) = <<left, Last(left)>>
  BY DEF MoveFrom
<1> QED
  BY <1>3, <1>4, <1>5, <1>6, <1>7, <1>9, <1>10, <1>11 DEF Handle

LEMMA LinkedPushed ==
  ASSUME NEW stack, Linked(stack), stack # <<>>, NEW e,
         Advances(Last(stack).stateno, e.major, e.stateno)
  PROVE  Linked(Pushed(stack, e))
BY LinkedPush, LinkedEmpty DEF Pushed, PopAll

LEMMA StackStep ==
  ASSUME StackInv, [Step]_allVars
  PROVE  StackInv'
<1>1. CASE NextToken
  <2>1. Linked(yystack')
    BY <1>1, LinkedBottom DEF NextToken, StackInv
  <2>2. yymajor'.major \in Terminals
    BY <1>1 DEF NextToken, MoreTokens, Fed
  <2> QED
    BY <2>1, <2>2 DEF StackInv, Reads
<1>2. CASE Shift
  <2> DEFINE e == Entry(Action.arg, yymajor.major, yymajor.minor)
  <2>1. /\ yystack # <<>> /\ yymajor.major \in Terminals /\ Top.stateno \in StateNumbers
    BY <1>2, TopFacts DEF Shift
  <2>2. Advances(Last(yystack).stateno, e.major, e.stateno)
    BY <1>2, <2>1, TableFacts DEF Shift, Action, Top, Entry
  <2>3. yystack' = Pushed(yystack, e) /\ yymajor'.major = NoCode
    BY <1>2 DEF Shift, Fed
  <2> HIDE DEF e
  <2>4. Linked(Pushed(yystack, e))
    BY <2>1, <2>2, LinkedPushed DEF StackInv
  <2> QED
    BY <2>3, <2>4 DEF StackInv, Reads
<1>3. CASE Reduce
  <2> DEFINE r == Action.arg
             m == Len(yystack) - Len(Rhs(r))
             left == SubSeq(yystack, 1, m)
  <2>1. ~Idle /\ Action.type = "REDUCE" /\ yymajor' = yymajor
    BY <1>3 DEF Reduce
  <2>2. \E value :
          yystack' = IF Rules[r].lhs = Start THEN <<>>
                     ELSE Pushed(MoveFrom(yystack, r)[1],
                                 Entry(GotoTable[MoveFrom(yystack, r)[2].stateno][Rules[r].lhs],
                                       Rules[r].lhs, value))
    BY <1>3, Zenon DEF Reduce, yy_accept, PopAll
  <2>3. r = Action.arg /\ m = Len(yystack) - Len(Rhs(r)) /\ left = SubSeq(yystack, 1, m)
    OBVIOUS
  <2> HIDE DEF r, m, left
  <2>4. /\ r \in DOMAIN Rules /\ Linked(left) /\ left # <<>>
        /\ MoveFrom(yystack, r) = <<left, Last(left)>> /\ Last(left).stateno \in StateNumbers
        /\ Rules[r].lhs # Start => Rules[r].lhs \in DOMAIN GotoTable[Last(left).stateno]
    <3>1. Handle(r, m, left)
      BY <2>1, <2>3, HandleFacts
    <3> QED
      BY <3>1 DEF Handle
  <2>5. \E value :
          yystack' = IF Rules[r].lhs = Start THEN <<>>
                     ELSE Pushed(left, Entry(GotoTable[Last(left).stateno][Rules[r].lhs],
                                             Rules[r].lhs, value))
    BY <2>2, <2>4
  <2>6. CASE Rules[r].lhs = Start
    BY <2>1, <2>5, <2>6, LinkedEmpty DEF StackInv, Reads
  <2>7. CASE Rules[r].lhs # Start
    <3>1. Advances(Last(left).stateno, Rules[r].lhs,
                   GotoTable[Last(left).stateno][Rules[r].lhs])
      BY <2>4, <2>7, TablesAssumption
    <3>2. PICK value : yystack' = Pushed(left, Entry(GotoTable[Last(left).stateno][Rules[r].lhs],
                                                     Rules[r].lhs, value))
      BY <2>5, <2>7
    <3> DEFINE e == Entry(GotoTable[Last(left).stateno][Rules[r].lhs], Rules[r].lhs, value)
    <3>3. Advances(Last(left).stateno, e.major, e.stateno)
      BY <3>1 DEF Entry
    <3> HIDE DEF e
    <3>4. Linked(Pushed(left, e))
      BY <2>4, <3>3, LinkedPushed
    <3> QED
      BY <2>1, <3>2, <3>4 DEF StackInv, Reads, e
  <2> QED
    BY <2>6, <2>7
<1>4. CASE SyntaxError
  <2>1. yymajor'.major = NoCode /\ (yystack' = <<>> \/ yystack' = yystack)
    BY <1>4 DEF SyntaxError, Fed, yy_parse_failed, PopAll
  <2> QED
    BY <2>1, LinkedEmpty DEF StackInv, Reads
<1>5. CASE Return_ \/ UNCHANGED vars
  BY <1>5 DEF Return_, vars, StackInv, Reads
<1> QED
  BY <1>1, <1>2, <1>3, <1>4, <1>5 DEF Step, Next, Finished, allVars, vars

LEMMA StackStart == Init => StackInv
<1> SUFFICES ASSUME Init PROVE StackInv
  OBVIOUS
<1>1. yystack = <<>> /\ yymajor.major = NoCode
  BY DEF Init, InitWith, Fed
<1> QED
  BY <1>1, LinkedEmpty DEF StackInv, Reads

LEMMA StackHolds ==
  ASSUME StackInv
  PROVE  ReducesItsHandle
<1> SUFFICES ASSUME ~Idle, Action.type = "REDUCE",
                    NEW r, r = Action.arg, NEW n, n = Len(Rhs(r))
             PROVE  /\ n < Len(yystack)
                    /\ \A i \in 1 .. n : yystack[Len(yystack) - n + i].major = Rhs(r)[i]
                    /\ \/ Rules[r].lhs = Start
                       \/ Rules[r].lhs \in DOMAIN GotoTable[MoveFrom(yystack, r)[2].stateno]
  BY DEF ReducesItsHandle
<1> DEFINE m == Len(yystack) - n
           left == SubSeq(yystack, 1, m)
<1>1. m = Len(yystack) - Len(Rhs(r)) /\ left = SubSeq(yystack, 1, m)
  OBVIOUS
<1> HIDE DEF m, left
<1>2. /\ OnTop(yystack, Rhs(r))
      /\ MoveFrom(yystack, r) = <<left, Last(left)>>
      /\ Rules[r].lhs # Start => Rules[r].lhs \in DOMAIN GotoTable[Last(left).stateno]
  <2>1. Handle(r, m, left)
    BY <1>1, HandleFacts
  <2> QED
    BY <2>1 DEF Handle
<1> QED
  BY <1>2 DEF OnTop

\* Whatever the tables of an automaton, the texts and the depth: what the parser
\* reduces is a rule that lies on its stack, from which there is a state to go to.
THEOREM RulesLieOnTheStack == Spec => []ReducesItsHandle
<1>1. Init => StackInv
  BY StackStart
<1>2. StackInv /\ [Step]_allVars => StackInv'
  BY StackStep
<1>3. StackInv => ReducesItsHandle
  BY StackHolds
<1> QED
  BY <1>1, <1>2, <1>3, PTL DEF Spec

-----------------------------------------------------------------------------
(* What is set aside                                                       *)

\* The step that empties the stack for being too deep.
Overflows ==
  /\ outcome = "" /\ ~Idle
  /\ \/ Action.type = "SHIFT" /\ Len(yystack) >= YYSTACKDEPTH
     \/ /\ Action.type = "REDUCE" /\ Rules[Action.arg].lhs # Start
        /\ Len(MoveFrom(yystack, Action.arg)[1]) >= YYSTACKDEPTH

Counts(stack, p) ==
  /\ Len(p.stack) = Among(stack, Openers)
  /\ Len(p.arg_infos) = Among(stack, ArgLists)
\* While the stack is empty there is nothing set aside, unless the text was wrong:
\* then no other token is read.
Balanced ==
  /\ Typed(ps) /\ ps.syntax_error \in BOOLEAN
  /\ yyerrcnt \in Int /\ (yyerrcnt > 0 => ps.syntax_error = TRUE)
  /\ IF yystack = <<>> THEN ps.syntax_error = TRUE \/ (Len(ps.stack) = 0 /\ Len(ps.arg_infos) = 0)
     ELSE Counts(yystack, ps)

LEMMA TerminalsArePlain == Terminals \subseteq PlainSymbols \cup {End}
<1>1. Tokens \in Seq(PlainSymbols)
  BY DEF Tokens, PlainSymbols
<1>2. \A i \in DOMAIN Tokens : Tokens[i] \in PlainSymbols
  BY <1>1, ElementOfSeq, LenProperties
<1> QED
  BY <1>2 DEF Terminals, ToSet

LEMMA CountsBottom ==
  ASSUME NEW stack, IsSequence(stack), Len(stack) = 1, stack[1].major = End
  PROVE  Among(stack, Openers) = 0 /\ Among(stack, ArgLists) = 0
<1>1. Places(stack, Openers) = {} /\ Places(stack, ArgLists) = {}
  BY DEF Places, Openers, ArgLists, End
<1> QED
  BY <1>1, AmongFacts

LEMMA CountsPushed ==
  ASSUME NEW stack, IsSequence(stack), NEW e, Len(stack) < YYSTACKDEPTH, Len(stack) \in Nat,
         NEW majors
  PROVE  /\ Pushed(stack, e) # <<>>
         /\ Among(Pushed(stack, e), majors)
              = Among(stack, majors) + Weight(e.major, majors)
<1>1. Pushed(stack, e) = Append(stack, e)
  BY DepthAssumption DEF Pushed
<1> QED
  BY <1>1, AppendFacts, AmongAppend

\* What a reduction leaves set aside.
After(left, r, p, q) ==
  /\ Typed(q) /\ q.syntax_error = p.syntax_error
  /\ Len(q.stack) = Among(left, Openers) + Weight(Rules[r].lhs, Openers)
  /\ Len(q.arg_infos) = Among(left, ArgLists) + Weight(Rules[r].lhs, ArgLists)
LEMMA ReduceBalances ==
  ASSUME NEW stack, IsSequence(stack), NEW r \in DOMAIN Rules, OnTop(stack, Rhs(r)),
         NEW left, left = SubSeq(stack, 1, Len(stack) - Len(Rhs(r))),
         NEW p, Typed(p), Counts(stack, p), NEW a, NEW q, q = Actions(Rules[r].act, a, p).ps
  PROVE  After(left, r, p, q)
<1> DEFINE act == Rules[r].act
           change == Change(act, StartActs, EndActs)
           listChange == Change(act, {"start_arg_list"}, ListEnds)
<1>1. /\ act \in Acts /\ Balances(Rules[r], Openers, StartActs, EndActs)
      /\ Balances(Rules[r], ArgLists, {"start_arg_list"}, ListEnds)
  BY GrammarFacts DEF GoodRules, RuleRecords
<1>2. Apart(StartActs, EndActs) /\ Apart({"start_arg_list"}, ListEnds)
  BY Disjoint DEF Apart
<1>3. Keeps(stack, left, r, Openers, StartActs, EndActs)
  BY <1>1, <1>2, RuleBalances
<1>4. Keeps(stack, left, r, ArgLists, {"start_arg_list"}, ListEnds)
  BY <1>1, <1>2, RuleBalances
<1>5. IsSequence(p.stack) /\ IsSequence(p.arg_infos)
  BY DEF Typed
<1>6. act \in EndActs => p.stack # <<>>
  BY <1>3, <1>5, SequenceFacts DEF Counts, Keeps
<1>7. act \in ListEnds => p.arg_infos # <<>>
  BY <1>4, <1>5, SequenceFacts DEF Counts, Keeps
<1>8. q = Actions(act, a, p).ps
  OBVIOUS
<1> HIDE DEF act
<1>9. /\ Typed(q) /\ q.syntax_error = p.syntax_error
      /\ Len(q.stack) = Len(p.stack) + change
      /\ Len(q.arg_infos) = Len(p.arg_infos) + listChange
  BY <1>1, <1>6, <1>7, <1>8, ActionFacts
<1> QED
  BY <1>3, <1>4, <1>9 DEF Counts, Keeps, After, act

LEMMA BalancedStart == Init => Balanced
<1> SUFFICES ASSUME Init PROVE Balanced
  OBVIOUS
<1>1. ps = NewParserState /\ yystack = <<>> /\ yyerrcnt = 0
  BY DEF Init, InitWith
<1>2. IsSequence(<<>>) /\ Len(<<>>) = 0
  BY LinkedEmpty DEF Linked
<1> QED
  BY <1>1, <1>2 DEF Balanced, NewParserState, Typed, Fields

LEMMA BalancedReduce ==
  ASSUME StackInv, Balanced, ~Overflows, Reduce
  PROVE  Balanced'
<1> DEFINE r == Action.arg
           m == Len(yystack) - Len(Rhs(r))
           left == SubSeq(yystack, 1, m)
<1>1. ~Idle /\ Action.type = "REDUCE" /\ yyerrcnt' = yyerrcnt /\ outcome = ""
  BY DEF Reduce
<1>2. \E value :
        yystack' = IF Rules[r].lhs = Start THEN <<>>
                   ELSE Pushed(MoveFrom(yystack, r)[1],
                               Entry(GotoTable[MoveFrom(yystack, r)[2].stateno][Rules[r].lhs],
                                     Rules[r].lhs, value))
  BY Zenon DEF Reduce, yy_accept, PopAll
<1>3. \E a : ps' = Actions(Rules[r].act, a, ps).ps
  BY Zenon DEF Reduce, yy_accept, PopAll
<1>4. r = Action.arg /\ m = Len(yystack) - Len(Rhs(r)) /\ left = SubSeq(yystack, 1, m)
  OBVIOUS
<1> HIDE DEF r, m, left
<1>5. /\ r \in DOMAIN Rules /\ Len(Rhs(r)) \in Nat /\ m \in 1 .. Len(yystack)
      /\ OnTop(yystack, Rhs(r))
      /\ Linked(left) /\ left # <<>> /\ Len(left) = m
      /\ MoveFrom(yystack, r) = <<left, Last(left)>>
      /\ Rules[r].lhs = Start => m = 1
  <2>1. Handle(r, m, left)
    BY <1>1, <1>4, HandleFacts
  <2> QED
    BY <2>1 DEF Handle
<1>6. yystack # <<>> /\ IsSequence(yystack) /\ Counts(yystack, ps) /\ Typed(ps)
  BY <1>1 DEF Idle, StackInv, Linked, Balanced
<1>7. /\ Typed(ps') /\ ps'.syntax_error = ps.syntax_error
      /\ Len(ps'.stack) = Among(left, Openers) + Weight(Rules[r].lhs, Openers)
      /\ Len(ps'.arg_infos)
           = Among(left, ArgLists) + Weight(Rules[r].lhs, ArgLists)
  <2>1. PICK a : ps' = Actions(Rules[r].act, a, ps).ps
    BY <1>3
  <2> DEFINE q == ps'
  <2>2. q = Actions(Rules[r].act, a, ps).ps
    BY <2>1
  <2>3. left = SubSeq(yystack, 1, Len(yystack) - Len(Rhs(r)))
    BY <1>4
  <2> HIDE DEF q
  <2>4. After(left, r, ps, q)
    BY <1>5, <1>6, <2>2, <2>3, ReduceBalances
  <2> QED
    BY <2>4 DEF q, After
<1>8. /\ Typed(ps)' /\ ps'.syntax_error \in BOOLEAN
      /\ yyerrcnt' \in Int /\ (yyerrcnt' > 0 => ps'.syntax_error = TRUE)
  BY <1>1, <1>7 DEF Balanced, Typed
<1>9. CASE Rules[r].lhs = Start
  <2>1. yystack' = <<>> /\ Start \notin Openers \cup ArgLists
    BY <1>2, <1>9, GrammarFacts DEF Openers, ArgLists
  <2>2. IsSequence(left) /\ Len(left) = 1 /\ left[1].major = End
    BY <1>5, <1>9 DEF Linked
  <2>3. Among(left, Openers) = 0 /\ Among(left, ArgLists) = 0
    BY <2>2, CountsBottom
  <2>4. Len(ps'.stack) = 0 /\ Len(ps'.arg_infos) = 0
    BY <1>7, <1>9, <2>1, <2>3 DEF Weight
  <2> QED
    BY <1>8, <2>1, <2>4 DEF Balanced
<1>10. CASE Rules[r].lhs # Start
  <2>1. PICK value :
          yystack' = Pushed(left, Entry(GotoTable[Last(left).stateno][Rules[r].lhs],
                                        Rules[r].lhs, value))
    BY <1>2, <1>5, <1>10
  <2> DEFINE e == Entry(GotoTable[Last(left).stateno][Rules[r].lhs], Rules[r].lhs, value)
  <2>2. yystack' = Pushed(left, e) /\ e.major = Rules[r].lhs
    BY <2>1 DEF Entry
  <2>3. IsSequence(left) /\ Len(left) \in Nat /\ Len(left) < YYSTACKDEPTH
    <3>1. IsSequence(left) /\ Len(left) \in Nat
      BY <1>5, SequenceFacts DEF Linked
    <3>2. MoveFrom(yystack, Action.arg)[1] = left /\ Rules[Action.arg].lhs # Start
      BY <1>4, <1>5, <1>10
    <3>3. ~(Len(left) >= YYSTACKDEPTH)
      BY <1>1, <3>2 DEF Overflows
    <3> QED
      BY <3>1, <3>3, DepthAssumption
  <2> HIDE DEF e
  <2>4. /\ yystack' # <<>>
        /\ Among(yystack', Openers)
             = Among(left, Openers) + Weight(Rules[r].lhs, Openers)
        /\ Among(yystack', ArgLists)
             = Among(left, ArgLists) + Weight(Rules[r].lhs, ArgLists)
    BY <2>2, <2>3, CountsPushed
  <2>5. Counts(yystack, ps)'
    BY <1>7, <2>4 DEF Counts, Among
  <2> QED
    BY <1>8, <2>4, <2>5 DEF Balanced
<1> QED
  BY <1>9, <1>10

LEMMA OneLess ==
  ASSUME NEW x \in Int, NEW y, y = x - 1
  PROVE  y \in Int /\ (y > 0 => x > 0)
OBVIOUS

LEMMA BalancedStep ==
  ASSUME StackInv, Balanced, ~Overflows, [Step]_allVars
  PROVE  Balanced'
<1>1. CASE NextToken
  <2>1. ~ps.syntax_error /\ ps' = [ps EXCEPT !.line = Head(input).end]
    BY <1>1 DEF NextToken, MoreTokens
  <2>2. Typed(ps)' /\ ps'.syntax_error = ps.syntax_error
        /\ ps'.stack = ps.stack /\ ps'.arg_infos = ps.arg_infos
    BY <2>1 DEF Balanced, Typed, Fields
  <2>3. CASE yystack = <<>>
    <3>1. yystack' = <<Bottom>> /\ yyerrcnt' = -1
      BY <1>1, <2>3 DEF NextToken
    <3>2. Among(<<Bottom>>, Openers) = 0 /\ Among(<<Bottom>>, ArgLists) = 0
      BY LinkedBottom, CountsBottom DEF Linked
    <3>3. Counts(yystack, ps)'
      BY <2>1, <2>2, <2>3, <3>1, <3>2 DEF Balanced, Counts, Among
    <3> QED
      BY <2>2, <3>1, <3>3, LinkedBottom DEF Balanced
  <2>4. CASE yystack # <<>>
    <3>1. yystack' = yystack /\ yyerrcnt' = yyerrcnt
      BY <1>1, <2>4 DEF NextToken
    <3> QED
      BY <2>2, <2>4, <3>1 DEF Balanced, Counts, Among
  <2> QED
    BY <2>3, <2>4
<1>2. CASE Shift
  <2> DEFINE e == Entry(Action.arg, yymajor.major, yymajor.minor)
  <2>1. ~Idle /\ Action.type = "SHIFT" /\ outcome = ""
    BY <1>2 DEF Shift
  <2>2. yystack' = Pushed(yystack, e) /\ ps' = ps
    BY <1>2 DEF Shift
  <2>3. yyerrcnt' = yyerrcnt - 1
    BY <1>2 DEF Shift
  <2>4. /\ yystack # <<>> /\ IsSequence(yystack) /\ Len(yystack) \in Nat \ {0}
        /\ yymajor.major \in Terminals
    BY <2>1, TopFacts
  <2>5. e.major \notin Openers /\ e.major \notin ArgLists
    <3>1. End \notin Openers \cup ArgLists
      BY DEF End, Openers, ArgLists
    <3> QED
      BY <2>4, <3>1, TerminalsArePlain, Disjoint DEF Entry
  <2>6. ~(Len(yystack) >= YYSTACKDEPTH)
    BY <2>1, Zenon DEF Overflows
  <2> HIDE DEF e
  <2>7. /\ yystack' # <<>>
        /\ Among(yystack', Openers) = Among(yystack, Openers)
        /\ Among(yystack', ArgLists) = Among(yystack, ArgLists)
    <3>1. Among(yystack, Openers) \in Nat /\ Among(yystack, ArgLists) \in Nat
      BY <2>4, AmongFacts
    <3>2. Len(yystack) < YYSTACKDEPTH /\ Len(yystack) \in Nat
      BY <2>4, <2>6, DepthAssumption
    <3>3. /\ Pushed(yystack, e) # <<>>
          /\ Among(Pushed(yystack, e), Openers) = Among(yystack, Openers) + 0
          /\ Among(Pushed(yystack, e), ArgLists) = Among(yystack, ArgLists) + 0
      BY <2>4, <2>5, <3>2, CountsPushed DEF Weight
    <3> QED
      BY <2>2, <3>1, <3>3
  <2>8. Counts(yystack, ps)'
    BY <2>2, <2>4, <2>7 DEF Balanced, Counts, Among
  <2>9. yyerrcnt' \in Int /\ (yyerrcnt' > 0 => ps'.syntax_error = TRUE)
    BY <2>2, <2>3, OneLess DEF Balanced
  <2>10. Typed(ps)' /\ ps'.syntax_error \in BOOLEAN
    BY <2>2 DEF Balanced, Typed
  <2> QED
    BY <2>7, <2>8, <2>9, <2>10 DEF Balanced
<1>3. CASE Reduce
  BY <1>3, BalancedReduce
<1>4. CASE SyntaxError
  <2>1. /\ Typed(ps)' /\ ps'.syntax_error = TRUE
        /\ ps'.stack = ps.stack /\ ps'.arg_infos = ps.arg_infos
    <3>1. Typed(ps) /\ (~(yyerrcnt <= 0) => ps.syntax_error = TRUE)
      BY DEF Balanced
    <3>2. ps' = [ps EXCEPT !.syntax_error = TRUE] \/ (ps' = ps /\ ~(yyerrcnt <= 0))
      BY <1>4 DEF SyntaxError, yy_syntax_error, yy_parse_failed, PopAll
    <3>3. ps' = [ps EXCEPT !.syntax_error = TRUE] \/ (ps' = ps /\ ps.syntax_error = TRUE)
      BY <3>1, <3>2
    <3> QED
      BY <3>1, <3>3 DEF Typed, Fields
  <2>2. yyerrcnt' = 3 /\ (yystack' = <<>> \/ yystack' = yystack)
    BY <1>4 DEF SyntaxError, yy_syntax_error, yy_parse_failed, PopAll
  <2>3. yystack' # <<>> => Counts(yystack, ps)'
    BY <2>1, <2>2 DEF Balanced, Counts, Among
  <2>4. yyerrcnt' \in Int
    BY <2>2
  <2> QED
    BY <2>1, <2>3, <2>4 DEF Balanced
<1>5. CASE Return_ \/ UNCHANGED vars
  BY <1>5 DEF Return_, vars, Balanced, Typed, Counts, Among
<1> QED
  BY <1>1, <1>2, <1>3, <1>4, <1>5 DEF Step, Next, Finished, allVars, vars

\* Whatever the tables, the texts and the depth, as long as the stack does not
\* outgrow its depth: contexts and argument lists are set aside and taken back
\* together with the symbols of the stack they belong to.
THEOREM StacksStayBalanced == Spec /\ []~Overflows => []StacksBalance
<1>1. Init => StackInv /\ Balanced
  BY StackStart, BalancedStart
<1>2. StackInv /\ Balanced /\ ~Overflows /\ [Step]_allVars => (StackInv /\ Balanced)'
  BY StackStep, BalancedStep
<1>3. Balanced => StacksBalance
  BY DEF Balanced, Counts, StacksBalance
<1> QED
  BY <1>1, <1>2, <1>3, PTL DEF Spec

=============================================================================
