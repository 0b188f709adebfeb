----------------------------- MODULE LexerProps -----------------------------
(***************************************************************************)
(* What the lexer promises.  A sample is a text, the tokens it should be   *)
(* read as when they are `known`, and whether only a buffer that holds all *)
(* of it reads it so (`whole`).                                            *)
(***************************************************************************)
EXTENDS Lexer, FiniteSets

CONSTANT Samples
\* A text is made of characters and ends in a newline, as a file does.
ASSUME SamplesAssumption ==
  \A s \in Samples : /\ s.text \in Seq(STRING \ {Nul})
                     /\ s.text # <<>> /\ s.text[Len(s.text)] = "\n"
VARIABLE sample
allVars == <<vars, sample>>

Init ==
  /\ sample \in Samples
  /\ InitWith(sample.text)
  /\ sample.whole => size > Len(sample.text)
Step == Next /\ UNCHANGED sample
\* parse() calls next_token until it answers with EOF or fails.
Spec == Init /\ [][Step]_allVars /\ WF_allVars(Step)

Ahead == Rest(source) \o source.file
Over == mode \in {"done", "failed"}

\* The tokens of a text are those its writer meant, wherever the ends of the
\* buffer fall in it (next_str and everything that looks ahead through it:
\* keyword_match most of all).  The line of a token is the one it was written on
\* or, behind comments, that of the first of them (parser.cpp:77).
GivesTheTokens ==
  sample.known =>
    /\ mode # "failed"
    /\ mode = "done" => tokens = sample.expect

\* line_ counts every newline taken, those of comments too, and no other
\* character (outside strings, whose newlines are not counted).
LinesAreTrue ==
  LET taken == SubSeq(sample.text, 1, Len(sample.text) - Len(Ahead))
  IN ~Over /\ "\"" \notin ToSet(taken)
       => line = 1 + Cardinality({i \in DOMAIN taken : taken[i] = "\n"})

\* Every text is read to its end or refused: no loop of the lexer (comments,
\* strings, names, operators) goes on for ever at the end of the file.
Ends == <>Over
=============================================================================
