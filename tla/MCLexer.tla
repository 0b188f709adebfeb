------------------------------ MODULE MCLexer ------------------------------
(***************************************************************************)
(* Texts: every kind of token before every other, with the end of the      *)
(* buffer at each of their characters, and short texts of any characters.  *)
(***************************************************************************)
EXTENDS LexerProps

Chars(str) == [i \in 1 .. Len(str) |-> SubSeq(str, i, i)]
Lexeme(str, major, minor) == [chars |-> Chars(str), major |-> major, minor |-> minor]
\* An import is followed by a name with dots.
Words ==
  {[chars |-> k.str \o IF k.token = "IMPORT" THEN <<" ", "\t", "a", ".", "b">> ELSE <<>>,
    major |-> k.token, minor |-> NoText] : k \in UNION {ToSet(cKeywords[c]) : c \in DOMAIN cKeywords}}
Named(str) == Lexeme(str, "ID", Text(Chars(str)))
Names == {Named("ifs"), Named("ended"), Named("import_a"), Named("x"), Named("e"), Named("as_b"),
          Named("nils_0"), Named("traits")}
Plain == {Lexeme(m, Marks[m], NoText) : m \in DOMAIN Marks}
Operators ==
  {Lexeme(o.str, o.major, Text(Chars(o.text))) :
     o \in {[str |-> "+", major |-> "OP1", text |-> "+"], [str |-> "-=", major |-> "OP1_SET", text |-> "-"],
            [str |-> "*", major |-> "OP2", text |-> "*"], [str |-> "/=", major |-> "OP2_SET", text |-> "/"],
            [str |-> "<", major |-> "LT", text |-> "<"], [str |-> ">", major |-> "OP0", text |-> ">"],
            [str |-> "<<", major |-> "OP0", text |-> "<<"], [str |-> "&&", major |-> "AND", text |-> "&&"],
            [str |-> "|", major |-> "PIPE", text |-> "|"], [str |-> "::", major |-> "DCOLON", text |-> "::"],
            [str |-> "===", major |-> "OP0", text |-> "==="], [str |-> "==", major |-> "OP0", text |-> "=="],
            [str |-> "[]", major |-> "SQUARE", text |-> "[]"]}}
Others ==
  {Lexeme("!=", "NEQUAL", NoText), Lexeme("!", "NOT", NoText), Lexeme("=", "EQUAL", NoText),
   Lexeme("[", "LSB", NoText), Lexeme(":", "CAST", NoText), Lexeme("%(", "TUPLE_START", NoText),
   Lexeme("%{", "DICT_START", NoText), Lexeme("%[", "LIST", NoText),
   Lexeme(".$", "DOT_DOLLAR", NoText), Lexeme(".go?", "DOT", Text(Chars("go?"))),
   Lexeme("@iv", "IVAR", Text(Chars("iv"))), Lexeme("\"a if\"", "LITSTR", Text(Chars("a if"))),
   Lexeme("%sy=", "LITSTR", Text(Chars("sy="))), Lexeme("7", "NUM", [i |-> 7])}
Lexemes == Words \cup Names \cup Plain \cup Operators \cup Others

\* The tokens of a lexeme on a line; the name of an import is one of its own.
TokensBehind(lexeme, comment, on) ==
  <<[major |-> lexeme.major, minor |-> lexeme.minor, line |-> comment]>> \o
  (IF lexeme.major = "IMPORT"
   THEN <<[major |-> "DOT_NAME", minor |-> Text(Chars("a.b")), line |-> on]>> ELSE <<>>)
Tokens(lexeme, on) == TokensBehind(lexeme, on, on)
Newline_(on) == <<[major |-> "NL", minor |-> NoText, line |-> on]>>
Eof(on) == <<[major |-> "EOF", minor |-> NoText, line |-> on]>>
\* The newline that ends the file is not given: the end is.
Known_(text, expect, whole) ==
  [text |-> text \o <<"\n">>, expect |-> expect, known |-> TRUE, whole |-> whole]
Apart(a, b) == Known_(a.chars \o <<" ">> \o b.chars, Tokens(a, 1) \o Tokens(b, 1) \o Eof(1), FALSE)
Below(a, b) ==
  Known_(a.chars \o Chars("\n  ") \o b.chars, Tokens(a, 1) \o Newline_(1) \o Tokens(b, 2) \o Eof(2), FALSE)
\* A comment, which takes its newline with it: the token behind it has the line on
\* which the lexer began to look for it, that of the comment.
Commented(a, b) ==
  Known_(a.chars \o Chars(" # if\n #\n  ") \o b.chars \o Chars(" x"),
         Tokens(a, 1) \o TokensBehind(b, 1, 3) \o Tokens(Named("x"), 3) \o Eof(3), FALSE)
AfterComment(b) ==
  Known_(Chars("# x 1\n") \o b.chars \o Chars("\nx"),
         TokensBehind(b, 1, 2) \o Newline_(2) \o Tokens(Named("x"), 3) \o Eof(3), FALSE)
Comments == {Commented(a, b) : a \in {Named("x")}, b \in Lexemes} \cup {AfterComment(b) : b \in Lexemes}
Before == Names \cup {w \in Words : w.major \in {"IMPORT", "IF"}}
            \cup {o \in Operators \cup Others : o.major \in {"LT", "SQUARE", "DOT", "LITSTR", "NOT"}}
Pairs == {Apart(a, b) : a \in Before, b \in Lexemes} \cup {Below(a, b) : a \in Names, b \in Lexemes}
\* A number of several digits is read from the buffer alone.
Numbers ==
  {Known_(Chars(n.str) \o Chars(" x"),
          <<[major |-> "NUM", minor |-> [i |-> n.i], line |-> 1]>> \o Tokens(Named("x"), 1) \o Eof(1), TRUE) :
     n \in {[str |-> "42", i |-> 42], [str |-> "017", i |-> 15], [str |-> "0x1f", i |-> 31],
            [str |-> "0", i |-> 0]}}
Any_(text) == [text |-> Chars("      ") \o text \o <<"\n">>, expect |-> <<>>, known |-> FALSE, whole |-> FALSE]
Alphabet == {"i", "f", "a", " ", "\n", "#", "\"", "%", "=", "1", ".", "@"}
Short == {Any_(<<a, b, c>>) : a, b, c \in Alphabet}
MCSamples == Pairs \cup Comments \cup Numbers \cup Short
=============================================================================
