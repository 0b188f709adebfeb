------------------------------- MODULE Lexer -------------------------------
(***************************************************************************)
(* The lexer (vm/parser.cpp): characters of a file, read through a buffer  *)
(* of `size` of them, become tokens.  A step takes a character, or the few *)
(* that decide on a token.  The end of `buf` is end_, its pos-th character *)
(* the last one taken; Nul stands for the 0 of next_c.  A text ends in a   *)
(* newline, as a file does.                                                *)
(***************************************************************************)
EXTENDS Integers, Sequences, SequencesExt

CONSTANT Sizes
\* A keyword and the character after it fit in the buffer.
ASSUME SizesAssumption == \A n \in Sizes : n \in Nat /\ n > 7

VARIABLES
  size,          \* size_
  source,        \* buffer_, pos_ and what is left in file_
  line,          \* line_
  mode,          \* the function, or the place in next_token, being executed
  scratch,       \* the ScratchBuffer of the token being read
  value,         \* the line of value_, and the token id_match is to return
  import_name,
  tokens         \* those next_token has returned
vars == <<size, source, line, mode, scratch, value, import_name, tokens>>

Nul == ""
Digits == {"0", "1", "2", "3", "4", "5", "6", "7", "8", "9"}
Letters ==
  {"a", "b", "c", "d", "e", "f", "g", "h", "i", "j", "k", "l", "m", "n", "o", "p", "q", "r",
   "s", "t", "u", "v", "w", "x", "y", "z"}
WordChars == Letters \cup Digits \cup {"_"}
OperatorChars == {"+", "-", "!", "@", "#", "$", "%", "^", "&", "*", "<", ">", "?", "|", "~",
                  ":", "=", "/"}

-----------------------------------------------------------------------------
(* next_str, next_c                                                        *)
Left(l) == Len(l.buf) - l.pos
Rest(l) == SubSeq(l.buf, l.pos + 1, Len(l.buf))
\* Faulty: the characters left are not kept when the buffer is filled again.
FilledLosing(l) ==
  LET r == IF size < Len(l.file) THEN size ELSE Len(l.file)
  IN IF r = 0 /\ Left(l) = 0 THEN [l EXCEPT !.pos = 0]
     ELSE [buf |-> SubSeq(l.file, 1, r), pos |-> 0, file |-> SubSeq(l.file, r + 1, Len(l.file))]
\* What is left moves to the front and the file is read into the rest.  With
\* nothing left and nothing read, end_ stays where it was.
Filled(l) ==
  LET space == size - Left(l)
      r == IF space < Len(l.file) THEN space ELSE Len(l.file)
  IN IF r = 0 /\ Left(l) = 0 THEN [l EXCEPT !.pos = 0]
     ELSE [buf |-> Rest(l) \o SubSeq(l.file, 1, r), pos |-> 0,
           file |-> SubSeq(l.file, r + 1, Len(l.file))]
\* The text of `count` characters is only given when one more is there, or the
\* file gave some.
NextStr(l, count) ==
  IF Left(l) > count THEN [ok |-> TRUE, l |-> l]
  ELSE LET f == Filled(l)
       IN [ok |-> l.file # <<>> /\ size > Left(l) /\ Left(f) >= count, l |-> f]
NextC(l) ==
  LET r == NextStr(l, 1)
  IN [c |-> IF r.ok THEN r.l.buf[r.l.pos + 1] ELSE Nul, l |-> r.l]
Advance(l, count) == [l EXCEPT !.pos = @ + count]

-----------------------------------------------------------------------------
Go(m, l) == mode' = m /\ source' = l /\ UNCHANGED <<size, line, value, import_name, tokens>>
\* next_token returns; parse() calls import_start() after an IMPORT.
Return_(major, minor, l) ==
  /\ tokens' = Append(tokens, [major |-> major, minor |-> minor, line |-> value.line])
  /\ mode' = IF major = "EOF" THEN "done" ELSE "start"
  /\ source' = l
  /\ import_name' = (major = "IMPORT")
  /\ scratch' = <<>>
  /\ UNCHANGED <<size, value>>
Text(s) == [s |-> s]
NoText == [s |-> <<>>]
Give(major, minor, l) == UNCHANGED line /\ Return_(major, minor, l)
\* next_token returns -1, and parse() stops.
Fail(l) == Go("failed", l) /\ UNCHANGED scratch

\* next_token: value_.line is set before blanks and comments are passed over.
NextToken ==
  /\ mode = "start"
  /\ value' = [line |-> line, tk |-> "ID"]
  /\ mode' = IF import_name THEN "blanks" ELSE "again"
  /\ import_name' = FALSE
  /\ scratch' = <<>>
  /\ UNCHANGED <<size, source, line, tokens>>

-----------------------------------------------------------------------------
(* strtol(pos_, &end, 0) looks at the buffer alone.                        *)
HexDigits == <<"0", "1", "2", "3", "4", "5", "6", "7", "8", "9", "a", "b", "c", "d", "e", "f">>
DigitsOf(base) == {HexDigits[i] : i \in 1 .. base}
DigitValue(c) == (CHOOSE i \in DOMAIN HexDigits : HexDigits[i] = c) - 1
Strtol(s) ==
  LET hex == Len(s) > 2 /\ s[1] = "0" /\ s[2] = "x" /\ s[3] \in DigitsOf(16)
      base == IF hex THEN 16 ELSE IF s[1] = "0" THEN 8 ELSE 10
      from == IF hex THEN 3 ELSE 1
      to == CHOOSE j \in from .. Len(s) :
              /\ \A k \in from .. j : s[k] \in DigitsOf(base)
              /\ j = Len(s) \/ s[j + 1] \notin DigitsOf(base)
  IN [i |-> FoldLeft(LAMBDA n, c : n * base + DigitValue(c), 0, SubSeq(s, from, to)),
      end |-> to]
Number(c, l) ==
  /\ c \in Digits
  /\ LET n == Strtol(Rest(l)) IN Give("NUM", [i |-> n.i], Advance(l, n.end))

EndOfFile(c, l) == c = Nul /\ Give("EOF", NoText, l)
Space(c, l) == c = " " /\ Go("spaces", l) /\ UNCHANGED scratch
Newline(c, l) ==
  /\ c = "\n"
  /\ line' = line + 1
  /\ Return_("NL", NoText, Advance(l, 1))

Marks ==
  [c \in {",", "}", "{", "]", "(", ")", ";"} |->
     CASE c = "," -> "COMMA" [] c = "}" -> "RB" [] c = "{" -> "LB" [] c = "]" -> "RSB"
       [] c = "(" -> "LP" [] c = ")" -> "RP" [] c = ";" -> "SEMI"]
Mark(c, l) == c \in DOMAIN Marks /\ Give(Marks[c], NoText, Advance(l, 1))

Starts == {"+", "-", "$", "*", "/", "<", ">", "&"}
Operator(c, l) == c \in Starts /\ scratch' = <<c>> /\ Go("operator", Advance(l, 1))
Pipe(c, l) == c = "|" /\ Give("PIPE", Text(<<"|">>), Advance(l, 1))

Percents ==
  [c \in {"(", "{", "["} |->
     CASE c = "(" -> "TUPLE_START" [] c = "{" -> "DICT_START" [] c = "[" -> "LIST"]
Percent(c, l) ==
  /\ c = "%"
  /\ \E r \in {NextC(Advance(l, 1))} :
        IF r.c \in DOMAIN Percents THEN Give(Percents[r.c], NoText, Advance(r.l, 1))
        ELSE Go("symbol", r.l) /\ UNCHANGED scratch
\* id_match(tk)
Identifier(tk, l) ==
  /\ value' = [value EXCEPT !.tk = tk]
  /\ mode' = "identifier" /\ source' = l
  /\ UNCHANGED <<size, line, scratch, import_name, tokens>>
Dot(c, l) ==
  /\ c = "."
  /\ \E r \in {NextC(Advance(l, 1))} :
        IF r.c = "$" THEN Give("DOT_DOLLAR", NoText, Advance(r.l, 1)) ELSE Identifier("DOT", r.l)
At(c, l) == c = "@" /\ Identifier("IVAR", Advance(l, 1))

Square(c, l) ==
  /\ c = "["
  /\ \E r \in {NextC(Advance(l, 1))} :
        IF r.c = "]" THEN Give("SQUARE", Text(<<"[", "]">>), Advance(r.l, 1))
        ELSE Give("LSB", NoText, r.l)
Equal(c, l) ==
  /\ c = "="
  /\ \E second \in {NextC(Advance(l, 1))} : \E third \in {NextC(Advance(second.l, 1))} :
        IF second.c # "=" THEN Give("EQUAL", NoText, second.l)
        ELSE IF third.c = "=" THEN Give("OP0", Text(<<"=", "=", "=">>), Advance(third.l, 1))
        ELSE Give("OP0", Text(<<"=", "=">>), third.l)
Bang(c, l) ==
  /\ c = "!"
  /\ \E r \in {NextC(Advance(l, 1))} :
        IF r.c = "=" THEN Give("NEQUAL", NoText, Advance(r.l, 1)) ELSE Give("NOT", NoText, r.l)
Colon(c, l) ==
  /\ c = ":"
  /\ \E r \in {NextC(Advance(l, 1))} :
        IF r.c = ":" THEN Give("DCOLON", Text(<<":", ":">>), Advance(r.l, 1))
        ELSE Give("CAST", NoText, r.l)
Quote(c, l) == c = "\"" /\ Go("string", Advance(l, 1)) /\ UNCHANGED scratch
Hash(c, l) == c = "#" /\ Go("comment", l) /\ UNCHANGED scratch

-----------------------------------------------------------------------------
(* keyword_match                                                           *)
K(str, token) == [str |-> str, token |-> token]
cKeywords ==
  [c \in Letters |->
     CASE c = "a" -> <<K(<<"a", "s">>, "AS")>>
       [] c = "c" -> <<K(<<"c", "l", "a", "s", "s">>, "CLASS")>>
       [] c = "d" -> <<K(<<"d", "e", "f">>, "DEF")>>
       [] c = "e" -> <<K(<<"e", "n", "d">>, "END"),
                  K(<<"e", "l", "s", "e">>, "ELSE")>>
       [] c = "f" -> <<K(<<"f", "a", "l", "s", "e">>, "FALSE")>>
       [] c = "i" -> <<K(<<"i", "f">>, "IF"),
                  K(<<"i", "m", "p", "o", "r", "t">>, "IMPORT")>>
       [] c = "n" -> <<K(<<"n", "i", "l">>, "NIL")>>
       [] c = "r" -> <<K(<<"r", "e", "s", "c", "u", "e">>, "RESCUE"),
                  K(<<"r", "a", "i", "s", "e">>, "RAISE"),
                  K(<<"r", "e", "t", "u", "r", "n">>, "RETURN")>>
       [] c = "s" -> <<K(<<"s", "e", "l", "f">>, "SELF")>>
       [] c = "t" -> <<K(<<"t", "r", "u", "e">>, "TRUE"),
                  K(<<"t", "r", "y">>, "TRY"),
                  K(<<"t", "r", "a", "i", "t">>, "TRAIT")>>
       [] c = "u" -> <<K(<<"u", "n", "l", "e", "s", "s">>, "UNLESS")>>
       [] c = "w" -> <<K(<<"w", "h", "i", "l", "e">>, "WHILE")>>
       [] OTHER -> <<>>]
\* A keyword is one when what follows is no letter, or cannot be had.
Follows(l, len) ==
  LET r == NextStr(l, len + 1)
  IN [ok |-> ~r.ok \/ r.l.buf[r.l.pos + len + 1] \notin Letters \cup {"_"}, l |-> r.l]
\* One keyword tried after the ones before it.
Try_(found, k) ==
  IF found.token # "" THEN found
  ELSE LET len == Len(k.str)
           r == NextStr(found.l, len)
           after == Follows(r.l, len)
       IN IF ~r.ok \/ SubSeq(r.l.buf, r.l.pos + 1, r.l.pos + len) # k.str
          THEN [token |-> "", l |-> r.l]
          ELSE IF ~after.ok THEN [token |-> "", l |-> after.l]
          ELSE [token |-> k.token, l |-> Advance(after.l, len)]
\* Three keywords at most begin with one letter.
KeywordMatch(c, l) ==
  LET try(found, i) ==
        IF c \in Letters /\ i \in DOMAIN cKeywords[c] THEN Try_(found, cKeywords[c][i]) ELSE found
  IN try(try(try([token |-> "", l |-> l], 1), 2), 3)
Known == Digits \cup DOMAIN Marks \cup Starts
           \cup {Nul, " ", "\n", "|", "%", ".", "@", "[", "=", "!", ":", "\"", "#"}
Word(c, l) ==
  /\ c \notin Known
  /\ \E k \in {KeywordMatch(c, l)} :
        IF k.token # "" THEN Give(k.token, NoText, k.l)
        ELSE IF c \in Letters THEN Identifier("ID", k.l)
        ELSE Fail(k.l)

Again ==
  /\ mode = "again"
  /\ \E r \in {NextC(source)} :
        \/ EndOfFile(r.c, r.l) \/ Number(r.c, r.l) \/ Space(r.c, r.l) \/ Newline(r.c, r.l)
        \/ Mark(r.c, r.l) \/ Operator(r.c, r.l) \/ Pipe(r.c, r.l) \/ Percent(r.c, r.l)
        \/ Dot(r.c, r.l) \/ At(r.c, r.l) \/ Square(r.c, r.l) \/ Equal(r.c, r.l)
        \/ Bang(r.c, r.l) \/ Colon(r.c, r.l) \/ Quote(r.c, r.l) \/ Hash(r.c, r.l)
        \/ Word(r.c, r.l)
Spaces ==
  /\ mode = "spaces"
  /\ \E r \in {NextC(source)} :
        Go(IF r.c = " " THEN "spaces" ELSE "again", Advance(r.l, IF r.c = " " THEN 1 ELSE 0))
  /\ UNCHANGED scratch

-----------------------------------------------------------------------------
\* A character more of the token being read.
More(m, r) == scratch' = Append(scratch, r.c) /\ Go(m, Advance(r.l, 1))

\* The comment and its newline, which gives no token of its own.
\* Faulty: only a newline ends a comment.
InCommentEndless(first, second) == first.c # "\n"
InComment(first, second) == first.c # "\n" /\ second.c # Nul
\* Faulty: the lines a comment ends are not counted.
CommentLineUncounted == line' = line
CommentLine == line' = line + 1
Comment ==
  /\ mode = "comment"
  /\ \E first \in {NextC(source)} : \E second \in {NextC(first.l)} :
        IF InComment(first, second)
        THEN Go("comment", Advance(second.l, 1)) /\ UNCHANGED scratch
        ELSE /\ CommentLine
             /\ mode' = "again"
             /\ source' = Advance(IF first.c = "\n" THEN first.l ELSE second.l, 1)
             /\ UNCHANGED <<size, scratch, value, import_name, tokens>>

\* match_operator, and what next_token makes of its answer: a "=" at the end
\* makes it an assignment, except that < and && are looked for first.
OperatorToken(text, set) ==
  CASE text = <<"<">> -> "LT"
    [] text = <<"&", "&">> -> "AND"
    [] OTHER -> LET op == CASE text[1] \in {"*", "/"} -> "OP2"
                            [] text[1] \in {"+", "-", "$"} -> "OP1"
                            [] OTHER -> "OP0"
                IN IF set THEN op \o "_SET" ELSE op
MatchOperator ==
  /\ mode = "operator"
  /\ LET set == Last(scratch) = "="
         text == IF set THEN Front(scratch) ELSE scratch
     IN \E r \in {NextC(source)} :
        IF r.c \in OperatorChars THEN More("operator", r)
        ELSE Give(OperatorToken(text, set), Text(text), r.l)

IdMatch ==
  /\ mode = "identifier"
  /\ \E r \in {NextC(source)} :
        IF r.c \in WordChars THEN More("identifier", r)
        ELSE IF scratch # <<>> /\ r.c \in {"?", "!"}
             THEN Give(value.tk, Text(Append(scratch, r.c)), Advance(r.l, 1))
             ELSE Give(value.tk, Text(scratch), r.l)

StrMatch ==
  /\ mode = "string"
  /\ \E r \in {NextC(source)} :
        IF r.c = Nul THEN Fail(r.l)
        ELSE IF r.c = "\"" THEN Give("LITSTR", Text(scratch), Advance(r.l, 1))
        ELSE More("string", r)

SymMatch ==
  /\ mode = "symbol"
  /\ \E r \in {NextC(source)} :
        IF r.c \in Letters THEN More("symbol", r)
        ELSE IF r.c = Nul \/ scratch = <<>> THEN Fail(r.l)
        ELSE IF r.c \in {"=", "?", "!"}
             THEN Give("LITSTR", Text(Append(scratch, r.c)), Advance(r.l, 1))
             ELSE Give("LITSTR", Text(scratch), r.l)

\* import_name_match: each test of a character is a next_c of its own.
Blanks ==
  /\ mode = "blanks"
  /\ \E first \in {NextC(source)} : \E second \in {NextC(first.l)} :
        IF first.c = " " THEN Go("blanks", Advance(first.l, 1)) /\ UNCHANGED scratch
        ELSE IF second.c = "\t" THEN Go("blanks", Advance(second.l, 1)) /\ UNCHANGED scratch
        ELSE Go("name", second.l) /\ UNCHANGED scratch
ImportNameMatch ==
  /\ mode = "name"
  /\ \E r \in {NextC(source)} :
        IF r.c \in WordChars \cup {"."} THEN More("name", r)
        ELSE Give("DOT_NAME", Text(scratch), r.l)

-----------------------------------------------------------------------------
InitWith(text) ==
  /\ size \in Sizes
  /\ source = Filled([buf |-> <<>>, pos |-> 0, file |-> text])
  /\ line = 1
  /\ mode = "start"
  /\ scratch = <<>>
  /\ value = [line |-> 1, tk |-> "ID"]
  /\ import_name = FALSE
  /\ tokens = <<>>
Finished == mode \in {"done", "failed"} /\ UNCHANGED vars
Next == NextToken \/ Again \/ Spaces \/ Comment \/ MatchOperator \/ IdMatch \/ StrMatch \/ SymMatch
          \/ Blanks \/ ImportNameMatch \/ Finished
=============================================================================
