---------------------------- MODULE LexerProofs ----------------------------
(***************************************************************************)
(* Proofs about the lexer: whatever is buffered and whatever is still in   *)
(* the file are together the rest of the text, and lines are counted.      *)
(***************************************************************************)
EXTENDS LexerProps, SequenceTheorems, FiniteSetTheorems, WellFoundedInduction, TLAPS

Char == STRING \ {Nul}
IsText(t) == t \in Seq(Char) /\ Len(t) \in Nat \ {0} /\ t[Len(t)] = "\n"
Sources == [buf : Seq(Char), pos : Nat, file : Seq(Char)]

\* n characters of the text t were taken: the others are buffered or in the file.
Points(t, l, n) ==
  /\ l \in Sources
  /\ l.pos <= Len(l.buf) /\ Left(l) <= size
  /\ n \in Nat /\ n + Left(l) + Len(l.file) = Len(t)
  /\ \A i \in 1 .. Left(l) : l.buf[l.pos + i] = t[n + i]
  /\ \A i \in 1 .. Len(l.file) : l.file[i] = t[n + Left(l) + i]
Sized == size \in Nat /\ size > 7

-----------------------------------------------------------------------------
(* next_str and next_c                                                     *)

LEMMA RestFacts ==
  ASSUME NEW l \in Sources, l.pos <= Len(l.buf)
  PROVE  /\ Rest(l) \in Seq(Char) /\ Len(Rest(l)) = Left(l) /\ Left(l) \in Nat
         /\ \A i \in 1 .. Left(l) : Rest(l)[i] = l.buf[l.pos + i]
<1>1. l.buf \in Seq(Char) /\ l.pos \in Nat /\ Len(l.buf) \in Nat
  BY LenProperties DEF Sources
<1>2. \A i \in l.pos + 1 .. Len(l.buf) : l.buf[i] \in Char
  BY <1>1, ElementOfSeq
<1>3. l.pos + 1 \in Int /\ Len(l.buf) \in Int
  BY <1>1
<1>4. /\ Rest(l) \in Seq(Char)
      /\ Len(Rest(l)) = IF l.pos + 1 <= Len(l.buf) THEN Len(l.buf) - (l.pos + 1) + 1 ELSE 0
      /\ \A i \in 1 .. Len(l.buf) - (l.pos + 1) + 1 : Rest(l)[i] = l.buf[l.pos + 1 + i - 1]
  BY <1>2, <1>3, SubSeqProperties DEF Rest
<1>5. Left(l) = Len(l.buf) - (l.pos + 1) + 1 /\ Left(l) \in Nat
  BY <1>1 DEF Left
<1>6. ASSUME NEW i \in 1 .. Left(l) PROVE Rest(l)[i] = l.buf[l.pos + i]
  <2>1. l.pos + 1 + i - 1 = l.pos + i
    BY <1>1, <1>5
  <2> QED
    BY <1>4, <1>5, <2>1
<1>7. Len(Rest(l)) = Left(l)
  BY <1>1, <1>4, <1>5
<1> QED
  BY <1>4, <1>5, <1>6, <1>7

\* A part of a sequence.
LEMMA PartFacts ==
  ASSUME NEW s \in Seq(Char), NEW a \in Nat, NEW b \in Nat, a <= b, b <= Len(s)
  PROVE  /\ SubSeq(s, a + 1, b) \in Seq(Char) /\ Len(SubSeq(s, a + 1, b)) = b - a
         /\ \A i \in 1 .. b - a : SubSeq(s, a + 1, b)[i] = s[a + i]
<1>1. Len(s) \in Nat
  BY LenProperties
<1>2. \A i \in a + 1 .. b : s[i] \in Char
  BY <1>1, ElementOfSeq
<1>3. a + 1 \in Int /\ b \in Int
  OBVIOUS
<1>4. /\ SubSeq(s, a + 1, b) \in Seq(Char)
      /\ Len(SubSeq(s, a + 1, b)) = IF a + 1 <= b THEN b - (a + 1) + 1 ELSE 0
      /\ \A i \in 1 .. b - (a + 1) + 1 : SubSeq(s, a + 1, b)[i] = s[a + 1 + i - 1]
  BY <1>2, <1>3, SubSeqProperties
<1>5. ASSUME NEW i \in 1 .. b - a PROVE SubSeq(s, a + 1, b)[i] = s[a + i]
  <2>1. a + 1 + i - 1 = a + i /\ i \in 1 .. b - (a + 1) + 1
    OBVIOUS
  <2> QED
    BY <1>4, <2>1
<1>6. Len(SubSeq(s, a + 1, b)) = b - a
  BY <1>4
<1> QED
  BY <1>4, <1>5, <1>6

LEMMA JoinFacts ==
  ASSUME NEW u \in Seq(Char), NEW v \in Seq(Char), NEW a, NEW b, Len(u) = a, Len(v) = b
  PROVE  /\ u \o v \in Seq(Char) /\ Len(u \o v) = a + b
         /\ \A i \in 1 .. a + b : (u \o v)[i] = IF i <= a THEN u[i] ELSE v[i - a]
BY ConcatProperties

\* Filling the buffer takes nothing and loses nothing.
LEMMA FilledPoints ==
  ASSUME Sized, NEW t, IsText(t), NEW l, NEW n, Points(t, l, n), n < Len(t)
  PROVE  /\ Points(t, Filled(l), n) /\ Left(Filled(l)) >= Left(l)
         /\ l.file # <<>> /\ size > Left(l) => Left(Filled(l)) >= 1
<1> DEFINE space == size - Left(l)
           r == IF space < Len(l.file) THEN space ELSE Len(l.file)
           front == SubSeq(l.file, 1, r)
           back == SubSeq(l.file, r + 1, Len(l.file))
<1>1. /\ l \in Sources /\ l.pos <= Len(l.buf) /\ Left(l) <= size /\ n \in Nat
      /\ n + Left(l) + Len(l.file) = Len(t) /\ size \in Nat /\ size > 7 /\ Len(t) \in Nat
      /\ \A i \in 1 .. Left(l) : l.buf[l.pos + i] = t[n + i]
      /\ \A i \in 1 .. Len(l.file) : l.file[i] = t[n + Left(l) + i]
  BY DEF Points, Sized, IsText
<1>2. /\ Rest(l) \in Seq(Char) /\ Len(Rest(l)) = Left(l) /\ Left(l) \in Nat
      /\ \A i \in 1 .. Left(l) : Rest(l)[i] = l.buf[l.pos + i]
  BY <1>1, RestFacts
<1>3. l.file \in Seq(Char) /\ Len(l.file) \in Nat
  BY <1>1, LenProperties DEF Sources
<1>4. r \in 0 .. Len(l.file) /\ r <= size - Left(l)
  BY <1>1, <1>2, <1>3
<1>5. ~(r = 0 /\ Left(l) = 0)
  BY <1>1, <1>2, <1>3
<1>6. Filled(l) = [buf |-> Rest(l) \o front, pos |-> 0, file |-> back]
  BY <1>5 DEF Filled
<1> HIDE DEF r
<1>7. /\ front \in Seq(Char) /\ Len(front) = r
      /\ \A i \in 1 .. r : front[i] = l.file[i]
  <2>1. /\ SubSeq(l.file, 0 + 1, r) \in Seq(Char) /\ Len(SubSeq(l.file, 0 + 1, r)) = r - 0
        /\ \A i \in 1 .. r - 0 : SubSeq(l.file, 0 + 1, r)[i] = l.file[0 + i]
    BY <1>3, <1>4, PartFacts
  <2>2. 0 + 1 = 1 /\ r - 0 = r /\ \A i \in 1 .. r : 0 + i = i
    BY <1>4
  <2> QED
    BY <2>1, <2>2
<1>8. /\ back \in Seq(Char) /\ Len(back) = Len(l.file) - r
      /\ \A i \in 1 .. Len(l.file) - r : back[i] = l.file[r + i]
  BY <1>3, <1>4, PartFacts
<1> HIDE DEF front, back
<1>9. /\ Rest(l) \o front \in Seq(Char)
      /\ Len(Rest(l) \o front) = Left(l) + r
      /\ \A i \in 1 .. Left(l) + r :
           (Rest(l) \o front)[i] = IF i <= Left(l) THEN Rest(l)[i] ELSE front[i - Left(l)]
  BY <1>2, <1>7, JoinFacts
<1> DEFINE m == [buf |-> Rest(l) \o front, pos |-> 0, file |-> back]
<1>10. /\ m \in Sources /\ m.pos = 0 /\ m.file = back /\ m.buf = Rest(l) \o front
       /\ Left(m) = Left(l) + r
  <2>1. Len(Rest(l) \o front) - 0 = Left(l) + r
    BY <1>2, <1>4, <1>9
  <2> QED
    BY <1>8, <1>9, <2>1 DEF Sources, Left
<1> HIDE DEF m
<1>11. ASSUME NEW i \in 1 .. Left(m) PROVE m.buf[m.pos + i] = t[n + i]
  <2>1. m.pos + i = i /\ i \in 1 .. Left(l) + r
    BY <1>2, <1>4, <1>10
  <2>2. CASE i <= Left(l)
    <3>1. i \in 1 .. Left(l)
      BY <1>2, <2>1, <2>2
    <3> QED
      BY <1>1, <1>2, <1>9, <1>10, <2>1, <2>2, <3>1
  <2>3. CASE ~(i <= Left(l))
    <3>1. i - Left(l) \in 1 .. r /\ i - Left(l) \in 1 .. Len(l.file) /\ n + Left(l) + (i - Left(l)) = n + i
      <4> DEFINE left == Left(l)
                 size_ == Len(l.file)
      <4>1. left \in Nat /\ size_ \in Nat /\ r \in 0 .. size_ /\ n \in Nat
            /\ i \in 1 .. left + r /\ ~(i <= left)
        BY <1>1, <1>2, <1>3, <1>4, <2>1, <2>3
      <4> HIDE DEF left, size_
      <4>2. i - left \in 1 .. r /\ i - left \in 1 .. size_ /\ n + left + (i - left) = n + i
        BY <4>1
      <4> QED
        BY <4>2 DEF left, size_
    <3>2. m.buf[i] = front[i - Left(l)]
      BY <1>9, <1>10, <2>1, <2>3
    <3>3. front[i - Left(l)] = l.file[i - Left(l)]
      BY <1>7, <3>1
    <3>4. l.file[i - Left(l)] = t[n + Left(l) + (i - Left(l))]
      BY <1>1, <3>1
    <3> QED
      BY <2>1, <3>1, <3>2, <3>3, <3>4
  <2> QED
    BY <2>2, <2>3
<1>12. ASSUME NEW i \in 1 .. Len(m.file) PROVE m.file[i] = t[n + Left(m) + i]
  <2>1. i \in 1 .. Len(l.file) - r /\ r + i \in 1 .. Len(l.file)
    BY <1>3, <1>4, <1>8, <1>10
  <2>2. n + Left(l) + (r + i) = n + Left(m) + i
    BY <1>1, <1>2, <1>4, <1>10, <2>1
  <2>3. m.file[i] = l.file[r + i]
    BY <1>8, <1>10, <2>1
  <2>4. l.file[r + i] = t[n + Left(l) + (r + i)]
    BY <1>1, <2>1
  <2> QED
    BY <2>2, <2>3, <2>4
<1>13. /\ m.pos <= Len(m.buf) /\ Left(m) <= size
       /\ n + Left(m) + Len(m.file) = Len(t)
  <2>1. m.pos = 0 /\ Len(m.buf) \in Nat
    BY <1>2, <1>4, <1>9, <1>10
  <2> DEFINE left == Left(l)
             rest == Len(l.file)
  <2>2. /\ left \in Nat /\ rest \in Nat /\ r \in 0 .. rest /\ r <= size - left /\ n \in Nat
        /\ n + left + rest = Len(t) /\ Left(m) = left + r /\ Len(m.file) = rest - r
    BY <1>1, <1>2, <1>3, <1>4, <1>8, <1>10
  <2>3. size \in Nat
    BY <1>1
  <2> HIDE DEF left, rest
  <2>4. left + r <= size /\ n + (left + r) + (rest - r) = n + left + rest
    BY <2>2, <2>3
  <2> QED
    BY <2>1, <2>2, <2>4
<1>14. Points(t, m, n)
  BY <1>1, <1>10, <1>11, <1>12, <1>13 DEF Points
<1>15. l.file # <<>> /\ size > Left(l) => Left(m) >= 1
  <2>1. l.file # <<>> => Len(l.file) # 0
    BY <1>3, EmptySeq
  <2>2. l.file # <<>> /\ size > Left(l) => r >= 1
    BY <1>1, <1>2, <1>3, <2>1 DEF r
  <2> QED
    BY <1>2, <1>4, <1>10, <2>2
<1>16. Left(m) >= Left(l)
  BY <1>2, <1>4, <1>10
<1> QED
  BY <1>6, <1>14, <1>15, <1>16 DEF m

LEMMA PointsFacts ==
  ASSUME Sized, NEW t, IsText(t), NEW l, NEW n, Points(t, l, n)
  PROVE  /\ Left(l) \in Nat /\ Len(l.file) \in Nat /\ n \in 0 .. Len(t) /\ Len(t) \in Nat
         /\ l.file = <<>> <=> Len(l.file) = 0
         /\ l.pos \in Nat /\ l.buf \in Seq(Char) /\ Len(l.buf) = l.pos + Left(l)
<1>1. l \in Sources /\ l.pos <= Len(l.buf) /\ n \in Nat /\ n + Left(l) + Len(l.file) = Len(t)
  BY DEF Points
<1>2. /\ Left(l) \in Nat /\ Len(l.file) \in Nat /\ Len(t) \in Nat /\ l.file \in Seq(Char)
      /\ l.pos \in Nat /\ l.buf \in Seq(Char) /\ Len(l.buf) \in Nat /\ Left(l) = Len(l.buf) - l.pos
  BY <1>1, LenProperties, RestFacts DEF Sources, IsText, Left
<1>3. l.file = <<>> <=> Len(l.file) = 0
  BY <1>2, EmptySeq
<1> DEFINE left == Left(l)
           rest == Len(l.file)
           all == Len(t)
<1>4. /\ left \in Nat /\ rest \in Nat /\ all \in Nat /\ n \in Nat /\ n + left + rest = all
      /\ Len(l.buf) \in Nat /\ l.pos \in Nat /\ left = Len(l.buf) - l.pos
  BY <1>1, <1>2
<1> HIDE DEF left, rest, all
<1>5. n \in 0 .. all /\ Len(l.buf) = l.pos + left
  BY <1>4
<1> QED
  BY <1>2, <1>3, <1>5, Zenon DEF left, rest, all

\* What is given is there.
LEMMA NextStrPoints ==
  ASSUME Sized, NEW t, IsText(t), NEW l, NEW n, Points(t, l, n), n < Len(t), NEW count \in Nat
  PROVE  /\ Points(t, NextStr(l, count).l, n)
         /\ NextStr(l, count).ok => Left(NextStr(l, count).l) >= count
         /\ Left(NextStr(l, count).l) >= Left(l)
<1>1. Left(l) \in Nat
  BY PointsFacts
<1>2. CASE Left(l) > count
  BY <1>1, <1>2 DEF NextStr
<1>3. CASE ~(Left(l) > count)
  BY <1>3, FilledPoints DEF NextStr
<1> QED
  BY <1>2, <1>3

\* The next character is that of the text, or cannot be had.
LEMMA NextCPoints ==
  ASSUME Sized, NEW t, IsText(t), NEW l, NEW n, Points(t, l, n), n < Len(t)
  PROVE  /\ Points(t, NextC(l).l, n)
         /\ NextC(l).c # Nul => NextC(l).c = t[n + 1] /\ Left(NextC(l).l) >= 1
<1> DEFINE r == NextStr(l, 1)
<1>1. Points(t, r.l, n) /\ (r.ok => Left(r.l) >= 1)
  BY NextStrPoints
<1>2. NextC(l) = [c |-> IF r.ok THEN r.l.buf[r.l.pos + 1] ELSE Nul, l |-> r.l]
  BY DEF NextC
<1> HIDE DEF r
<1>3. NextC(l).l = r.l /\ (NextC(l).c # Nul => r.ok /\ NextC(l).c = r.l.buf[r.l.pos + 1])
  BY <1>2
<1>4. r.ok => r.l.buf[r.l.pos + 1] = t[n + 1]
  <2>1. Left(r.l) \in Nat
    BY <1>1, PointsFacts
  <2>2. r.ok => 1 \in 1 .. Left(r.l)
    BY <1>1, <2>1
  <2> QED
    BY <1>1, <2>2 DEF Points
<1> QED
  BY <1>1, <1>3, <1>4

\* Past the end of the text there is no character.
LEMMA NextCAtEnd ==
  ASSUME Sized, NEW t, IsText(t), NEW l, Points(t, l, Len(t))
  PROVE  NextC(l).c = Nul
<1>1. Left(l) = 0 /\ l.file = <<>>
  <2>1. Len(t) + Left(l) + Len(l.file) = Len(t)
    BY DEF Points
  <2>2. Left(l) \in Nat /\ Len(l.file) \in Nat /\ Len(t) \in Nat /\ (l.file = <<>> <=> Len(l.file) = 0)
    BY PointsFacts
  <2> QED
    BY <2>1, <2>2
<1>2. ~NextStr(l, 1).ok
  <2>1. ~(Left(l) > 1)
    BY <1>1
  <2>2. NextStr(l, 1) = [ok |-> l.file # <<>> /\ size > Left(l) /\ Left(Filled(l)) >= 1, l |-> Filled(l)]
    BY <2>1 DEF NextStr
  <2>3. (l.file # <<>> /\ size > Left(l) /\ Left(Filled(l)) >= 1) = FALSE
    BY <1>1
  <2>4. NextStr(l, 1) = [ok |-> FALSE, l |-> Filled(l)]
    BY <2>2, <2>3
  <2> QED
    BY <2>4
<1> QED
  BY <1>2 DEF NextC

\* Taking characters.
LEMMA AdvancePoints ==
  ASSUME Sized, NEW t, IsText(t), NEW l, NEW n, Points(t, l, n), NEW k \in 0 .. Left(l)
  PROVE  Points(t, Advance(l, k), n + k)
<1>1. /\ l \in Sources /\ l.pos <= Len(l.buf) /\ Left(l) <= size
      /\ n \in Nat /\ n + Left(l) + Len(l.file) = Len(t)
      /\ \A i \in 1 .. Left(l) : l.buf[l.pos + i] = t[n + i]
      /\ \A i \in 1 .. Len(l.file) : l.file[i] = t[n + Left(l) + i]
  BY DEF Points
<1>2. /\ Left(l) \in Nat /\ Len(l.file) \in Nat /\ Len(t) \in Nat /\ l.pos \in Nat
      /\ l.buf \in Seq(Char) /\ Len(l.buf) = l.pos + Left(l)
  BY PointsFacts
<1> DEFINE m == Advance(l, k)
<1>3. m \in Sources /\ m.pos = l.pos + k /\ m.buf = l.buf /\ m.file = l.file
  <2>1. l \in [buf : Seq(Char), pos : Nat, file : Seq(Char)] /\ l.pos + k \in Nat
    BY <1>1, <1>2 DEF Sources
  <2>2. m = [l EXCEPT !.pos = l.pos + k]
    BY DEF Advance
  <2>3. m = [buf |-> l.buf, pos |-> l.pos + k, file |-> l.file]
    BY <2>1, <2>2
  <2> QED
    BY <2>1, <2>3 DEF Sources
<1> HIDE DEF m
<1>4. Left(m) = Left(l) - k
  BY <1>2, <1>3 DEF Left
<1>5. ASSUME NEW i \in 1 .. Left(m) PROVE m.buf[m.pos + i] = t[n + k + i]
  <2>1. k + i \in 1 .. Left(l) /\ l.pos + (k + i) = m.pos + i /\ n + (k + i) = n + k + i
    BY <1>1, <1>2, <1>3, <1>4
  <2> QED
    BY <1>1, <1>3, <2>1
<1>6. ASSUME NEW i \in 1 .. Len(m.file) PROVE m.file[i] = t[n + k + Left(m) + i]
  <2>1. n + k + Left(m) + i = n + Left(l) + i
    BY <1>1, <1>2, <1>3, <1>4
  <2> QED
    BY <1>1, <1>3, <2>1
<1>7. /\ m.pos <= Len(m.buf) /\ Left(m) <= size
      /\ n + k \in Nat /\ n + k + Left(m) + Len(m.file) = Len(t)
  BY SMTT(30), <1>1, <1>2, <1>3, <1>4 DEF Sized
<1>8. Points(t, m, n + k)
  BY <1>3, <1>5, <1>6, <1>7 DEF Points
<1> QED
  BY <1>8 DEF m

\* A character cannot be had when it is the last one.
LEMMA NulMeansLast ==
  ASSUME Sized, NEW t, IsText(t), NEW l, NEW n, Points(t, l, n), n < Len(t), NextC(l).c = Nul
  PROVE  /\ n + 1 = Len(t) /\ Points(t, NextC(l).l, n)
         /\ Left(NextC(l).l) = 1 /\ NextC(l).l.file = <<>>
<1> DEFINE r == NextStr(l, 1)
<1>1. Points(t, r.l, n) /\ (r.ok => Left(r.l) >= 1) /\ Left(r.l) >= Left(l)
  BY NextStrPoints
<1>2. /\ Left(l) \in Nat /\ Len(l.file) \in Nat /\ n \in Nat /\ Len(t) \in Nat
      /\ (l.file = <<>> <=> Len(l.file) = 0)
      /\ n + Left(l) + Len(l.file) = Len(t)
  BY PointsFacts DEF Points
<1>3. /\ Left(r.l) \in Nat /\ Len(r.l.file) \in Nat /\ (r.l.file = <<>> <=> Len(r.l.file) = 0)
      /\ n + Left(r.l) + Len(r.l.file) = Len(t)
      /\ r.l.pos \in Nat /\ r.l.buf \in Seq(Char) /\ Len(r.l.buf) = r.l.pos + Left(r.l)
  <2> HIDE DEF r
  <2>1. /\ Left(r.l) \in Nat /\ Len(r.l.file) \in Nat /\ (r.l.file = <<>> <=> Len(r.l.file) = 0)
        /\ r.l.pos \in Nat /\ r.l.buf \in Seq(Char) /\ Len(r.l.buf) = r.l.pos + Left(r.l)
    BY <1>1, PointsFacts
  <2>2. n + Left(r.l) + Len(r.l.file) = Len(t)
    BY <1>1 DEF Points
  <2> QED
    BY <2>1, <2>2
<1>4. NextC(l) = [c |-> IF r.ok THEN r.l.buf[r.l.pos + 1] ELSE Nul, l |-> r.l]
  BY DEF NextC
<1>5. ~r.ok
  <2> SUFFICES ASSUME r.ok PROVE FALSE
    OBVIOUS
  <2>1. r.l.buf[r.l.pos + 1] = Nul
    BY <1>4
  <2>2. r.l.pos + 1 \in 1 .. Len(r.l.buf)
    BY <1>1, <1>3
  <2>3. r.l.buf[r.l.pos + 1] \in Char
    BY <1>3, <2>2, ElementOfSeq
  <2> QED
    BY <2>1, <2>3 DEF Char
<1>6. ~(Left(l) > 1)
  BY <1>5 DEF NextStr
<1>7. r = [ok |-> l.file # <<>> /\ size > Left(l) /\ Left(Filled(l)) >= 1, l |-> Filled(l)]
  BY <1>6 DEF NextStr
<1>8. l.file = <<>>
  <2> SUFFICES ASSUME l.file # <<>> PROVE FALSE
    OBVIOUS
  <2>1. size > Left(l)
    BY <1>2, <1>6 DEF Sized
  <2>2. Left(Filled(l)) >= 1
    BY <2>1, FilledPoints
  <2>3. (l.file # <<>> /\ size > Left(l) /\ Left(Filled(l)) >= 1) = TRUE
    BY <2>1, <2>2
  <2>4. r = [ok |-> TRUE, l |-> Filled(l)]
    BY <1>7, <2>3
  <2>5. r.ok
    BY <2>4
  <2> QED
    BY <1>5, <2>5
<1> HIDE DEF r
<1>9. NextC(l).l = r.l
  BY <1>4
<1>10. n + 1 = Len(t) /\ Left(l) = 1
  BY <1>2, <1>6, <1>8
<1>11. Left(r.l) = 1 /\ Len(r.l.file) = 0
  BY <1>1, <1>2, <1>3, <1>10
<1> QED
  BY <1>1, <1>3, <1>9, <1>10, <1>11

LEMMA NulStays ==
  ASSUME NEW l, l.file = <<>>, Left(l) = 1
  PROVE  NextC(l).c = Nul
<1>1. ~(Left(l) > 1)
  OBVIOUS
<1>2. NextStr(l, 1) = [ok |-> l.file # <<>> /\ size > Left(l) /\ Left(Filled(l)) >= 1, l |-> Filled(l)]
  BY <1>1 DEF NextStr
<1>3. (l.file # <<>> /\ size > Left(l) /\ Left(Filled(l)) >= 1) = FALSE
  OBVIOUS
<1>4. NextStr(l, 1) = [ok |-> FALSE, l |-> Filled(l)]
  BY <1>2, <1>3
<1> QED
  BY <1>4 DEF NextC

-----------------------------------------------------------------------------
(* Lines.                                                                  *)

NewLines(t, n) == {i \in 1 .. n : t[i] = "\n"}
Quoted(t, n) == \E i \in 1 .. n : t[i] = "\""
NoNewLine(t, n, m) == \A i \in n + 1 .. m : t[i] # "\n"

LEMMA OneMore ==
  ASSUME NEW t, NEW n \in Nat
  PROVE  /\ IsFiniteSet(NewLines(t, n)) /\ Cardinality(NewLines(t, n)) \in Nat
         /\ t[n + 1] = "\n" => Cardinality(NewLines(t, n + 1)) = Cardinality(NewLines(t, n)) + 1
<1>1. IsFiniteSet(1 .. n)
  BY FS_Interval
<1>2. NewLines(t, n) \in SUBSET (1 .. n)
  BY DEF NewLines
<1>3. IsFiniteSet(NewLines(t, n))
  BY <1>1, <1>2, FS_Subset
<1>4. Cardinality(NewLines(t, n)) \in Nat
  BY <1>3, FS_CardinalityType
<1>5. ASSUME t[n + 1] = "\n" PROVE Cardinality(NewLines(t, n + 1)) = Cardinality(NewLines(t, n)) + 1
  <2>1. NewLines(t, n + 1) = NewLines(t, n) \cup {n + 1}
    BY <1>5 DEF NewLines
  <2>2. n + 1 \notin NewLines(t, n)
    BY DEF NewLines
  <2> QED
    BY <1>3, <2>1, <2>2, FS_AddElement
<1> QED
  BY <1>3, <1>4, <1>5

LEMMA NoneMore ==
  ASSUME NEW t, NEW n \in Nat, NEW m \in Nat, n <= m, NoNewLine(t, n, m)
  PROVE  NewLines(t, m) = NewLines(t, n)
BY DEF NewLines, NoNewLine

LEMMA QuotedStays ==
  ASSUME NEW t, NEW n \in Nat, NEW m \in Nat, n <= m
  PROVE  Quoted(t, n) => Quoted(t, m)
<1>1. 1 .. n \subseteq 1 .. m
  OBVIOUS
<1> QED
  BY <1>1 DEF Quoted

LEMMA NotLast ==
  ASSUME NEW t, IsText(t), NEW n \in Nat, n < Len(t), t[n + 1] # "\n"
  PROVE  n + 1 < Len(t)
BY DEF IsText
-----------------------------------------------------------------------------
(* The invariant: n characters were taken, and their lines are counted.    *)

At_(n) ==
  /\ Points(sample.text, source, n)
  /\ Quoted(sample.text, n) \/ line = 1 + Cardinality(NewLines(sample.text, n))
  /\ n = Len(sample.text) => /\ mode \in {"start", "again", "string"}
                             /\ mode = "start" => ~import_name
  /\ mode = "string" => Quoted(sample.text, n)
Inv ==
  /\ sample \in Samples /\ IsText(sample.text) /\ Sized
  /\ Over \/ \E n \in 0 .. Len(sample.text) : At_(n)

\* No newline is among the characters taken to come to l.
Reads(t, n, l) ==
  \E m \in Nat : n <= m /\ m < Len(t) /\ Points(t, l, m) /\ NoNewLine(t, n, m)
\* A step of an execution that has taken n characters, and not all of them.
Between(n) ==
  /\ sample \in Samples /\ IsText(sample.text) /\ Sized /\ n \in Nat /\ n < Len(sample.text)
  /\ At_(n)
  /\ UNCHANGED <<size, sample>>

LEMMA ReadsNothing ==
  ASSUME NEW t, NEW l, NEW n \in Nat, n < Len(t), Points(t, l, n)
  PROVE  Reads(t, n, l)
<1>1. NoNewLine(t, n, n)
  BY DEF NoNewLine
<1> QED
  BY <1>1 DEF Reads

LEMMA ReadsPeek ==
  ASSUME Sized, NEW t, IsText(t), NEW l, NEW n \in Nat, Reads(t, n, l)
  PROVE  Reads(t, n, NextC(l).l)
<1>1. PICK m \in Nat : n <= m /\ m < Len(t) /\ Points(t, l, m) /\ NoNewLine(t, n, m)
  BY DEF Reads
<1>2. Points(t, NextC(l).l, m)
  BY <1>1, NextCPoints
<1> QED
  BY <1>1, <1>2 DEF Reads

LEMMA ReadsOne ==
  ASSUME Sized, NEW t, IsText(t), NEW l, NEW n \in Nat, Reads(t, n, l),
         NextC(l).c # Nul, NextC(l).c # "\n"
  PROVE  Reads(t, n, Advance(NextC(l).l, 1))
<1>1. PICK m \in Nat : n <= m /\ m < Len(t) /\ Points(t, l, m) /\ NoNewLine(t, n, m)
  BY DEF Reads
<1>2. /\ Points(t, NextC(l).l, m)
      /\ t[m + 1] # "\n" /\ Left(NextC(l).l) >= 1
  BY <1>1, NextCPoints
<1>3. 1 \in 0 .. Left(NextC(l).l)
  <2> DEFINE k == NextC(l).l
  <2> HIDE DEF k
  <2>1. Points(t, k, m) => Left(k) \in Nat
    BY PointsFacts
  <2> QED
    BY <1>2, <2>1 DEF k
<1>4. Points(t, Advance(NextC(l).l, 1), m + 1)
  BY <1>2, <1>3, AdvancePoints
<1>5. m + 1 < Len(t)
  BY <1>1, <1>2, NotLast
<1>6. NoNewLine(t, n, m + 1)
  BY <1>1, <1>2 DEF NoNewLine
<1>7. m + 1 \in Nat /\ n <= m + 1
  BY <1>1
<1> QED
  BY <1>4, <1>5, <1>6, <1>7 DEF Reads

\* Characters taken that are no newlines leave the lines counted.
LEMMA Keeps ==
  ASSUME NEW n, Between(n), Reads(sample.text, n, source'), UNCHANGED line,
         mode' = "string" => Quoted(sample.text, n)
  PROVE  Inv'
<1> DEFINE t == sample.text
<1>1. /\ sample' \in Samples /\ IsText(t) /\ sample'.text = t /\ size' = size /\ Sized /\ n \in Nat
      /\ Quoted(t, n) \/ line = 1 + Cardinality(NewLines(t, n))
      /\ line' = line
  BY DEF Between, At_
<1>2. PICK m \in Nat : n <= m /\ m < Len(t) /\ Points(t, source', m) /\ NoNewLine(t, n, m)
  BY DEF Reads
<1>3. Points(sample.text, source, m)'
  BY <1>1, <1>2 DEF Points, Left
<1>4. NewLines(t, m) = NewLines(t, n)
  BY <1>1, <1>2, NoneMore
<1>5. Quoted(t, n) => Quoted(t, m)
  BY <1>1, <1>2, QuotedStays
<1> HIDE DEF t
<1>6. Quoted(t, m) \/ line' = 1 + Cardinality(NewLines(t, m))
  BY <1>1, <1>4, <1>5
<1>7. m \in 0 .. Len(t) /\ m # Len(t)
  BY <1>1, <1>2 DEF IsText
<1>8. mode' = "string" => Quoted(t, m)
  BY <1>5 DEF t
<1>9. At_(m)'
  <2>1. Quoted(sample.text, m)' <=> Quoted(t, m)
    BY <1>1 DEF Quoted
  <2>2. NewLines(sample.text, m)' = NewLines(t, m)
    BY <1>1 DEF NewLines
  <2>3. (Quoted(sample.text, m) \/ line = 1 + Cardinality(NewLines(sample.text, m)))'
    BY <1>6, <2>1, <2>2
  <2>4. (mode = "string" => Quoted(sample.text, m))'
    BY <1>8, <2>1
  <2>5. (m # Len(sample.text))'
    BY <1>1, <1>7
  <2> QED
    BY <1>3, <2>3, <2>4, <2>5 DEF At_
<1>10. Sized'
  BY <1>1 DEF Sized
<1>11. IsText(sample.text)'
  BY <1>1 DEF IsText
<1> QED
  BY <1>1, <1>7, <1>9, <1>10, <1>11 DEF Inv

-----------------------------------------------------------------------------
(* What the actions are made of.                                           *)

LEMMA GoKeeps ==
  ASSUME NEW n, Between(n), NEW m, m # "string", NEW l, Reads(sample.text, n, l), Go(m, l)
  PROVE  Inv'
<1>1. mode' = m /\ source' = l /\ line' = line
  BY DEF Go
<1> QED
  BY <1>1, Keeps

LEMMA GiveKeeps ==
  ASSUME NEW n, Between(n), NEW major, NEW minor, NEW l, Reads(sample.text, n, l),
         Give(major, minor, l)
  PROVE  Inv'
<1>1. mode' \in {"start", "done"} /\ source' = l /\ line' = line
  BY DEF Give, Return_
<1>2. mode' # "string"
  BY <1>1
<1> QED
  BY <1>1, <1>2, Keeps

LEMMA IdentifierKeeps ==
  ASSUME NEW n, Between(n), NEW tk, NEW l, Reads(sample.text, n, l), Identifier(tk, l)
  PROVE  Inv'
<1>1. mode' = "identifier" /\ source' = l /\ line' = line
  BY DEF Identifier
<1> QED
  BY <1>1, Keeps

LEMMA MoreKeeps ==
  ASSUME NEW n, Between(n), NEW m, m # "string", NEW l, Reads(sample.text, n, l),
         NextC(l).c \notin {Nul, "\n"}, More(m, NextC(l))
  PROVE  Inv'
<1>1. Reads(sample.text, n, Advance(NextC(l).l, 1))
  BY ReadsOne DEF Between
<1>2. Go(m, Advance(NextC(l).l, 1))
  BY DEF More
<1> QED
  BY <1>1, <1>2, GoKeeps

LEMMA EndKeeps ==
  ASSUME sample \in Samples, IsText(sample.text), Sized, UNCHANGED <<size, sample>>,
         mode' \in {"done", "failed"}
  PROVE  Inv'
<1>1. Sized' /\ IsText(sample.text)' /\ (sample \in Samples)'
  BY DEF Sized, IsText
<1>2. Over'
  BY DEF Over
<1> QED
  BY <1>1, <1>2 DEF Inv

\* A newline is taken and counted.
LEMMA CountKeeps ==
  ASSUME NEW n, Between(n), NEW l, Points(sample.text, l, n), Left(l) >= 1,
         sample.text[n + 1] = "\n", source' = Advance(l, 1), line' = line + 1,
         mode' \in {"start", "again"}, mode' = "start" => ~import_name'
  PROVE  Inv'
<1> DEFINE t == sample.text
           m == n + 1
<1>1. /\ sample' \in Samples /\ IsText(t) /\ sample'.text = t /\ size' = size /\ Sized /\ n \in Nat
      /\ n < Len(t) /\ Len(t) \in Nat
      /\ Quoted(t, n) \/ line = 1 + Cardinality(NewLines(t, n))
  BY DEF Between, At_, IsText
<1>2. Points(t, source', m)
  <2>1. Left(l) \in Nat
    BY <1>1, PointsFacts
  <2>2. 1 \in 0 .. Left(l)
    BY <2>1
  <2> QED
    BY <1>1, <2>2, AdvancePoints
<1>3. Points(sample.text, source, m)'
  BY <1>1, <1>2 DEF Points, Left
<1>4. /\ Cardinality(NewLines(t, n)) \in Nat
      /\ Cardinality(NewLines(t, m)) = Cardinality(NewLines(t, n)) + 1
  BY <1>1, OneMore
<1>5. m \in Nat /\ n <= m /\ m \in 0 .. Len(t)
  BY <1>1
<1>6. Quoted(t, n) => Quoted(t, m)
  BY <1>1, <1>5, QuotedStays
<1>7. Quoted(sample.text, m)' <=> Quoted(t, m)
  BY <1>1 DEF Quoted
<1>8. NewLines(sample.text, m)' = NewLines(t, m)
  BY <1>1 DEF NewLines
<1> HIDE DEF t, m
<1>9. Quoted(t, m) \/ line' = 1 + Cardinality(NewLines(t, m))
  BY <1>1, <1>4, <1>6
<1>10. (Quoted(sample.text, m) \/ line = 1 + Cardinality(NewLines(sample.text, m)))'
  BY <1>7, <1>8, <1>9
<1>11. At_(m)'
  BY <1>3, <1>10 DEF At_
<1>12. Sized' /\ IsText(sample.text)' /\ (sample \in Samples)' /\ (m \in 0 .. Len(sample.text))'
  BY <1>1, <1>5 DEF Sized, IsText
<1> QED
  BY <1>11, <1>12 DEF Inv

-----------------------------------------------------------------------------
(* The tokens that next_token itself reads.                                *)

LEMMA SourceReads ==
  ASSUME NEW n, Between(n)
  PROVE  Reads(sample.text, n, source) /\ Reads(sample.text, n, NextC(source).l)
<1>1. Reads(sample.text, n, source)
  BY ReadsNothing DEF Between, At_
<1>2. Reads(sample.text, n, NextC(source).l)
  BY <1>1, ReadsPeek DEF Between
<1> QED
  BY <1>1, <1>2

LEMMA OneReads ==
  ASSUME NEW n, Between(n), NextC(source).c # Nul, NextC(source).c # "\n"
  PROVE  Reads(sample.text, n, Advance(NextC(source).l, 1))
BY SourceReads, ReadsOne DEF Between

\* What follows a character, and is taken too or not.
LEMMA TwoRead ==
  ASSUME NEW n, Between(n), NextC(source).c # Nul, NextC(source).c # "\n",
         NEW r, r = NextC(Advance(NextC(source).l, 1))
  PROVE  /\ Reads(sample.text, n, r.l)
         /\ r.c # Nul /\ r.c # "\n" => Reads(sample.text, n, Advance(r.l, 1))
<1>1. Reads(sample.text, n, Advance(NextC(source).l, 1))
  BY OneReads
<1>2. Reads(sample.text, n, r.l)
  BY <1>1, ReadsPeek DEF Between
<1>3. r.c # Nul /\ r.c # "\n" => Reads(sample.text, n, Advance(r.l, 1))
  BY <1>1, ReadsOne DEF Between
<1> QED
  BY <1>2, <1>3

LEMMA NewlineKeeps ==
  ASSUME NEW n, Between(n), Newline(NextC(source).c, NextC(source).l)
  PROVE  Inv'
<1> DEFINE r == NextC(source)
<1>1. r.c = "\n" /\ r.c # Nul
  BY DEF Newline, Nul
<1>2. Points(sample.text, r.l, n) /\ Left(r.l) >= 1 /\ sample.text[n + 1] = "\n"
  BY <1>1, NextCPoints DEF Between, At_
<1>3. source' = Advance(r.l, 1) /\ line' = line + 1 /\ mode' = "start" /\ ~import_name'
  BY DEF Newline, Return_
<1> HIDE DEF r
<1> QED
  BY <1>2, <1>3, CountKeeps

LEMMA MarkKeeps ==
  ASSUME NEW n, Between(n), Mark(NextC(source).c, NextC(source).l)
  PROVE  Inv'
<1>1. NextC(source).c # Nul /\ NextC(source).c # "\n"
  BY DEF Mark, Marks, Nul
<1>2. Reads(sample.text, n, Advance(NextC(source).l, 1))
  BY <1>1, OneReads
<1>3. Give(Marks[NextC(source).c], NoText, Advance(NextC(source).l, 1))
  BY DEF Mark
<1> QED
  BY <1>2, <1>3, GiveKeeps

LEMMA OperatorKeeps ==
  ASSUME NEW n, Between(n), Operator(NextC(source).c, NextC(source).l)
  PROVE  Inv'
<1>1. NextC(source).c # Nul /\ NextC(source).c # "\n"
  BY DEF Operator, Starts, Nul
<1>2. Reads(sample.text, n, Advance(NextC(source).l, 1))
  BY <1>1, OneReads
<1>3. Go("operator", Advance(NextC(source).l, 1))
  BY DEF Operator
<1> QED
  BY <1>2, <1>3, GoKeeps

LEMMA PipeKeeps ==
  ASSUME NEW n, Between(n), Pipe(NextC(source).c, NextC(source).l)
  PROVE  Inv'
<1>1. NextC(source).c # Nul /\ NextC(source).c # "\n"
  BY DEF Pipe, Nul
<1>2. Reads(sample.text, n, Advance(NextC(source).l, 1))
  BY <1>1, OneReads
<1>3. Give("PIPE", Text(<<"|">>), Advance(NextC(source).l, 1))
  BY DEF Pipe
<1> QED
  BY <1>2, <1>3, GiveKeeps

LEMMA AtKeeps ==
  ASSUME NEW n, Between(n), At(NextC(source).c, NextC(source).l)
  PROVE  Inv'
<1>1. NextC(source).c # Nul /\ NextC(source).c # "\n"
  BY DEF At, Nul
<1>2. Reads(sample.text, n, Advance(NextC(source).l, 1))
  BY <1>1, OneReads
<1>3. Identifier("IVAR", Advance(NextC(source).l, 1))
  BY DEF At
<1> QED
  BY <1>2, <1>3, IdentifierKeeps

LEMMA PercentKeeps ==
  ASSUME NEW n, Between(n), Percent(NextC(source).c, NextC(source).l)
  PROVE  Inv'
<1> DEFINE r == NextC(Advance(NextC(source).l, 1))
<1>1. NextC(source).c # Nul /\ NextC(source).c # "\n"
  BY DEF Percent, Nul
<1>2. /\ Reads(sample.text, n, r.l)
      /\ r.c # Nul /\ r.c # "\n" => Reads(sample.text, n, Advance(r.l, 1))
  BY <1>1, TwoRead
<1>3. IF r.c \in DOMAIN Percents THEN Give(Percents[r.c], NoText, Advance(r.l, 1))
      ELSE Go("symbol", r.l)
  BY DEF Percent
<1>4. r.c \in DOMAIN Percents => r.c # Nul /\ r.c # "\n"
  BY DEF Percents, Nul
<1> HIDE DEF r
<1>5. CASE r.c \in DOMAIN Percents
  <2>1. Give(Percents[r.c], NoText, Advance(r.l, 1)) /\ Reads(sample.text, n, Advance(r.l, 1))
    BY <1>2, <1>3, <1>4, <1>5
  <2> QED
    BY <2>1, GiveKeeps
<1>6. CASE r.c \notin DOMAIN Percents
  <2>1. Go("symbol", r.l)
    BY <1>3, <1>6
  <2> QED
    BY <1>2, <2>1, GoKeeps
<1> QED
  BY <1>5, <1>6

LEMMA DotKeeps ==
  ASSUME NEW n, Between(n), Dot(NextC(source).c, NextC(source).l)
  PROVE  Inv'
<1> DEFINE r == NextC(Advance(NextC(source).l, 1))
<1>1. NextC(source).c # Nul /\ NextC(source).c # "\n"
  BY DEF Dot, Nul
<1>2. /\ Reads(sample.text, n, r.l)
      /\ r.c # Nul /\ r.c # "\n" => Reads(sample.text, n, Advance(r.l, 1))
  BY <1>1, TwoRead
<1>3. IF r.c = "$" THEN Give("DOT_DOLLAR", NoText, Advance(r.l, 1)) ELSE Identifier("DOT", r.l)
  BY DEF Dot
<1> HIDE DEF r
<1>4. CASE r.c = "$"
  <2>1. Give("DOT_DOLLAR", NoText, Advance(r.l, 1)) /\ Reads(sample.text, n, Advance(r.l, 1))
    BY <1>2, <1>3, <1>4 DEF Nul
  <2> QED
    BY <2>1, GiveKeeps
<1>5. CASE r.c # "$"
  <2>1. Identifier("DOT", r.l)
    BY <1>3, <1>5
  <2> QED
    BY <1>2, <2>1, IdentifierKeeps
<1> QED
  BY <1>4, <1>5

LEMMA SquareKeeps ==
  ASSUME NEW n, Between(n), Square(NextC(source).c, NextC(source).l)
  PROVE  Inv'
<1> DEFINE r == NextC(Advance(NextC(source).l, 1))
<1>1. NextC(source).c # Nul /\ NextC(source).c # "\n"
  BY DEF Square, Nul
<1>2. /\ Reads(sample.text, n, r.l)
      /\ r.c # Nul /\ r.c # "\n" => Reads(sample.text, n, Advance(r.l, 1))
  BY <1>1, TwoRead
<1>3. IF r.c = "]" THEN Give("SQUARE", Text(<<"[", "]">>), Advance(r.l, 1))
      ELSE Give("LSB", NoText, r.l)
  BY DEF Square
<1> HIDE DEF r
<1>4. CASE r.c = "]"
  <2>1. Give("SQUARE", Text(<<"[", "]">>), Advance(r.l, 1)) /\ Reads(sample.text, n, Advance(r.l, 1))
    BY <1>2, <1>3, <1>4 DEF Nul
  <2> QED
    BY <2>1, GiveKeeps
<1>5. CASE r.c # "]"
  <2>1. Give("LSB", NoText, r.l)
    BY <1>3, <1>5
  <2> QED
    BY <1>2, <2>1, GiveKeeps
<1> QED
  BY <1>4, <1>5

LEMMA BangKeeps ==
  ASSUME NEW n, Between(n), Bang(NextC(source).c, NextC(source).l)
  PROVE  Inv'
<1> DEFINE r == NextC(Advance(NextC(source).l, 1))
<1>1. NextC(source).c # Nul /\ NextC(source).c # "\n"
  BY DEF Bang, Nul
<1>2. /\ Reads(sample.text, n, r.l)
      /\ r.c # Nul /\ r.c # "\n" => Reads(sample.text, n, Advance(r.l, 1))
  BY <1>1, TwoRead
<1>3. IF r.c = "=" THEN Give("NEQUAL", NoText, Advance(r.l, 1))
      ELSE Give("NOT", NoText, r.l)
  BY DEF Bang
<1> HIDE DEF r
<1>4. CASE r.c = "="
  <2>1. Give("NEQUAL", NoText, Advance(r.l, 1)) /\ Reads(sample.text, n, Advance(r.l, 1))
    BY <1>2, <1>3, <1>4 DEF Nul
  <2> QED
    BY <2>1, GiveKeeps
<1>5. CASE r.c # "="
  <2>1. Give("NOT", NoText, r.l)
    BY <1>3, <1>5
  <2> QED
    BY <1>2, <2>1, GiveKeeps
<1> QED
  BY <1>4, <1>5

LEMMA ColonKeeps ==
  ASSUME NEW n, Between(n), Colon(NextC(source).c, NextC(source).l)
  PROVE  Inv'
<1> DEFINE r == NextC(Advance(NextC(source).l, 1))
<1>1. NextC(source).c # Nul /\ NextC(source).c # "\n"
  BY DEF Colon, Nul
<1>2. /\ Reads(sample.text, n, r.l)
      /\ r.c # Nul /\ r.c # "\n" => Reads(sample.text, n, Advance(r.l, 1))
  BY <1>1, TwoRead
<1>3. IF r.c = ":" THEN Give("DCOLON", Text(<<":", ":">>), Advance(r.l, 1))
      ELSE Give("CAST", NoText, r.l)
  BY DEF Colon
<1> HIDE DEF r
<1>4. CASE r.c = ":"
  <2>1. Give("DCOLON", Text(<<":", ":">>), Advance(r.l, 1)) /\ Reads(sample.text, n, Advance(r.l, 1))
    BY <1>2, <1>3, <1>4 DEF Nul
  <2> QED
    BY <2>1, GiveKeeps
<1>5. CASE r.c # ":"
  <2>1. Give("CAST", NoText, r.l)
    BY <1>3, <1>5
  <2> QED
    BY <1>2, <2>1, GiveKeeps
<1> QED
  BY <1>4, <1>5

LEMMA EqualKeeps ==
  ASSUME NEW n, Between(n), Equal(NextC(source).c, NextC(source).l)
  PROVE  Inv'
<1> DEFINE second == NextC(Advance(NextC(source).l, 1))
           third == NextC(Advance(second.l, 1))
<1>1. NextC(source).c # Nul /\ NextC(source).c # "\n"
  BY DEF Equal, Nul
<1>2. /\ Reads(sample.text, n, second.l)
      /\ second.c # Nul /\ second.c # "\n" => Reads(sample.text, n, Advance(second.l, 1))
  BY <1>1, TwoRead
<1>3. IF second.c # "=" THEN Give("EQUAL", NoText, second.l)
      ELSE IF third.c = "=" THEN Give("OP0", Text(<<"=", "=", "=">>), Advance(third.l, 1))
      ELSE Give("OP0", Text(<<"=", "=">>), third.l)
  BY DEF Equal
<1>4. second.c = "=" => /\ Reads(sample.text, n, third.l)
                        /\ third.c = "=" => Reads(sample.text, n, Advance(third.l, 1))
  <2> SUFFICES ASSUME second.c = "="
               PROVE  /\ Reads(sample.text, n, third.l)
                      /\ third.c = "=" => Reads(sample.text, n, Advance(third.l, 1))
    OBVIOUS
  <2>1. Reads(sample.text, n, Advance(second.l, 1))
    BY <1>2 DEF Nul
  <2> HIDE DEF second
  <2>2. Reads(sample.text, n, third.l)
    BY <2>1, ReadsPeek DEF Between
  <2>3. third.c # Nul /\ third.c # "\n" => Reads(sample.text, n, Advance(third.l, 1))
    BY <2>1, ReadsOne DEF Between
  <2> HIDE DEF third
  <2> QED
    BY <2>2, <2>3 DEF Nul
<1> HIDE DEF second, third
<1>5. CASE second.c # "="
  <2>1. Give("EQUAL", NoText, second.l)
    BY <1>3, <1>5
  <2> QED
    BY <1>2, <2>1, GiveKeeps
<1>6. CASE second.c = "=" /\ third.c = "="
  <2>1. Give("OP0", Text(<<"=", "=", "=">>), Advance(third.l, 1))
    BY <1>3, <1>6
  <2>2. Reads(sample.text, n, Advance(third.l, 1))
    BY <1>4, <1>6
  <2> QED
    BY <2>1, <2>2, GiveKeeps
<1>7. CASE second.c = "=" /\ third.c # "="
  <2>1. Give("OP0", Text(<<"=", "=">>), third.l)
    BY <1>3, <1>7
  <2>2. Reads(sample.text, n, third.l)
    BY <1>4, <1>7
  <2> QED
    BY <2>1, <2>2, GiveKeeps
<1> QED
  BY <1>5, <1>6, <1>7

\* A string begins, and its quote was taken.
LEMMA QuoteKeeps ==
  ASSUME NEW n, Between(n), Quote(NextC(source).c, NextC(source).l)
  PROVE  Inv'
<1> DEFINE r == NextC(source)
           t == sample.text
           m == n + 1
<1>1. r.c = "\"" /\ r.c # Nul /\ r.c # "\n"
  BY DEF Quote, Nul
<1>2. /\ sample' \in Samples /\ IsText(t) /\ sample'.text = t /\ size' = size /\ Sized /\ n \in Nat
      /\ n < Len(t) /\ Len(t) \in Nat
  BY DEF Between, IsText
<1>3. Points(t, r.l, n) /\ Left(r.l) >= 1 /\ t[m] = "\""
  BY <1>1, NextCPoints DEF Between, At_
<1>4. source' = Advance(r.l, 1) /\ mode' = "string"
  BY DEF Quote, Go
<1> HIDE DEF r
<1>5. Points(t, source', m)
  <2>1. Left(r.l) \in Nat
    BY <1>2, <1>3, PointsFacts
  <2>2. Left(r.l) >= 1
    BY <1>3
  <2>3. 1 \in 0 .. Left(r.l)
    BY <2>1, <2>2
  <2> QED
    BY <1>2, <1>3, <1>4, <2>3, AdvancePoints
<1>6. Points(sample.text, source, m)'
  BY <1>2, <1>5 DEF Points, Left
<1>7. m \in 1 .. m /\ m \in 0 .. Len(t) /\ m < Len(t)
  <2>1. t[n + 1] # "\n"
    BY <1>3
  <2>2. n + 1 < Len(t)
    BY <1>2, <2>1, NotLast
  <2> QED
    BY <1>2, <2>2
<1>8. Quoted(t, m)
  BY <1>3, <1>7 DEF Quoted
<1>9. Quoted(sample.text, m)'
  BY <1>2, <1>8 DEF Quoted
<1> HIDE DEF t, m
<1>10. At_(m)'
  BY <1>4, <1>6, <1>9 DEF At_
<1>11. Sized' /\ IsText(sample.text)' /\ (sample \in Samples)' /\ (m \in 0 .. Len(sample.text))'
  BY <1>2, <1>7 DEF Sized, IsText
<1> QED
  BY <1>10, <1>11 DEF Inv

-----------------------------------------------------------------------------
(* Numbers and words: several characters of the buffer at once.            *)

LEMMA ReadsMany ==
  ASSUME Sized, NEW t, IsText(t), NEW l, NEW n, n < Len(t), Points(t, l, n),
         NEW k \in 0 .. Left(l), NoNewLine(t, n, n + k)
  PROVE  Reads(t, n, Advance(l, k))
<1>1. /\ Left(l) \in Nat /\ Len(l.file) \in Nat /\ n \in Nat /\ Len(t) \in Nat
      /\ n + Left(l) + Len(l.file) = Len(t)
  BY SMTT(30), PointsFacts DEF Points
<1>2. Points(t, Advance(l, k), n + k)
  BY AdvancePoints
<1>3. n + k < Len(t)
  <2>1. CASE k = 0
    BY <1>1, <2>1
  <2>2. CASE k # 0
    <3>1. n + k \in n + 1 .. n + k
      BY <1>1, <2>2
    <3>2. t[n + k] # "\n"
      BY <3>1 DEF NoNewLine
    <3>3. t[Len(t)] = "\n"
      BY DEF IsText
    <3>4. n + k # Len(t)
      BY <3>2, <3>3
    <3> QED
      BY <1>1, <3>4
  <2> QED
    BY <2>1, <2>2
<1>4. n + k \in Nat /\ n <= n + k
  BY <1>1
<1> QED
  BY <1>2, <1>3, <1>4 DEF Reads

LEMMA SmallestOfNat ==
  ASSUME NEW T \in SUBSET Nat, T # {}
  PROVE  \E x \in T : \A y \in T : x <= y
<1>1. \E x \in T : \A y \in T : ~ (<<y, x>> \in OpToRel(<, Nat))
  BY NatLessThanWellFounded, WFMin
<1>2. ASSUME NEW x \in T, NEW y \in T, ~ (<<y, x>> \in OpToRel(<, Nat))
      PROVE  x <= y
  <2>1. OpToRel(<, Nat) = {p \in Nat \X Nat : p[1] < p[2]}
    BY Zenon DEF OpToRel
  <2>2. ~ (y < x)
    BY <1>2, <2>1
  <2> QED
    BY <2>2
<1> QED
  BY <1>1, <1>2

\* A run of members of D ends somewhere.
LEMMA RunEnds ==
  ASSUME NEW s, NEW len \in Nat, NEW from \in Nat, from <= len, NEW D, s[from] \in D
  PROVE  \E j \in from .. len : /\ \A k \in from .. j : s[k] \in D
                                /\ j = len \/ s[j + 1] \notin D
<1> DEFINE Out == {k \in from .. len : s[k] \notin D}
<1>1. CASE Out = {}
  <2>1. len \in from .. len /\ \A k \in from .. len : s[k] \in D
    BY <1>1
  <2> QED
    BY <2>1
<1>2. CASE Out # {}
  <2>1. PICK x \in Out : \A y \in Out : x <= y
    <3>1. Out \in SUBSET Nat
      OBVIOUS
    <3> HIDE DEF Out
    <3> QED
      BY <1>2, <3>1, SmallestOfNat
  <2>2. x \in from .. len /\ x # from /\ s[x] \notin D
    BY <2>1
  <2>3. x - 1 \in from .. len /\ x - 1 + 1 = x
    BY <2>2
  <2>4. ASSUME NEW k \in from .. x - 1 PROVE s[k] \in D
    <3>1. k \in from .. len /\ ~(x <= k)
      BY <2>2
    <3>2. k \notin Out
      BY <2>1, <3>1
    <3> QED
      BY <3>1, <3>2
  <2> HIDE DEF Out
  <2> QED
    BY <2>2, <2>3, <2>4
<1> QED
  BY <1>1, <1>2

LEMMA DigitFacts ==
  /\ "\n" \notin DigitsOf(16) /\ "\n" \notin DigitsOf(10) /\ "\n" \notin DigitsOf(8)
  /\ "0" \in DigitsOf(8) /\ Digits \subseteq DigitsOf(10)
<1> USE DEF HexDigits
<1>1. \A i \in 1 .. 16 : HexDigits[i] # "\n"
  <2> SUFFICES ASSUME NEW i \in 1 .. 16 PROVE HexDigits[i] # "\n"
    OBVIOUS
  <2>1. CASE i \in 1 .. 8
    BY <2>1
  <2>2. CASE i \in 9 .. 16
    BY <2>2
  <2> QED
    BY <2>1, <2>2
<1>2. "0" = HexDigits[1] /\ "1" = HexDigits[2] /\ "2" = HexDigits[3] /\ "3" = HexDigits[4]
      /\ "4" = HexDigits[5] /\ "5" = HexDigits[6] /\ "6" = HexDigits[7] /\ "7" = HexDigits[8]
      /\ "8" = HexDigits[9] /\ "9" = HexDigits[10]
  OBVIOUS
<1> HIDE DEF HexDigits
<1>3. "0" \in DigitsOf(8)
  BY <1>2 DEF DigitsOf
<1>4. Digits \subseteq DigitsOf(10)
  <2> SUFFICES ASSUME NEW c \in Digits PROVE \E i \in 1 .. 10 : HexDigits[i] = c
    BY DEF DigitsOf
  <2> QED
    BY <1>2 DEF Digits
<1>5. "\n" \notin DigitsOf(16)
  BY <1>1 DEF DigitsOf
<1>6. "\n" \notin DigitsOf(10)
  BY <1>1 DEF DigitsOf
<1>7. "\n" \notin DigitsOf(8)
  BY <1>1 DEF DigitsOf
<1> QED
  BY <1>3, <1>4, <1>5, <1>6, <1>7

\* A number is of one character or more, and of no newline.
LEMMA StrtolEnds ==
  ASSUME NEW s, NEW len \in Nat \ {0}, Len(s) = len, s[1] \in Digits
  PROVE  /\ Strtol(s).end \in 1 .. len
         /\ \A k \in 1 .. Strtol(s).end : s[k] # "\n"
<1> DEFINE hex == Len(s) > 2 /\ s[1] = "0" /\ s[2] = "x" /\ s[3] \in DigitsOf(16)
           base == IF hex THEN 16 ELSE IF s[1] = "0" THEN 8 ELSE 10
           from == IF hex THEN 3 ELSE 1
           D == DigitsOf(base)
           Ends_(j) == (\A k \in from .. j : s[k] \in D) /\ (j = Len(s) \/ s[j + 1] \notin D)
           to == CHOOSE j \in from .. Len(s) : Ends_(j)
<1>1. from \in Nat /\ from <= len /\ 1 <= from /\ s[from] \in D /\ "\n" \notin D
  <2>1. CASE hex
    <3>1. from = 3 /\ base = 16 /\ s[3] \in DigitsOf(16) /\ len > 2
      BY <2>1
    <3> QED
      BY <3>1, DigitFacts
  <2>2. CASE ~hex /\ s[1] = "0"
    <3>1. from = 1 /\ base = 8 /\ s[1] = "0"
      BY <2>2
    <3> QED
      BY <3>1, DigitFacts
  <2>3. CASE ~hex /\ s[1] # "0"
    <3>1. from = 1 /\ base = 10
      BY <2>3
    <3> QED
      BY <3>1, DigitFacts
  <2> QED
    BY <2>1, <2>2, <2>3
<1>2. ASSUME NEW k \in 1 .. from - 1 PROVE s[k] # "\n"
  <2>1. hex /\ k \in 1 .. 2 /\ s[1] = "0" /\ s[2] = "x"
    BY <1>2
  <2>2. k = 1 \/ k = 2
    BY <2>1
  <2> QED
    BY <2>1, <2>2
<1>3. Strtol(s).end = to
  BY DEF Strtol
<1> HIDE DEF hex, base, from, D
<1>4. \E j \in from .. Len(s) : Ends_(j)
  BY <1>1, RunEnds
<1>5. to \in from .. Len(s) /\ Ends_(to)
  BY <1>4
<1> HIDE DEF to
<1>6. to \in 1 .. len
  BY <1>1, <1>5
<1>7. ASSUME NEW k \in 1 .. to PROVE s[k] # "\n"
  <2>1. CASE k < from
    <3>1. k \in 1 .. from - 1
      BY <1>1, <1>6, <2>1
    <3> QED
      BY <1>2, <3>1
  <2>2. CASE ~(k < from)
    <3>1. k \in from .. to
      BY <1>1, <1>6, <2>2
    <3> QED
      BY <1>1, <1>5, <3>1
  <2> QED
    BY <2>1, <2>2
<1> QED
  BY <1>3, <1>6, <1>7

LEMMA NumberKeeps ==
  ASSUME NEW n, Between(n), Number(NextC(source).c, NextC(source).l)
  PROVE  Inv'
<1> DEFINE r == NextC(source)
           t == sample.text
           s == Rest(r.l)
           e == Strtol(s).end
<1>1. r.c \in Digits /\ r.c # Nul
  BY DEF Number, Digits, Nul
<1>2. Points(t, r.l, n) /\ Left(r.l) >= 1 /\ t[n + 1] = r.c
  BY <1>1, NextCPoints DEF Between, At_
<1>3. Give("NUM", [i |-> Strtol(s).i], Advance(r.l, e))
  BY DEF Number
<1>4. Sized /\ IsText(t) /\ n < Len(t) /\ n \in Nat
  BY DEF Between
<1> HIDE DEF r, t
<1>5. r.l \in Sources /\ r.l.pos <= Len(r.l.buf)
  BY <1>2 DEF Points
<1>6. /\ Len(s) = Left(r.l) /\ Left(r.l) \in Nat
      /\ \A i \in 1 .. Left(r.l) : s[i] = r.l.buf[r.l.pos + i]
  BY <1>5, RestFacts
<1>7. \A i \in 1 .. Left(r.l) : s[i] = t[n + i]
  BY <1>2, <1>6 DEF Points
<1>8. Left(r.l) \in Nat \ {0} /\ s[1] \in Digits
  BY <1>1, <1>2, <1>6, <1>7
<1> HIDE DEF s
<1>9. e \in 1 .. Left(r.l) /\ \A k \in 1 .. e : s[k] # "\n"
  BY <1>6, <1>8, StrtolEnds
<1> HIDE DEF e
<1>10. NoNewLine(t, n, n + e)
  <2> SUFFICES ASSUME NEW i \in n + 1 .. n + e PROVE t[i] # "\n"
    BY DEF NoNewLine
  <2>1. i - n \in 1 .. e /\ i - n \in 1 .. Left(r.l) /\ n + (i - n) = i
    BY <1>4, <1>6, <1>9
  <2> QED
    BY <1>7, <1>9, <2>1
<1>11. e \in 0 .. Left(r.l)
  BY <1>6, <1>9
<1>12. Reads(t, n, Advance(r.l, e))
  BY <1>2, <1>4, <1>10, <1>11, ReadsMany
<1> QED
  BY <1>3, <1>12, GiveKeeps DEF t

\* A keyword is a word, of no newline.
KeyOK(k) ==
  /\ Len(k.str) \in Nat /\ k.token # ""
  /\ \A j \in 1 .. Len(k.str) : k.str[j] # "\n"

LEMMA KeysOK ==
  ASSUME NEW c \in Letters, NEW i \in DOMAIN cKeywords[c]
  PROVE  KeyOK(cKeywords[c][i])
<1>1. CASE c = "a"
  <2>1. cKeywords[c] = <<K(<<"a", "s">>, "AS")>>
    BY <1>1 DEF cKeywords, Letters
  <2>2. KeyOK(K(<<"a", "s">>, "AS"))
    BY DEF KeyOK, K
  <2> QED
    BY <2>1, <2>2
<1>2. CASE c = "c"
  <2>1. cKeywords[c] = <<K(<<"c", "l", "a", "s", "s">>, "CLASS")>>
    BY <1>2 DEF cKeywords, Letters
  <2>2. KeyOK(K(<<"c", "l", "a", "s", "s">>, "CLASS"))
    BY DEF KeyOK, K
  <2> QED
    BY <2>1, <2>2
<1>3. CASE c = "d"
  <2>1. cKeywords[c] = <<K(<<"d", "e", "f">>, "DEF")>>
    BY <1>3 DEF cKeywords, Letters
  <2>2. KeyOK(K(<<"d", "e", "f">>, "DEF"))
    BY DEF KeyOK, K
  <2> QED
    BY <2>1, <2>2
<1>4. CASE c = "e"
  <2>1. cKeywords[c] = <<K(<<"e", "n", "d">>, "END"),
                         K(<<"e", "l", "s", "e">>, "ELSE")>>
    BY <1>4 DEF cKeywords, Letters
  <2>2. /\ KeyOK(K(<<"e", "n", "d">>, "END"))
        /\ KeyOK(K(<<"e", "l", "s", "e">>, "ELSE"))
    BY DEF KeyOK, K
  <2> QED
    BY <2>1, <2>2
<1>5. CASE c = "f"
  <2>1. cKeywords[c] = <<K(<<"f", "a", "l", "s", "e">>, "FALSE")>>
    BY <1>5 DEF cKeywords, Letters
  <2>2. KeyOK(K(<<"f", "a", "l", "s", "e">>, "FALSE"))
    BY DEF KeyOK, K
  <2> QED
    BY <2>1, <2>2
<1>6. CASE c = "i"
  <2>1. cKeywords[c] = <<K(<<"i", "f">>, "IF"),
                         K(<<"i", "m", "p", "o", "r", "t">>, "IMPORT")>>
    BY <1>6 DEF cKeywords, Letters
  <2>2. /\ KeyOK(K(<<"i", "f">>, "IF"))
        /\ KeyOK(K(<<"i", "m", "p", "o", "r", "t">>, "IMPORT"))
    BY DEF KeyOK, K
  <2> QED
    BY <2>1, <2>2
<1>7. CASE c = "n"
  <2>1. cKeywords[c] = <<K(<<"n", "i", "l">>, "NIL")>>
    BY <1>7 DEF cKeywords, Letters
  <2>2. KeyOK(K(<<"n", "i", "l">>, "NIL"))
    BY DEF KeyOK, K
  <2> QED
    BY <2>1, <2>2
<1>8. CASE c = "r"
  <2>1. cKeywords[c] = <<K(<<"r", "e", "s", "c", "u", "e">>, "RESCUE"),
                         K(<<"r", "a", "i", "s", "e">>, "RAISE"),
                         K(<<"r", "e", "t", "u", "r", "n">>, "RETURN")>>
    BY <1>8 DEF cKeywords, Letters
  <2>2. /\ KeyOK(K(<<"r", "e", "s", "c", "u", "e">>, "RESCUE"))
        /\ KeyOK(K(<<"r", "a", "i", "s", "e">>, "RAISE"))
        /\ KeyOK(K(<<"r", "e", "t", "u", "r", "n">>, "RETURN"))
    BY DEF KeyOK, K
  <2> QED
    BY <2>1, <2>2
<1>9. CASE c = "s"
  <2>1. cKeywords[c] = <<K(<<"s", "e", "l", "f">>, "SELF")>>
    BY <1>9 DEF cKeywords, Letters
  <2>2. KeyOK(K(<<"s", "e", "l", "f">>, "SELF"))
    BY DEF KeyOK, K
  <2> QED
    BY <2>1, <2>2
<1>10. CASE c = "t"
  <2>1. cKeywords[c] = <<K(<<"t", "r", "u", "e">>, "TRUE"),
                         K(<<"t", "r", "y">>, "TRY"),
                         K(<<"t", "r", "a", "i", "t">>, "TRAIT")>>
    BY <1>10 DEF cKeywords, Letters
  <2>2. /\ KeyOK(K(<<"t", "r", "u", "e">>, "TRUE"))
        /\ KeyOK(K(<<"t", "r", "y">>, "TRY"))
        /\ KeyOK(K(<<"t", "r", "a", "i", "t">>, "TRAIT"))
    BY DEF KeyOK, K
  <2> QED
    BY <2>1, <2>2
<1>11. CASE c = "u"
  <2>1. cKeywords[c] = <<K(<<"u", "n", "l", "e", "s", "s">>, "UNLESS")>>
    BY <1>11 DEF cKeywords, Letters
  <2>2. KeyOK(K(<<"u", "n", "l", "e", "s", "s">>, "UNLESS"))
    BY DEF KeyOK, K
  <2> QED
    BY <2>1, <2>2
<1>12. CASE c = "w"
  <2>1. cKeywords[c] = <<K(<<"w", "h", "i", "l", "e">>, "WHILE")>>
    BY <1>12 DEF cKeywords, Letters
  <2>2. KeyOK(K(<<"w", "h", "i", "l", "e">>, "WHILE"))
    BY DEF KeyOK, K
  <2> QED
    BY <2>1, <2>2
<1>13. CASE c \notin {"a", "c", "d", "e", "f", "i", "n", "r", "s", "t", "u", "w"}
  <2>1. cKeywords[c] = <<>>
    BY <1>13 DEF cKeywords
  <2> QED
    BY <2>1
<1> QED
  BY <1>1, <1>2, <1>3, <1>4, <1>5, <1>6, <1>7, <1>8, <1>9, <1>10, <1>11, <1>12, <1>13

\* What the search for a keyword has come to: nothing was taken, or a word.
Found(t, n, f) ==
  /\ f = [token |-> f.token, l |-> f.l]
  /\ IF f.token = "" THEN Points(t, f.l, n) ELSE Reads(t, n, f.l)

LEMMA FollowsPoints ==
  ASSUME Sized, NEW t, IsText(t), NEW l, NEW n, Points(t, l, n), n < Len(t), NEW len \in Nat
  PROVE  /\ Points(t, Follows(l, len).l, n)
         /\ Left(Follows(l, len).l) >= Left(l)
<1> DEFINE r == NextStr(l, len + 1)
<1>1. Points(t, r.l, n) /\ Left(r.l) >= Left(l)
  BY NextStrPoints
<1>2. Follows(l, len).l = r.l
  BY DEF Follows
<1> QED
  BY <1>1, <1>2

LEMMA FoundOf ==
  ASSUME NEW t, NEW n, NEW token, NEW l,
         IF token = "" THEN Points(t, l, n) ELSE Reads(t, n, l)
  PROVE  Found(t, n, [token |-> token, l |-> l])
BY DEF Found

\* The characters of a word found in the buffer are those of the text.
LEMMA WordRead ==
  ASSUME Sized, NEW t, IsText(t), NEW n, n < Len(t), NEW l, Points(t, l, n),
         NEW len \in Nat, len <= Left(l), NEW after, Points(t, after, n), Left(after) >= Left(l),
         NEW str, SubSeq(l.buf, l.pos + 1, l.pos + len) = str, \A j \in 1 .. len : str[j] # "\n"
  PROVE  Reads(t, n, Advance(after, len))
<1> DEFINE left == Left(l)
           pos == l.pos
           end == pos + len
<1>1. /\ left \in Nat /\ pos \in Nat /\ l.buf \in Seq(Char)
      /\ Len(l.buf) = pos + left /\ n \in 0 .. Len(t) /\ Len(t) \in Nat
  BY PointsFacts
<1>2. Left(after) \in Nat
  BY PointsFacts
<1>3. len <= left /\ Left(after) >= left
  OBVIOUS
<1>4. \A i \in 1 .. left : l.buf[pos + i] = t[n + i]
  BY DEF Points
<1>5. SubSeq(l.buf, pos + 1, end) = str
  OBVIOUS
<1> HIDE DEF left, pos
<1>6. end \in Nat /\ pos <= end /\ end <= Len(l.buf) /\ end - pos = len
  BY <1>1, <1>3
<1> HIDE DEF end
<1>7. \A j \in 1 .. end - pos : SubSeq(l.buf, pos + 1, end)[j] = l.buf[pos + j]
  BY <1>1, <1>6, PartFacts
<1>8. ASSUME NEW i \in 1 .. len PROVE t[n + i] # "\n"
  <2>1. str[i] = l.buf[pos + i]
    BY <1>5, <1>6, <1>7
  <2>2. i \in 1 .. left
    BY <1>1, <1>3
  <2> QED
    BY <1>4, <2>1, <2>2
<1>9. NoNewLine(t, n, n + len)
  <2> SUFFICES ASSUME NEW i \in n + 1 .. n + len PROVE t[i] # "\n"
    BY DEF NoNewLine
  <2>1. i - n \in 1 .. len /\ n + (i - n) = i
    BY <1>1
  <2> QED
    BY <1>8, <2>1
<1>10. len \in 0 .. Left(after)
  BY <1>1, <1>2, <1>3
<1> QED
  BY <1>9, <1>10, ReadsMany

LEMMA TryFound ==
  ASSUME Sized, NEW t, IsText(t), NEW n, n < Len(t), NEW f, Found(t, n, f), NEW k, KeyOK(k)
  PROVE  Found(t, n, Try_(f, k))
<1> DEFINE len == Len(k.str)
           a == f.l
           r == NextStr(a, len)
           after == Follows(r.l, len)
<1>1. CASE f.token # ""
  BY <1>1 DEF Try_
<1>2. CASE f.token = ""
  <2>1. len \in Nat /\ k.token # "" /\ \A j \in 1 .. len : k.str[j] # "\n"
    BY DEF KeyOK
  <2>2. f = [token |-> "", l |-> a] /\ Points(t, a, n)
    BY <1>2 DEF Found
  <2>3. Try_(f, k) = IF ~r.ok \/ SubSeq(r.l.buf, r.l.pos + 1, r.l.pos + len) # k.str
                     THEN [token |-> "", l |-> r.l]
                     ELSE IF ~after.ok THEN [token |-> "", l |-> after.l]
                     ELSE [token |-> k.token, l |-> Advance(after.l, len)]
    BY <1>2 DEF Try_
  <2> HIDE DEF a, len
  <2>4. ASSUME NEW b, Points(t, b, n) PROVE Found(t, n, [token |-> "", l |-> b])
    BY <2>4 DEF Found
  <2>5. /\ Points(t, r.l, n)
        /\ r.ok => Left(r.l) >= len
    BY <2>1, <2>2, NextStrPoints
  <2> HIDE DEF r
  <2>6. Points(t, after.l, n) /\ Left(after.l) >= Left(r.l)
    BY <2>1, <2>5, FollowsPoints
  <2> HIDE DEF after
  <2>7. CASE ~r.ok \/ SubSeq(r.l.buf, r.l.pos + 1, r.l.pos + len) # k.str
    <3>1. Try_(f, k) = [token |-> "", l |-> r.l]
      BY <2>3, <2>7
    <3> QED
      BY <2>4, <2>5, <3>1
  <2>8. CASE r.ok /\ SubSeq(r.l.buf, r.l.pos + 1, r.l.pos + len) = k.str /\ ~after.ok
    <3>1. Try_(f, k) = [token |-> "", l |-> after.l]
      BY <2>3, <2>8
    <3> QED
      BY <2>4, <2>6, <3>1
  <2>9. CASE r.ok /\ SubSeq(r.l.buf, r.l.pos + 1, r.l.pos + len) = k.str /\ after.ok
    <3>1. Try_(f, k) = [token |-> k.token, l |-> Advance(after.l, len)]
      BY <2>3, <2>9
    <3>2. len <= Left(r.l)
      <4>1. Left(r.l) \in Nat
        BY <2>5, PointsFacts
      <4>2. Left(r.l) >= len
        BY <2>5, <2>9
      <4> QED
        BY <2>1, <4>1, <4>2
    <3>3. SubSeq(r.l.buf, r.l.pos + 1, r.l.pos + len) = k.str
      BY <2>9
    <3>4. Reads(t, n, Advance(after.l, len))
      BY <2>1, <2>5, <2>6, <3>2, <3>3, WordRead
    <3> QED
      BY <2>1, <3>1, <3>4, FoundOf
  <2> QED
    BY <2>7, <2>8, <2>9
<1> QED
  BY <1>1, <1>2

LEMMA KeywordFound ==
  ASSUME Sized, NEW t, IsText(t), NEW n, n < Len(t), NEW c, NEW l, Points(t, l, n)
  PROVE  Found(t, n, KeywordMatch(c, l))
<1> DEFINE try(found, i) ==
             IF c \in Letters /\ i \in DOMAIN cKeywords[c] THEN Try_(found, cKeywords[c][i]) ELSE found
<1>1. ASSUME NEW f, Found(t, n, f), NEW i PROVE Found(t, n, try(f, i))
  <2>1. CASE c \in Letters /\ i \in DOMAIN cKeywords[c]
    <3>1. KeyOK(cKeywords[c][i])
      BY <2>1, KeysOK
    <3>2. Found(t, n, Try_(f, cKeywords[c][i]))
      BY <1>1, <3>1, TryFound
    <3> QED
      BY <2>1, <3>2
  <2>2. CASE ~(c \in Letters /\ i \in DOMAIN cKeywords[c])
    BY <1>1, <2>2
  <2> QED
    BY <2>1, <2>2
<1>2. Found(t, n, [token |-> "", l |-> l])
  BY DEF Found
<1>3. KeywordMatch(c, l) = try(try(try([token |-> "", l |-> l], 1), 2), 3)
  BY DEF KeywordMatch
<1> HIDE DEF try
<1>4. Found(t, n, try([token |-> "", l |-> l], 1))
  BY <1>1, <1>2
<1>5. Found(t, n, try(try([token |-> "", l |-> l], 1), 2))
  BY <1>1, <1>4
<1>6. Found(t, n, try(try(try([token |-> "", l |-> l], 1), 2), 3))
  BY <1>1, <1>5
<1> QED
  BY <1>3, <1>6

LEMMA WordKeeps ==
  ASSUME NEW n, Between(n), Word(NextC(source).c, NextC(source).l)
  PROVE  Inv'
<1> DEFINE r == NextC(source)
           k == KeywordMatch(r.c, r.l)
<1>1. IF k.token # "" THEN Give(k.token, NoText, k.l)
      ELSE IF r.c \in Letters THEN Identifier("ID", k.l)
      ELSE Fail(k.l)
  BY DEF Word
<1>2. /\ Sized /\ IsText(sample.text) /\ n < Len(sample.text) /\ n \in Nat
      /\ sample \in Samples /\ UNCHANGED <<size, sample>>
  BY DEF Between
<1>3. Points(sample.text, r.l, n)
  BY NextCPoints DEF Between, At_
<1> HIDE DEF r
<1>4. Found(sample.text, n, k)
  BY <1>2, <1>3, KeywordFound
<1> HIDE DEF k
<1>5. Reads(sample.text, n, k.l)
  BY <1>2, <1>4, ReadsNothing DEF Found
<1>6. CASE k.token # ""
  <2>1. Give(k.token, NoText, k.l)
    BY <1>1, <1>6
  <2> QED
    BY <1>5, <2>1, GiveKeeps
<1>7. CASE k.token = "" /\ r.c \in Letters
  <2>1. Identifier("ID", k.l)
    BY <1>1, <1>7
  <2> QED
    BY <1>5, <2>1, IdentifierKeeps
<1>8. CASE k.token = "" /\ r.c \notin Letters
  <2>1. mode' = "failed"
    BY <1>1, <1>8 DEF Fail, Go
  <2> QED
    BY <1>2, <2>1, EndKeeps
<1> QED
  BY <1>6, <1>7, <1>8

-----------------------------------------------------------------------------
(* The other functions of the lexer.                                       *)

LEMMA ReadsZero ==
  ASSUME Sized, NEW t, IsText(t), NEW l, NEW n \in Nat, Reads(t, n, l)
  PROVE  Reads(t, n, Advance(l, 0))
<1>1. PICK m \in Nat : n <= m /\ m < Len(t) /\ Points(t, l, m) /\ NoNewLine(t, n, m)
  BY DEF Reads
<1>2. 0 \in 0 .. Left(l) /\ m + 0 = m
  BY <1>1, PointsFacts
<1>3. Points(t, Advance(l, 0), m + 0)
  BY <1>1, <1>2, AdvancePoints
<1>4. Points(t, Advance(l, 0), m)
  BY <1>2, <1>3
<1> QED
  BY <1>1, <1>4 DEF Reads

LEMMA SpacesKeeps ==
  ASSUME NEW n, Between(n), Spaces
  PROVE  Inv'
<1> DEFINE r == NextC(source)
<1>1. Go(IF r.c = " " THEN "spaces" ELSE "again", Advance(r.l, IF r.c = " " THEN 1 ELSE 0))
  BY DEF Spaces
<1>2. r.c = " " => Reads(sample.text, n, Advance(r.l, 1))
  BY OneReads DEF Nul
<1>3. Reads(sample.text, n, Advance(r.l, 0))
  BY SourceReads, ReadsZero DEF Between
<1> HIDE DEF r
<1>4. CASE r.c = " "
  <2>1. Go("spaces", Advance(r.l, 1))
    BY <1>1, <1>4
  <2> QED
    BY <1>2, <1>4, <2>1, GoKeeps
<1>5. CASE r.c # " "
  <2>1. Go("again", Advance(r.l, 0))
    BY <1>1, <1>5
  <2> QED
    BY <1>3, <2>1, GoKeeps
<1> QED
  BY <1>4, <1>5

\* A comment ends with its newline, be it the last of the file.
LEMMA CommentKeeps ==
  ASSUME NEW n, Between(n), Comment
  PROVE  Inv'
<1> DEFINE t == sample.text
           first == NextC(source)
           second == NextC(first.l)
<1>1. IF first.c # "\n" /\ second.c # Nul
      THEN Go("comment", Advance(second.l, 1))
      ELSE /\ line' = line + 1 /\ mode' = "again"
           /\ source' = Advance(IF first.c = "\n" THEN first.l ELSE second.l, 1)
  BY DEF Comment, InComment, CommentLine
<1>2. /\ Sized /\ IsText(t) /\ n \in Nat /\ n < Len(t) /\ Points(t, source, n)
  BY DEF Between, At_
<1>3. /\ Points(t, first.l, n)
      /\ first.c # Nul => first.c = t[n + 1] /\ Left(first.l) >= 1
  BY <1>2, NextCPoints
<1>4. first.c = Nul => n + 1 = Len(t) /\ Left(first.l) = 1 /\ first.l.file = <<>>
  BY <1>2, NulMeansLast
<1>5. Reads(t, n, first.l)
  BY SourceReads
<1> HIDE DEF first
<1>6. /\ Points(t, second.l, n)
      /\ second.c # Nul => second.c = t[n + 1] /\ Left(second.l) >= 1
  BY <1>2, <1>3, NextCPoints
<1>7. second.c = Nul => n + 1 = Len(t) /\ Left(second.l) = 1
  BY <1>2, <1>3, NulMeansLast
<1>8. first.c = Nul => second.c = Nul
  BY <1>4, NulStays
<1>9. first.c # "\n" /\ second.c # Nul => Reads(t, n, Advance(second.l, 1))
  <2> SUFFICES ASSUME first.c # "\n", second.c # Nul
               PROVE  Reads(t, n, Advance(second.l, 1))
    OBVIOUS
  <2>1. second.c # "\n"
    BY <1>3, <1>6, <1>8
  <2> QED
    BY <1>2, <1>5, <2>1, ReadsOne
<1> HIDE DEF second
<1>10. CASE first.c # "\n" /\ second.c # Nul
  <2>1. Go("comment", Advance(second.l, 1))
    BY <1>1, <1>10
  <2> QED
    BY <1>9, <1>10, <2>1, GoKeeps
<1>11. CASE first.c = "\n"
  <2>1. /\ line' = line + 1 /\ mode' = "again"
        /\ source' = Advance(first.l, 1)
    BY <1>1, <1>11
  <2>2. t[n + 1] = "\n" /\ Left(first.l) >= 1
    BY <1>3, <1>11 DEF Nul
  <2> QED
    BY <1>3, <2>1, <2>2, CountKeeps
<1>12. CASE first.c # "\n" /\ second.c = Nul
  <2>1. /\ line' = line + 1 /\ mode' = "again"
        /\ source' = Advance(second.l, 1)
    BY <1>1, <1>12
  <2>2. t[n + 1] = "\n" /\ Left(second.l) >= 1
    BY <1>2, <1>7, <1>12 DEF IsText
  <2> QED
    BY <1>6, <2>1, <2>2, CountKeeps
<1> QED
  BY <1>10, <1>11, <1>12

LEMMA MatchOperatorKeeps ==
  ASSUME NEW n, Between(n), MatchOperator
  PROVE  Inv'
<1> DEFINE r == NextC(source)
<1>1. \/ r.c \in OperatorChars /\ More("operator", r)
      \/ \E major, minor : Give(major, minor, r.l)
  BY DEF MatchOperator
<1>2. Reads(sample.text, n, source) /\ Reads(sample.text, n, r.l)
  BY SourceReads
<1>3. CASE r.c \in OperatorChars /\ More("operator", r)
  <2>1. r.c \notin {Nul, "\n"}
    BY <1>3 DEF OperatorChars, Nul
  <2> QED
    BY <1>2, <1>3, <2>1, MoreKeeps
<1>4. CASE \E major, minor : Give(major, minor, r.l)
  BY <1>2, <1>4, GiveKeeps
<1> QED
  BY <1>1, <1>3, <1>4

LEMMA IdMatchKeeps ==
  ASSUME NEW n, Between(n), IdMatch
  PROVE  Inv'
<1> DEFINE r == NextC(source)
<1>1. \/ r.c \in WordChars /\ More("identifier", r)
      \/ r.c \in {"?", "!"} /\ \E major, minor : Give(major, minor, Advance(r.l, 1))
      \/ \E major, minor : Give(major, minor, r.l)
  BY DEF IdMatch
<1>2. Reads(sample.text, n, source) /\ Reads(sample.text, n, r.l)
  BY SourceReads
<1>3. CASE r.c \in WordChars /\ More("identifier", r)
  <2>1. r.c \notin {Nul, "\n"}
    BY <1>3 DEF WordChars, Letters, Digits, Nul
  <2> QED
    BY <1>2, <1>3, <2>1, MoreKeeps
<1>4. CASE r.c \in {"?", "!"} /\ \E major, minor : Give(major, minor, Advance(r.l, 1))
  <2>1. r.c # Nul /\ r.c # "\n"
    BY <1>4 DEF Nul
  <2>2. Reads(sample.text, n, Advance(r.l, 1))
    BY <2>1, OneReads
  <2> QED
    BY <1>4, <2>2, GiveKeeps
<1>5. CASE \E major, minor : Give(major, minor, r.l)
  BY <1>2, <1>5, GiveKeeps
<1> QED
  BY <1>1, <1>3, <1>4, <1>5

LEMMA SymMatchKeeps ==
  ASSUME NEW n, Between(n), SymMatch
  PROVE  Inv'
<1> DEFINE r == NextC(source)
<1>1. \/ r.c \in Letters /\ More("symbol", r)
      \/ mode' = "failed"
      \/ r.c \in {"=", "?", "!"} /\ \E major, minor : Give(major, minor, Advance(r.l, 1))
      \/ \E major, minor : Give(major, minor, r.l)
  BY DEF SymMatch, Fail, Go
<1>2. Reads(sample.text, n, source) /\ Reads(sample.text, n, r.l)
  BY SourceReads
<1>3. CASE r.c \in Letters /\ More("symbol", r)
  <2>1. r.c \notin {Nul, "\n"}
    BY <1>3 DEF Letters, Nul
  <2> QED
    BY <1>2, <1>3, <2>1, MoreKeeps
<1>4. CASE r.c \in {"=", "?", "!"} /\ \E major, minor : Give(major, minor, Advance(r.l, 1))
  <2>1. r.c # Nul /\ r.c # "\n"
    BY <1>4 DEF Nul
  <2>2. Reads(sample.text, n, Advance(r.l, 1))
    BY <2>1, OneReads
  <2> QED
    BY <1>4, <2>2, GiveKeeps
<1>5. CASE \E major, minor : Give(major, minor, r.l)
  BY <1>2, <1>5, GiveKeeps
<1>6. CASE mode' = "failed"
  BY <1>6, EndKeeps DEF Between
<1> QED
  BY <1>1, <1>3, <1>4, <1>5, <1>6

LEMMA ImportNameMatchKeeps ==
  ASSUME NEW n, Between(n), ImportNameMatch
  PROVE  Inv'
<1> DEFINE r == NextC(source)
<1>1. \/ r.c \in WordChars \cup {"."} /\ More("name", r)
      \/ \E major, minor : Give(major, minor, r.l)
  BY DEF ImportNameMatch
<1>2. Reads(sample.text, n, source) /\ Reads(sample.text, n, r.l)
  BY SourceReads
<1>3. CASE r.c \in WordChars \cup {"."} /\ More("name", r)
  <2>1. r.c \notin {Nul, "\n"}
    BY <1>3 DEF WordChars, Letters, Digits, Nul
  <2> QED
    BY <1>2, <1>3, <2>1, MoreKeeps
<1>4. CASE \E major, minor : Give(major, minor, r.l)
  BY <1>2, <1>4, GiveKeeps
<1> QED
  BY <1>1, <1>3, <1>4

LEMMA BlanksKeeps ==
  ASSUME NEW n, Between(n), Blanks
  PROVE  Inv'
<1> DEFINE t == sample.text
           first == NextC(source)
           second == NextC(first.l)
<1>1. \/ first.c = " " /\ Go("blanks", Advance(first.l, 1))
      \/ second.c = "\t" /\ Go("blanks", Advance(second.l, 1))
      \/ Go("name", second.l)
  BY DEF Blanks
<1>2. Reads(t, n, first.l) /\ Sized /\ IsText(t) /\ n \in Nat
  BY SourceReads DEF Between
<1>3. first.c = " " => Reads(t, n, Advance(first.l, 1))
  BY OneReads DEF Nul
<1> HIDE DEF first
<1>4. Reads(t, n, second.l)
  BY <1>2, ReadsPeek
<1>5. second.c = "\t" => Reads(t, n, Advance(second.l, 1))
  <2>1. second.c = "\t" => second.c # Nul /\ second.c # "\n"
    BY DEF Nul
  <2> QED
    BY <1>2, <2>1, ReadsOne
<1> HIDE DEF second
<1>6. CASE first.c = " " /\ Go("blanks", Advance(first.l, 1))
  BY <1>3, <1>6, GoKeeps
<1>7. CASE second.c = "\t" /\ Go("blanks", Advance(second.l, 1))
  BY <1>5, <1>7, GoKeeps
<1>8. CASE Go("name", second.l)
  BY <1>4, <1>8, GoKeeps
<1> QED
  BY <1>1, <1>6, <1>7, <1>8

LEMMA OneMoreOfString ==
  ASSUME NEW n, Between(n), Quoted(sample.text, n), NextC(source).c # Nul,
         source' = Advance(NextC(source).l, 1), mode' = "string"
  PROVE  Inv'
<1> DEFINE r == NextC(source)
           t == sample.text
           m == n + 1
<1>1. /\ sample' \in Samples /\ IsText(t) /\ sample'.text = t /\ size' = size /\ Sized /\ n \in Nat
      /\ n < Len(t) /\ Len(t) \in Nat
  BY DEF Between, IsText
<1>2. Points(t, r.l, n) /\ Left(r.l) >= 1
  BY NextCPoints DEF Between, At_
<1>3. source' = Advance(r.l, 1) /\ mode' = "string"
  OBVIOUS
<1> HIDE DEF r
<1>4. Points(t, source', m)
  <2>1. Left(r.l) \in Nat
    BY <1>1, <1>2, PointsFacts
  <2>2. Left(r.l) >= 1
    BY <1>2
  <2>3. 1 \in 0 .. Left(r.l)
    BY <2>1, <2>2
  <2> QED
    BY <1>1, <1>2, <1>3, <2>3, AdvancePoints
<1>5. Points(sample.text, source, m)'
  BY <1>1, <1>4 DEF Points, Left
<1>6. m \in Nat /\ n <= m /\ m \in 0 .. Len(t)
  BY <1>1
<1>7. Quoted(t, m)
  BY <1>1, <1>6, QuotedStays
<1>8. Quoted(sample.text, m)'
  BY <1>1, <1>7 DEF Quoted
<1> HIDE DEF t, m
<1>9. At_(m)'
  BY <1>3, <1>5, <1>8 DEF At_
<1>10. Sized' /\ IsText(sample.text)' /\ (sample \in Samples)' /\ (m \in 0 .. Len(sample.text))'
  BY <1>1, <1>6 DEF Sized, IsText
<1> QED
  BY <1>9, <1>10 DEF Inv

LEMMA StrMatchKeeps ==
  ASSUME NEW n, Between(n), StrMatch
  PROVE  Inv'
<1> DEFINE r == NextC(source)
<1>1. \/ mode' = "failed"
      \/ r.c = "\"" /\ Give("LITSTR", Text(scratch), Advance(r.l, 1))
      \/ r.c # Nul /\ More("string", r)
  BY DEF StrMatch, Fail, Go
<1>2. Quoted(sample.text, n)
  BY DEF StrMatch, Between, At_
<1>3. CASE mode' = "failed"
  BY <1>3, EndKeeps DEF Between
<1>4. CASE r.c = "\"" /\ Give("LITSTR", Text(scratch), Advance(r.l, 1))
  <2>1. r.c # Nul /\ r.c # "\n"
    BY <1>4 DEF Nul
  <2>2. Reads(sample.text, n, Advance(r.l, 1))
    BY <2>1, OneReads
  <2> QED
    BY <1>4, <2>2, GiveKeeps
<1>5. CASE r.c # Nul /\ More("string", r)
  <2>1. source' = Advance(r.l, 1) /\ mode' = "string"
    BY <1>5 DEF More, Go
  <2> QED
    BY <1>2, <1>5, <2>1, OneMoreOfString
<1> QED
  BY <1>1, <1>3, <1>4, <1>5

LEMMA AgainKeeps ==
  ASSUME NEW n, Between(n), Again
  PROVE  Inv'
<1> DEFINE c == NextC(source).c
           l == NextC(source).l
<1>1. \/ EndOfFile(c, l) \/ Number(c, l) \/ Space(c, l) \/ Newline(c, l)
      \/ Mark(c, l) \/ Operator(c, l) \/ Pipe(c, l) \/ Percent(c, l)
      \/ Dot(c, l) \/ At(c, l) \/ Square(c, l) \/ Equal(c, l)
      \/ Bang(c, l) \/ Colon(c, l) \/ Quote(c, l) \/ Hash(c, l)
      \/ Word(c, l)
  BY DEF Again
<1>2. CASE EndOfFile(c, l)
  <2>1. mode' = "done"
    BY <1>2 DEF EndOfFile, Give, Return_
  <2> QED
    BY <2>1, EndKeeps DEF Between
<1>3. CASE Space(c, l)
  <2>1. Go("spaces", l)
    BY <1>3 DEF Space
  <2> QED
    BY <2>1, SourceReads, GoKeeps
<1>4. CASE Hash(c, l)
  <2>1. Go("comment", l)
    BY <1>4 DEF Hash
  <2> QED
    BY <2>1, SourceReads, GoKeeps
<1> QED
  BY <1>1, <1>2, <1>3, <1>4, NumberKeeps, NewlineKeeps, MarkKeeps, OperatorKeeps, PipeKeeps,
     PercentKeeps, DotKeeps, AtKeeps, SquareKeeps, EqualKeeps, BangKeeps, ColonKeeps, QuoteKeeps,
     WordKeeps

\* When every character was taken, next_token answers with the end.
LEMMA AgainEnds ==
  ASSUME NextC(source).c = Nul, Again
  PROVE  mode' = "done"
<1> DEFINE c == NextC(source).c
           l == NextC(source).l
<1>1. \/ EndOfFile(c, l) \/ Number(c, l) \/ Space(c, l) \/ Newline(c, l)
      \/ Mark(c, l) \/ Operator(c, l) \/ Pipe(c, l) \/ Percent(c, l)
      \/ Dot(c, l) \/ At(c, l) \/ Square(c, l) \/ Equal(c, l)
      \/ Bang(c, l) \/ Colon(c, l) \/ Quote(c, l) \/ Hash(c, l)
      \/ Word(c, l)
  BY DEF Again
<1>2. c = ""
  BY DEF Nul
<1> HIDE DEF c
<1>3. /\ ~Number(c, l) /\ ~Space(c, l) /\ ~Newline(c, l)
      /\ ~Mark(c, l) /\ ~Operator(c, l) /\ ~Pipe(c, l)
  BY <1>2 DEF Number, Digits, Space, Newline, Mark, Marks, Operator, Starts, Pipe
<1>4. /\ ~Percent(c, l) /\ ~Dot(c, l) /\ ~At(c, l) /\ ~Square(c, l) /\ ~Equal(c, l)
      /\ ~Bang(c, l) /\ ~Colon(c, l) /\ ~Quote(c, l) /\ ~Hash(c, l)
  BY <1>2 DEF Percent, Dot, At, Square, Equal, Bang, Colon, Quote, Hash
<1>5. ~Word(c, l)
  BY <1>2 DEF Word, Known, Nul
<1>6. EndOfFile(c, l)
  BY <1>1, <1>3, <1>4, <1>5
<1> QED
  BY <1>6 DEF EndOfFile, Give, Return_

LEMMA NextTokenKeeps ==
  ASSUME sample \in Samples, IsText(sample.text), Sized, NEW n \in 0 .. Len(sample.text), At_(n),
         UNCHANGED sample, NextToken
  PROVE  Inv'
<1>1. /\ mode = "start" /\ mode' = IF import_name THEN "blanks" ELSE "again"
      /\ size' = size /\ source' = source /\ line' = line
  BY DEF NextToken
<1>2. n = Len(sample.text) => mode' = "again"
  BY <1>1 DEF At_
<1>3. mode' \in {"blanks", "again"}
  BY <1>1
<1>4. Points(sample.text, source, n)'
  BY <1>1 DEF At_, Points, Left
<1>5. (Quoted(sample.text, n) \/ line = 1 + Cardinality(NewLines(sample.text, n)))'
  BY <1>1 DEF At_, Quoted, NewLines
<1>6. At_(n)'
  BY <1>2, <1>3, <1>4, <1>5 DEF At_
<1>7. Sized' /\ IsText(sample.text)' /\ (sample \in Samples)' /\ (n \in 0 .. Len(sample.text))'
  BY <1>1 DEF Sized, IsText
<1> QED
  BY <1>6, <1>7 DEF Inv

-----------------------------------------------------------------------------

LEMMA InitInv ==
  Init => Inv
<1> SUFFICES ASSUME Init PROVE Inv
  OBVIOUS
<1> DEFINE t == sample.text
           l == [buf |-> <<>>, pos |-> 0, file |-> t]
<1>1. sample \in Samples /\ IsText(t)
  <2>1. sample \in Samples
    BY DEF Init
  <2>2. t \in Seq(Char) /\ t # <<>> /\ t[Len(t)] = "\n"
    BY <2>1, SamplesAssumption DEF Char
  <2>3. Len(t) \in Nat \ {0}
    BY <2>2, EmptySeq, LenProperties
  <2> QED
    BY <2>1, <2>2, <2>3 DEF IsText
<1>2. Sized
  BY SizesAssumption DEF Init, InitWith, Sized
<1>3. source = Filled(l) /\ line = 1 /\ mode = "start" /\ import_name = FALSE
  BY DEF Init, InitWith
<1> HIDE DEF t
<1>4. l \in Sources /\ l.pos = 0 /\ l.buf = <<>> /\ l.file = t /\ Left(l) = 0
  BY <1>1 DEF Sources, IsText, Left
<1> HIDE DEF l
<1>5. Points(t, l, 0)
  <2>1. Len(l.buf) = 0 /\ Len(t) \in Nat \ {0}
    BY <1>1, <1>4 DEF IsText
  <2>2. l.pos <= Len(l.buf) /\ Left(l) <= size /\ 0 + Left(l) + Len(l.file) = Len(t)
    BY <1>2, <1>4, <2>1 DEF Sized
  <2>3. \A i \in 1 .. Left(l) : l.buf[l.pos + i] = t[0 + i]
    BY <1>4
  <2>4. \A i \in 1 .. Len(l.file) : l.file[i] = t[0 + Left(l) + i]
    BY <1>4
  <2> QED
    BY <1>4, <2>2, <2>3, <2>4 DEF Points
<1>6. Points(t, source, 0)
  <2>1. 0 < Len(t)
    BY <1>1 DEF IsText
  <2> QED
    BY <1>1, <1>2, <1>3, <1>5, <2>1, FilledPoints
<1>7. line = 1 + Cardinality(NewLines(t, 0))
  <2>1. NewLines(t, 0) = {}
    BY DEF NewLines
  <2> QED
    BY <1>3, <2>1, FS_EmptySet
<1>8. At_(0)
  BY <1>3, <1>6, <1>7 DEF At_, t
<1>9. 0 \in 0 .. Len(t)
  BY <1>1 DEF IsText
<1> QED
  BY <1>1, <1>2, <1>8, <1>9 DEF Inv, t

LEMMA SizeStays ==
  Next => UNCHANGED size
<1>1. Again => UNCHANGED size
  <2>1. ASSUME NEW c, NEW l,
                EndOfFile(c, l) \/ Number(c, l) \/ Space(c, l) \/ Newline(c, l)
                \/ Mark(c, l) \/ Operator(c, l) \/ Pipe(c, l) \/ Percent(c, l)
                \/ Dot(c, l) \/ At(c, l) \/ Square(c, l) \/ Equal(c, l)
                \/ Bang(c, l) \/ Colon(c, l) \/ Quote(c, l) \/ Hash(c, l)
                \/ Word(c, l)
        PROVE  UNCHANGED size
    BY <2>1 DEF EndOfFile, Number, Space, Newline, Mark, Operator, Pipe, Percent, Dot, At, Square, Equal,
           Bang, Colon, Quote, Hash, Word, Give, Return_, Go, Identifier, Fail
  <2> QED
    BY <2>1 DEF Again
<1>2. NextToken \/ Finished => UNCHANGED size
  BY DEF NextToken, Finished, vars
<1>3. Spaces \/ Comment \/ MatchOperator \/ IdMatch => UNCHANGED size
  BY DEF Spaces, Comment, MatchOperator, IdMatch, Go, More, Give, Return_
<1>4. StrMatch \/ SymMatch \/ Blanks \/ ImportNameMatch => UNCHANGED size
  BY DEF StrMatch, SymMatch, Blanks, ImportNameMatch, Go, More, Give, Return_, Fail
<1> QED
  BY <1>1, <1>2, <1>3, <1>4 DEF Next

LEMMA NextInv ==
  Inv /\ [Step]_allVars => Inv'
<1> SUFFICES ASSUME Inv, [Step]_allVars PROVE Inv'
  OBVIOUS
<1>1. sample \in Samples /\ IsText(sample.text) /\ Sized
  BY DEF Inv
<1>2. CASE UNCHANGED allVars
  BY <1>2 DEF Inv, allVars, vars, IsText, Sized, Over, At_, Points, Left, Quoted, NewLines
<1>3. CASE Step /\ Over
  <2>1. mode' = mode /\ UNCHANGED <<size, sample>>
    BY <1>3 DEF Step, Next, Finished, vars, Over, NextToken, Again, Spaces, Comment, MatchOperator,
                IdMatch, StrMatch, SymMatch, Blanks, ImportNameMatch
  <2>2. mode' \in {"done", "failed"}
    BY <1>3, <2>1 DEF Over
  <2> QED
    BY <1>1, <2>1, <2>2, EndKeeps
<1>4. CASE Step /\ ~Over
  <2>1. PICK n \in 0 .. Len(sample.text) : At_(n)
    BY <1>4 DEF Inv
  <2>2. UNCHANGED sample
    BY <1>4 DEF Step
  <2>3. size' = size
    BY <1>4, SizeStays DEF Step
  <2>4. n \in Nat /\ (n # Len(sample.text) => n < Len(sample.text))
    BY <1>1, <2>1 DEF IsText
  <2>5. n # Len(sample.text) => Between(n)
    BY <1>1, <2>1, <2>2, <2>3, <2>4 DEF Between
  <2>6. CASE NextToken
    BY <1>1, <2>1, <2>2, <2>6, NextTokenKeeps
  <2>7. CASE Again
    <3>1. CASE n = Len(sample.text)
      <4>1. NextC(source).c = Nul
        BY <1>1, <2>1, <3>1, NextCAtEnd DEF At_
      <4>2. mode' = "done"
        BY <2>7, <4>1, AgainEnds
      <4> QED
        BY <1>1, <2>2, <2>3, <4>2, EndKeeps
    <3>2. CASE n # Len(sample.text)
      BY <2>5, <2>7, <3>2, AgainKeeps
    <3> QED
      BY <3>1, <3>2
  <2>8. CASE StrMatch
    <3>1. CASE n = Len(sample.text)
      <4>1. NextC(source).c = Nul
        BY <1>1, <2>1, <3>1, NextCAtEnd DEF At_
      <4>2. mode' = "failed"
        BY <2>8, <4>1 DEF StrMatch, Fail, Go
      <4> QED
        BY <1>1, <2>2, <2>3, <4>2, EndKeeps
    <3>2. CASE n # Len(sample.text)
      BY <2>5, <2>8, <3>2, StrMatchKeeps
    <3> QED
      BY <3>1, <3>2
  <2>9. CASE Spaces \/ Comment \/ MatchOperator \/ IdMatch \/ SymMatch \/ Blanks \/ ImportNameMatch
    <3>1. mode \notin {"start", "again", "string"}
      BY <2>9 DEF Spaces, Comment, MatchOperator, IdMatch, SymMatch, Blanks, ImportNameMatch
    <3>2. Between(n)
      BY <2>1, <2>5, <3>1 DEF At_
    <3> QED
      BY <2>9, <3>2, SpacesKeeps, CommentKeeps, MatchOperatorKeeps, IdMatchKeeps, SymMatchKeeps,
         BlanksKeeps, ImportNameMatchKeeps
  <2>10. CASE Finished
    BY <1>4, <2>10 DEF Finished, Over
  <2> QED
    BY <1>4, <2>6, <2>7, <2>8, <2>9, <2>10 DEF Step, Next
<1> QED
  BY <1>2, <1>3, <1>4 DEF Step

\* The part of the text that was taken.
LEMMA TakenFacts ==
  ASSUME Sized, NEW t, IsText(t), NEW n, Points(t, source, n),
         NEW taken, taken = SubSeq(t, 1, Len(t) - Len(Ahead))
  PROVE  /\ {i \in DOMAIN taken : taken[i] = "\n"} = NewLines(t, n)
         /\ "\"" \notin ToSet(taken) => ~Quoted(t, n)
<1>1. /\ Left(source) \in Nat /\ Len(source.file) \in Nat /\ n \in Nat /\ n <= Len(t) /\ Len(t) \in Nat
  BY PointsFacts
<1>2. /\ n + Left(source) + Len(source.file) = Len(t)
      /\ source \in Sources /\ source.pos <= Len(source.buf)
  BY DEF Points
<1>3. t \in Seq(Char)
  BY DEF IsText
<1>4. Len(t) - Len(Ahead) = n
  <2>1. Rest(source) \in Seq(Char) /\ Len(Rest(source)) = Left(source) /\ source.file \in Seq(Char)
    BY <1>2, RestFacts DEF Sources
  <2> DEFINE u == Rest(source)
             v == source.file
  <2>2. Ahead = u \o v
    BY DEF Ahead
  <2>3. u \in Seq(Char) /\ v \in Seq(Char) /\ Len(u) = Left(source) /\ Len(v) = Len(source.file)
    BY <2>1
  <2> HIDE DEF u, v
  <2>4. Len(Ahead) = Left(source) + Len(source.file)
    BY <2>2, <2>3, JoinFacts
  <2> QED
    BY <1>1, <1>2, <2>4
<1>5. taken = SubSeq(t, 0 + 1, n) /\ n - 0 = n /\ 0 <= n
  BY <1>1, <1>4
<1>6. /\ taken \in Seq(Char) /\ Len(taken) = n - 0
      /\ \A i \in 1 .. n - 0 : taken[i] = t[0 + i]
  BY <1>1, <1>3, <1>5, PartFacts
<1>7. DOMAIN taken = 1 .. n
  BY <1>5, <1>6, LenProperties
<1>8. \A i \in 1 .. n : taken[i] = t[i]
  BY <1>1, <1>6
<1>9. {i \in DOMAIN taken : taken[i] = "\n"} = NewLines(t, n)
  BY <1>7, <1>8 DEF NewLines
<1>10. "\"" \notin ToSet(taken) => ~Quoted(t, n)
  BY <1>7, <1>8 DEF Quoted, ToSet
<1> QED
  BY <1>9, <1>10

LEMMA InvLines ==
  Inv => LinesAreTrue
<1> DEFINE t == sample.text
           taken == SubSeq(t, 1, Len(t) - Len(Ahead))
<1> SUFFICES ASSUME Inv, ~Over, "\"" \notin ToSet(taken)
             PROVE  line = 1 + Cardinality({i \in DOMAIN taken : taken[i] = "\n"})
  BY DEF LinesAreTrue
<1>1. IsText(t) /\ Sized
  BY DEF Inv
<1>2. PICK n \in 0 .. Len(t) : At_(n)
  BY DEF Inv
<1>3. Points(t, source, n) /\ (Quoted(t, n) \/ line = 1 + Cardinality(NewLines(t, n)))
  BY <1>2 DEF At_
<1> HIDE DEF t
<1>4. /\ {i \in DOMAIN taken : taken[i] = "\n"} = NewLines(t, n)
      /\ "\"" \notin ToSet(taken) => ~Quoted(t, n)
  BY <1>1, <1>3, TakenFacts
<1> HIDE DEF taken
<1> QED
  BY <1>3, <1>4

\* line_ is one more than the newlines taken, wherever the ends of the buffer
\* fall and whatever the text and the size of the buffer: next_token and every
\* function it calls count each newline they take, outside strings, once.
THEOREM EveryLineIsTrue ==
  Spec => []LinesAreTrue
<1>1. Init => Inv
  BY InitInv
<1>2. Inv /\ [Step]_allVars => Inv'
  BY NextInv
<1>3. Inv => LinesAreTrue
  BY InvLines
<1> QED
  BY <1>1, <1>2, <1>3, PTL DEF Spec
=============================================================================
