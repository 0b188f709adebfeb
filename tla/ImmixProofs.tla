---------------------------- MODULE ImmixProofs ----------------------------
(***************************************************************************)
(* Proofs about the heap of module Immix, for every line size, block size, *)
(* chunk size, number of chunks and set of requested sizes.                *)
(*                                                                         *)
(* SafeHeap is the inductive invariant.  Its heart is AheadIsSettled: every *)
(* block the allocator can still come to has the bodies of its live        *)
(* objects marked, and HoleAvoidsObject turns marked bodies into holes     *)
(* that stay clear of the whole object.                                    *)
(***************************************************************************)
EXTENDS ImmixProps, FiniteSetTheorems, TLAPS

-----------------------------------------------------------------------------
(* The geometry of a block: where lines lie, what mark_address covers, and *)
(* that a hole bounded by find_hole stays clear of every object whose body *)
(* is marked. *)

LEMMA LineStartInt == \A l \in Int : LineStart(l) \in Int
  BY LayoutAssumption DEF LineStart

LEMMA LineStartStep ==
  \A l \in Int : LineStart(l + 1) = LineStart(l) + LineSize
  BY LayoutAssumption DEF LineStart

LEMMA LineStartMono ==
  ASSUME NEW l \in Int, NEW m \in Int, l <= m
  PROVE  LineStart(l) <= LineStart(m)
<1>1. \A d \in Nat : d * LineSize \in Nat
  BY LayoutAssumption
<1>2. PICK d \in Nat : m = l + d
  OBVIOUS
<1>3. LineStart(m) = LineStart(l) + d * LineSize
  BY <1>2, LayoutAssumption DEF LineStart
<1> QED
  BY <1>1, <1>3, LineStartInt

LEMMA LineOfBounds ==
  ASSUME NEW a \in Nat
  PROVE  /\ LineOf(a) \in Nat
         /\ LineStart(LineOf(a)) <= a
         /\ a < LineStart(LineOf(a) + 1)
         /\ a = LineStart(LineOf(a)) + (a % LineSize)
         /\ a % LineSize \in 0 .. LineSize - 1
  BY LayoutAssumption DEF LineStart, LineOf

LEMMA LineOfUnique ==
  ASSUME NEW a \in Nat, NEW l \in Int, LineStart(l) <= a, a < LineStart(l + 1)
  PROVE  LineOf(a) = l
<1>1. CASE l < LineOf(a)
  <2>1. LineStart(l + 1) <= LineStart(LineOf(a))
    BY <1>1, LineOfBounds, LineStartMono
  <2> QED
    BY <2>1, LineOfBounds, LineStartInt
<1>2. CASE LineOf(a) < l
  <2>1. LineStart(LineOf(a) + 1) <= LineStart(l)
    BY <1>2, LineOfBounds, LineStartMono
  <2> QED
    BY <2>1, LineOfBounds, LineStartInt
<1> QED
  BY <1>1, <1>2, LineOfBounds

\* What lies below the start of a line lies in an earlier line.
LEMMA LineOfBelow ==
  ASSUME NEW a \in Nat, NEW l \in Int, a < LineStart(l)
  PROVE  LineOf(a) < l
<1> SUFFICES ASSUME l <= LineOf(a) PROVE FALSE
  BY LineOfBounds
<1>1. LineStart(l) <= LineStart(LineOf(a))
  BY LineOfBounds, LineStartMono
<1> QED
  BY <1>1, LineOfBounds, LineStartInt

LEMMA LineStartSum ==
  ASSUME NEW l \in Int, NEW m \in Int
  PROVE  LineStart(l + m) = LineStart(l) + LineStart(m)
  BY LayoutAssumption DEF LineStart

\* mark_address's last line, in the branch that counts lines.
LEMMA AdditionalLines ==
  ASSUME NEW a \in Nat, NEW s \in Nat \ {0}
  PROVE  LineOf(a + s - 1) = LineOf(a) + (((a % LineSize) + s - 1) \div LineSize)
<1> DEFINE r == (a % LineSize) + s - 1
           q == LineOf(r)
           l == LineOf(a)
<1>1. /\ r \in Nat
      /\ a + s - 1 = LineStart(l) + r
  <2>1. a % LineSize \in Nat /\ a = LineStart(l) + (a % LineSize)
    BY LineOfBounds, LayoutAssumption
  <2>2. LineStart(l) \in Int
    BY LineOfBounds, LineStartInt
  <2> HIDE DEF l
  <2> QED
    BY <2>1, <2>2
<1>2. q \in Nat /\ LineStart(q) <= r /\ r < LineStart(q + 1)
  BY <1>1, LineOfBounds
<1>3. l \in Nat
  BY LineOfBounds
<1>4. LineStart(l + q) = LineStart(l) + LineStart(q)
  BY <1>2, <1>3, LineStartSum
<1>5. LineStart((l + q) + 1) = LineStart(l) + LineStart(q + 1)
  <2>1. (l + q) + 1 = l + (q + 1)
    BY <1>2, <1>3
  <2> QED
    BY <2>1, <1>2, <1>3, LineStartSum
<1> HIDE DEF r, q, l
<1>6. LineStart(l + q) <= a + s - 1 /\ a + s - 1 < LineStart((l + q) + 1)
  BY <1>1, <1>2, <1>3, <1>4, <1>5, LineStartInt
<1>7. LineOf(a + s - 1) = l + q
  BY <1>2, <1>3, <1>6, LineOfUnique
<1> QED
  BY <1>7 DEF l, q, r, LineOf

\* mark_address marks every line that holds a byte of the body, and no line
\* the block does not have.
LEMMA MarkingCovers ==
  ASSUME NEW a \in Nat, NEW s \in Nat \ {0}, a + s <= BlockSize
  PROVE  /\ LineOf(a) .. LineOf(a + s - 1) \subseteq MarkedLines(a, s)
         /\ MarkedLines(a, s) \subseteq LineNos
         /\ LineOf(a) <= LineOf(a + s - 1)
<1> DEFINE l == LineOf(a)
           m == LineOf(a + s - 1)
<1>1. l \in Nat /\ m \in Nat
  BY LineOfBounds
<1>2. m < Lines
  <2>1. a + s - 1 < LineStart(Lines)
    BY LayoutAssumption DEF BlockSize, LineStart
  <2> QED
    BY <2>1, LineOfBelow, LayoutAssumption
<1>3. l <= m
  <2>1. a < LineStart(m + 1)
    BY LineOfBounds, LineStartInt, <1>1
  <2> QED
    BY <2>1, <1>1, LineOfBelow
<1>4. CASE s <= LineSize /\ l + 1 < Lines
  <2>1. a + s - 1 < LineStart((l + 1) + 1)
    <3>1. LineStart((l + 1) + 1) = LineStart(l + 1) + LineSize
      BY <1>1, LineStartStep
    <3> QED
      BY <3>1, <1>1, <1>4, LineOfBounds, LineStartInt, LayoutAssumption
  <2>2. m < l + 2
    BY <2>1, <1>1, LineOfBelow
  <2>3. MarkedLines(a, s) = {l, l + 1}
    BY <1>4 DEF MarkedLines
  <2> QED
    BY <2>2, <2>3, <1>1, <1>3, <1>4, LayoutAssumption DEF LineNos
<1>5. CASE ~(s <= LineSize /\ l + 1 < Lines)
  <2>1. MarkedLines(a, s) = l .. m
    BY <1>5, AdditionalLines DEF MarkedLines
  <2> QED
    BY <2>1, <1>1, <1>2, <1>3, LayoutAssumption DEF LineNos
<1> QED
  BY <1>4, <1>5

\* The line of the body's address is always marked; the header in front of
\* it may start in the line before, but not at that line's first byte.
LEMMA HeaderStart ==
  ASSUME NEW at \in Nat, LineSize <= at
  PROVE  LET l == LineOf(at + HeaderSize)
         IN  l \in Nat /\ l > 0 /\ LineStart(l - 1) < at
<1> DEFINE l == LineOf(at + HeaderSize)
<1>1. l \in Nat /\ LineStart(l) <= at + HeaderSize
  BY LineOfBounds, LayoutAssumption
<1>2. l > 0
  <2>1. LineStart(0) + LineSize = LineStart(0 + 1) /\ LineStart(0) = 0
    BY LayoutAssumption DEF LineStart
  <2>2. CASE l = 0
    <3>1. at + HeaderSize < LineStart(0 + 1)
      BY <2>2, LineOfBounds, LayoutAssumption
    <3> QED
      BY <3>1, <2>1, LayoutAssumption
  <2> QED
    BY <2>2, <1>1
<1>3. LineStart(l - 1) + LineSize = LineStart((l - 1) + 1)
  BY <1>1, LineStartStep
<1>4. (l - 1) + 1 = l
  BY <1>1
<1>5. LineStart(l - 1) < at
  <2> HIDE DEF l
  <2> QED
    BY <1>1, <1>3, <1>4, LayoutAssumption, LineStartInt
<1> QED
  BY <1>1, <1>2, <1>5

\* The region find_hole delimits holds no byte, header included, of an
\* object whose body is marked.  The limit, one byte into the last free line
\* instead of at its end, is what makes it true of the header.
LEMMA HoleAvoidsObject ==
  ASSUME NEW used, NEW from \in Nat, NEW h \in Int, NEW e \in Int,
         IsHole(used, from, h, e),
         NEW at \in Nat, NEW s \in Nat \ {0},
         LineSize <= at, at + HeaderSize + s <= BlockSize,
         MarkedLines(at + HeaderSize, s) \subseteq used
  PROVE  Apart(LineStart(h), HoleLimit(e), at, at + HeaderSize + s)
<1> DEFINE a == at + HeaderSize
           l == LineOf(a)
           m == LineOf(a + s - 1)
<1>1. a \in Nat /\ a + s <= BlockSize
  BY LayoutAssumption
<1>2. l .. m \subseteq used /\ l <= m /\ l \in Nat /\ m \in Nat
  <2>1. a + s - 1 \in Nat
    BY <1>1
  <2>2. l .. m \subseteq MarkedLines(a, s) /\ l <= m
    BY <1>1, MarkingCovers
  <2> QED
    BY <1>1, <2>1, <2>2, LineOfBounds
<1>3. h < e /\ \A k \in h .. e - 1 : k \notin used
  BY DEF IsHole
<1>4. m < h \/ e - 1 < l
  <2>1. CASE h <= l
    <3>1. l \in used
      BY <1>2
    <3>2. l \notin h .. e - 1
      BY <3>1, <1>3
    <3> QED
      BY <2>1, <3>2, <1>2
  <2>2. CASE l < h
    <3>1. h \notin used
      BY <1>3
    <3>2. h \notin l .. m
      BY <3>1, <1>2
    <3> QED
      BY <2>2, <3>2, <1>2
  <2> QED
    BY <2>1, <2>2, <1>2
<1>5. CASE m < h
  <2>1. a + s - 1 < LineStart(m + 1)
    BY <1>1, LineOfBounds
  <2>2. LineStart(m + 1) <= LineStart(h)
    BY <1>5, <1>2, LineStartMono
  <2>3. a + s <= LineStart(h)
    <3> HIDE DEF l, m
    <3> QED
      BY <2>1, <2>2, <1>1, <1>2, LineStartInt
  <2> QED
    BY <2>3 DEF Apart
<1>6. CASE e - 1 < l
  <2>1. LineStart(e - 1) <= LineStart(l - 1)
    BY <1>6, <1>2, LineStartMono
  <2>2. LineStart(l - 1) < at
    BY HeaderStart
  <2>3. HoleLimit(e) <= at
    <3> HIDE DEF l
    <3> QED
      BY <2>1, <2>2, <1>2, LineStartInt DEF HoleLimit
  <2> QED
    BY <2>3 DEF Apart
<1> QED
  BY <1>4, <1>5, <1>6

-----------------------------------------------------------------------------

\* A hole find_hole can return, and the cursor and limit made of it.
LEMMA HoleTypes ==
  ASSUME NEW e \in 1 .. Lines
  PROVE  /\ HoleLimit(e) \in 1 .. HoleLimit(Lines)
         /\ HoleLimit(Lines) \in 1 .. BlockSize
         /\ HoleLimit(e) <= LineStart(e)
<1>1. LineStart(e - 1) <= LineStart(Lines - 1) /\ LineStart(0) <= LineStart(e - 1)
  BY LineStartMono, LayoutAssumption
<1>2. LineStart(e - 1) \in Int /\ LineStart(Lines - 1) \in Int
  BY LineStartInt, LayoutAssumption
<1>3. LineStart(0) = 0
  BY LayoutAssumption DEF LineStart
<1>4. LineStart((e - 1) + 1) = LineStart(e - 1) + LineSize
  BY LineStartStep
<1>5. LineStart((Lines - 1) + 1) = LineStart(Lines - 1) + LineSize
  BY LineStartStep, LayoutAssumption
<1>6. LineStart(Lines) = BlockSize /\ (Lines - 1) + 1 = Lines /\ (e - 1) + 1 = e
  BY LayoutAssumption DEF LineStart, BlockSize
<1> QED
  BY <1>1, <1>2, <1>3, <1>4, <1>5, <1>6, LayoutAssumption DEF HoleLimit

\* What find_hole leaves in the HoleFinder when it starts at a line that is
\* not line 0 or in a block whose line 0 is in use.
LEMMA FindHoleTypes ==
  ASSUME TypeOK, NEW b \in Blocks, 0 \in lines[b], NEW from \in 0 .. Lines,
         FindHole(b, from)
  PROVE  /\ cursor' \in 0 .. BlockSize /\ limit' \in 0 .. BlockSize
         /\ hole_start_line' \in 1 .. Lines
         /\ LineSize <= cursor' /\ cursor' <= limit'
         /\ limit' = HoleLimit(hole_start_line')
         /\ LineStart(from) <= cursor'
<1> PICK h \in LineNos, e \in 1 .. Lines :
       /\ IsHole(lines[b], from, h, e)
       /\ cursor' = LineStart(h)
       /\ limit' = HoleLimit(e)
       /\ hole_start_line' = e
  BY DEF FindHole
<1>1. h \in Int /\ e \in Int /\ 0 < h /\ h <= e - 1 /\ from <= h
  <2>1. h \notin lines[b]
    BY DEF IsHole, LineNos
  <2> QED
    BY <2>1 DEF IsHole, LineNos
<1>2. LineStart(1) <= LineStart(h) /\ LineStart(h) <= LineStart(e - 1)
      /\ LineStart(from) <= LineStart(h)
  BY <1>1, LineStartMono
<1>3. LineStart(1) = LineSize
  BY LayoutAssumption DEF LineStart
<1>4. LineStart(h) \in Int /\ LineStart(e - 1) \in Int
  BY <1>1, LineStartInt
<1>5. LineStart(h) <= HoleLimit(e)
  BY <1>2, <1>4 DEF HoleLimit
<1>6. HoleLimit(e) \in 1 .. HoleLimit(Lines) /\ HoleLimit(Lines) \in 1 .. BlockSize
  BY HoleTypes
<1>7. BlockSize \in Nat /\ LineStart(from) \in Int
  BY LayoutAssumption, LineStartInt DEF BlockSize
<1> QED
  BY <1>2, <1>3, <1>4, <1>5, <1>6, <1>7, LayoutAssumption

\* An object of the heap, as the lemmas about layout want it.
LEMMA ObjectShape ==
  ASSUME TypeOK, Placement, NEW o \in live
  PROVE  /\ o.blk \in Blocks /\ o.at \in Nat /\ o.size \in Nat \ {0}
         /\ LineSize <= o.at
         /\ End(o) = Body(o) + o.size /\ End(o) <= BlockSize
         /\ Body(o) \in Nat /\ End(o) \in Nat
<1>1. o \in Objects
  BY DEF TypeOK
<1>2. o.blk \in Blocks /\ o.at \in 0 .. BlockSize /\ o.size \in Nat \ {0}
  BY <1>1, HeapAssumption DEF Objects
<1>3. BlockSize \in Nat
  BY LayoutAssumption DEF BlockSize
<1>4. HoleLimit(Lines) <= BlockSize /\ HoleLimit(Lines) \in Nat
  BY HoleTypes, LayoutAssumption, <1>3
<1>5. LineSize <= o.at /\ End(o) <= HoleLimit(Lines)
  BY DEF Placement
<1> QED
  BY <1>2, <1>3, <1>4, <1>5, LayoutAssumption DEF Body, End

\* Whatever hole find_hole finds in a block, a settled object is clear of it.
LEMMA FoundHoleIsFree ==
  ASSUME TypeOK, Placement, NEW o \in live, Settled(o),
         NEW from \in 0 .. Lines, FindHole(o.blk, from)
  PROVE  Apart(cursor', limit', o.at, End(o))
<1> PICK h \in LineNos, e \in 1 .. Lines :
       /\ IsHole(lines[o.blk], from, h, e)
       /\ cursor' = LineStart(h)
       /\ limit' = HoleLimit(e)
  BY DEF FindHole
<1>1. /\ o.at \in Nat /\ o.size \in Nat \ {0} /\ LineSize <= o.at
      /\ o.at + HeaderSize + o.size <= BlockSize
  BY ObjectShape DEF End
<1>2. MarkedLines(o.at + HeaderSize, o.size) \subseteq lines[o.blk]
  BY DEF Settled, Body
<1>3. h \in Int /\ e \in Int /\ from \in Nat
  BY LayoutAssumption DEF LineNos
<1> QED
  BY <1>1, <1>2, <1>3, HoleAvoidsObject DEF End

-----------------------------------------------------------------------------
(* The initial state. *)

LEMMA InitSafe == Init => SafeHeap
<1> SUFFICES ASSUME Init PROVE SafeHeap
  OBVIOUS
<1> USE DEF Init
<1>1. /\ LineStart(1) = LineSize /\ LineSize \in Nat
      /\ HoleLimit(Lines) \in 1 .. BlockSize
      /\ BlockSize \in Nat
  BY HoleTypes, LayoutAssumption DEF LineStart, BlockSize
<1>2. LineSize <= HoleLimit(Lines)
  <2>1. LineStart(1) <= LineStart(Lines - 1) /\ LineStart(Lines - 1) \in Int
    BY LineStartMono, LineStartInt, LayoutAssumption
  <2> QED
    BY <1>1, <2>1 DEF HoleLimit
<1>3. <<0, 0>> \in Blocks
  BY HeapAssumption DEF Blocks
<1>4. TypeOK
  <2>1. /\ chunks \in 1 .. MaxChunks /\ chunk_cursor \in 0 .. chunks - 1
        /\ block_cursor \in 0 .. BlocksPerChunk
    BY HeapAssumption
  <2>2. /\ cursor \in 0 .. BlockSize /\ limit \in 0 .. BlockSize
        /\ hole_start_line \in 0 .. Lines /\ 0 \in LineNos
    BY <1>1, <1>2, LayoutAssumption DEF LineNos
  <2> QED
    BY <1>3, <2>1, <2>2 DEF TypeOK
<1>5. Placement
  BY <1>1, <1>2, LayoutAssumption DEF Placement
<1> QED
  BY <1>4, <1>5 DEF SafeHeap, NoOverlap, BumpRegionFree, AheadIsSettled

-----------------------------------------------------------------------------
(* The program: a request and the loss of a reference only take objects     *)
(* away, or change what the allocator is asked for.                         *)

LEMMA RequestSafe == SafeHeap /\ Request => SafeHeap'
<1> SUFFICES ASSUME SafeHeap, Request PROVE SafeHeap'
  OBVIOUS
<1> USE DEF Request, SafeHeap, cursors, tables, finder
<1>1. req' \in Nat /\ req' # 0 /\ req' - HeaderSize \in Requests
  BY HeapAssumption, LayoutAssumption
<1>2. TypeOK'
  BY <1>1 DEF TypeOK
<1>3. Placement'
  BY <1>1 DEF Placement
<1>4. (NoOverlap /\ BumpRegionFree)'
  BY DEF NoOverlap, BumpRegionFree
<1>5. AheadIsSettled'
  BY DEF AheadIsSettled, Ahead, Settled
<1> QED
  BY <1>2, <1>3, <1>4, <1>5

LEMMA DropSafe == ASSUME NEW o \in live PROVE SafeHeap /\ Drop(o) => SafeHeap'
<1> SUFFICES ASSUME SafeHeap, Drop(o) PROVE SafeHeap'
  OBVIOUS
<1> USE DEF Drop, SafeHeap, cursors, tables, finder
<1>1. to_mark = {} /\ live' \subseteq live
  BY DEF Placement
<1>2. TypeOK'
  BY <1>1 DEF TypeOK
<1>3. Placement'
  BY <1>1 DEF Placement
<1>4. (NoOverlap /\ BumpRegionFree)'
  BY <1>1 DEF NoOverlap, BumpRegionFree
<1>5. AheadIsSettled'
  BY <1>1 DEF AheadIsSettled, Ahead, Settled
<1> QED
  BY <1>2, <1>3, <1>4, <1>5

-----------------------------------------------------------------------------
(* allocate. *)

\* bump: the new object lies in the region that BumpRegionFree keeps clear.
LEMMA BumpSafe == SafeHeap /\ Bump => SafeHeap'
<1> SUFFICES ASSUME SafeHeap, Bump PROVE SafeHeap'
  OBVIOUS
<1> DEFINE new == [blk |-> block, at |-> cursor, size |-> req - HeaderSize]
<1> USE DEF SafeHeap
<1>1. /\ pc = "allocate" /\ cursor + req <= limit
      /\ live' = live \cup {new} /\ cursor' = cursor + req
      /\ req' = 0 /\ pc' = "run"
      /\ UNCHANGED <<to_mark, cursors, tables, block, limit, hole_start_line,
                     gc_soon, handed>>
  BY DEF Bump, Fits
<1>2. /\ block \in Blocks /\ cursor \in 0 .. BlockSize /\ limit \in 0 .. BlockSize
      /\ req \in Nat /\ req - HeaderSize \in Requests
      /\ HeaderSize \in Nat /\ BlockSize \in Nat /\ LineSize \in Nat
      /\ LineSize <= cursor
  BY <1>1, LayoutAssumption DEF TypeOK, Placement, BlockSize
<1>3. new \in Objects /\ new.blk = block /\ new.at = cursor
      /\ End(new) = cursor + req
  BY <1>2 DEF Objects, End
<1>4. limit <= HoleLimit(Lines) /\ HoleLimit(Lines) \in Nat
  BY <1>1, <1>2, HoleTypes, LayoutAssumption DEF TypeOK, Placement
<1> HIDE DEF new
<1>5. TypeOK'
  <2>1. cursor' \in 0 .. BlockSize
    BY <1>1, <1>2
  <2>2. live' \subseteq Objects
    BY <1>1, <1>3 DEF TypeOK
  <2> QED
    BY <1>1, <2>1, <2>2 DEF TypeOK, cursors, tables
<1>6. Placement'
  <2>1. \A o \in live' : /\ LineSize <= o.at
                         /\ End(o) <= HoleLimit(Lines)
                         /\ o.blk[1] < chunks'
    <3> SUFFICES ASSUME NEW o \in live'
                 PROVE  /\ LineSize <= o.at
                        /\ End(o) <= HoleLimit(Lines)
                        /\ o.blk[1] < chunks'
      OBVIOUS
    <3>1. CASE o \in live
      BY <1>1, <3>1 DEF Placement, cursors
    <3>2. CASE o = new
      <4>1. block[1] < chunks
        BY <1>1 DEF TypeOK, Placement
      <4> QED
        BY <1>1, <1>2, <1>3, <1>4, <3>2, <4>1 DEF cursors
    <3> QED
      BY <1>1, <3>1, <3>2
  <2> QED
    BY <1>1, <1>2, <2>1 DEF Placement, cursors, tables
<1>7. \A o \in live : o.blk = block =>
        Apart(o.at, End(o), new.at, End(new))
  <2> SUFFICES ASSUME NEW o \in live, o.blk = block
               PROVE  Apart(o.at, End(o), new.at, End(new))
    OBVIOUS
  <2>1. Apart(cursor, limit, o.at, End(o))
    BY <1>1 DEF BumpRegionFree
  <2> QED
    BY <2>1, <1>1, <1>2, <1>3, ObjectShape DEF Apart
<1>8. NoOverlap'
  BY <1>1, <1>3, <1>7 DEF NoOverlap, Apart
<1>9. BumpRegionFree'
  <2> SUFFICES ASSUME NEW o \in live', o.blk = block
               PROVE  Apart(cursor + req, limit, o.at, End(o))
    BY <1>1 DEF BumpRegionFree
  <2>1. CASE o = new
    BY <1>2, <1>3, <2>1 DEF Apart
  <2>2. CASE o \in live
    <3>1. Apart(cursor, limit, o.at, End(o))
      BY <1>1, <2>2 DEF BumpRegionFree
    <3> QED
      BY <3>1, <1>2, <2>2, ObjectShape DEF Apart
  <2> QED
    BY <1>1, <2>1, <2>2
<1>10. AheadIsSettled'
  <2>1. ASSUME NEW b PROVE Ahead(b)' <=> Ahead(b)
    BY <1>1 DEF Ahead, cursors
  <2>2. ASSUME NEW o PROVE Settled(o)' <=> Settled(o)
    BY <1>1 DEF Settled, tables
  <2>3. ~Ahead(new.blk)
    BY <1>1, <1>2, <1>3 DEF Ahead, Placement, TypeOK, Blocks
  <2>4. \A o \in live' : Ahead(o.blk) => Settled(o)
    BY <1>1, <2>3 DEF AheadIsSettled
  <2>5. \A o \in live' : o.blk = block => Settled(o) \/ End(o) <= cursor'
    <3> SUFFICES ASSUME NEW o \in live', o.blk = block, ~Settled(o)
                 PROVE  End(o) <= cursor'
      OBVIOUS
    <3>1. CASE o = new
      BY <1>1, <1>2, <1>3, <3>1
    <3>2. CASE o \in live
      <4>1. End(o) <= cursor
        BY <1>1, <3>2 DEF AheadIsSettled
      <4> QED
        BY <4>1, <1>1, <1>2, <3>2, ObjectShape
    <3> QED
      BY <1>1, <3>1, <3>2
  <2> QED
    BY <1>1, <2>1, <2>2, <2>4, <2>5 DEF AheadIsSettled
<1> QED
  BY <1>5, <1>6, <1>8, <1>9, <1>10

\* find_hole goes on behind everything it has passed.
LEMMA NextHoleSafe == SafeHeap /\ NextHole => SafeHeap'
<1> SUFFICES ASSUME SafeHeap, NextHole PROVE SafeHeap'
  OBVIOUS
<1> USE DEF SafeHeap
<1>1. /\ pc = "allocate" /\ FindHole(block, hole_start_line)
      /\ UNCHANGED <<pc, req, live, to_mark, cursors, tables, block, gc_soon,
                     handed>>
  BY DEF NextHole
<1>2. /\ block \in Blocks /\ 0 \in lines[block] /\ hole_start_line \in 1 .. Lines
      /\ cursor \in Int /\ cursor <= HoleLimit(hole_start_line)
  BY <1>1 DEF TypeOK, Placement
<1>3. /\ cursor' \in 0 .. BlockSize /\ limit' \in 0 .. BlockSize
      /\ hole_start_line' \in 1 .. Lines
      /\ LineSize <= cursor' /\ cursor' <= limit'
      /\ limit' = HoleLimit(hole_start_line')
      /\ LineStart(hole_start_line) <= cursor'
  BY <1>1, <1>2, FindHoleTypes, LayoutAssumption
<1>4. cursor <= cursor'
  <2>1. /\ HoleLimit(hole_start_line) <= LineStart(hole_start_line)
        /\ HoleLimit(hole_start_line) \in Int /\ LineStart(hole_start_line) \in Int
    BY <1>2, HoleTypes, LineStartInt
  <2>2. BlockSize \in Nat
    BY LayoutAssumption DEF BlockSize
  <2> QED
    BY <1>2, <1>3, <2>1, <2>2
<1>5. TypeOK'
  BY <1>1, <1>3, LayoutAssumption DEF TypeOK, cursors, tables
<1>6. Placement'
  BY <1>1, <1>3 DEF Placement, cursors, tables
<1>7. NoOverlap'
  BY <1>1 DEF NoOverlap
<1>8. \A o \in live : o.blk = block => Settled(o) \/ End(o) <= cursor'
  <2> SUFFICES ASSUME NEW o \in live, o.blk = block, ~Settled(o)
               PROVE  End(o) <= cursor'
    OBVIOUS
  <2>1. End(o) <= cursor
    BY <1>1 DEF AheadIsSettled
  <2> QED
    BY <2>1, <1>2, <1>3, <1>4, ObjectShape
<1>9. BumpRegionFree'
  <2> SUFFICES ASSUME NEW o \in live, o.blk = block
               PROVE  Apart(cursor', limit', o.at, End(o))
    BY <1>1 DEF BumpRegionFree
  <2>1. CASE Settled(o)
    BY <2>1, <1>1, <1>2, FoundHoleIsFree
  <2>2. CASE End(o) <= cursor'
    BY <2>2 DEF Apart
  <2> QED
    BY <1>8, <2>1, <2>2
<1>10. AheadIsSettled'
  <2>1. ASSUME NEW b PROVE Ahead(b)' <=> Ahead(b)
    BY <1>1 DEF Ahead, cursors
  <2>2. ASSUME NEW o PROVE Settled(o)' <=> Settled(o)
    BY <1>1 DEF Settled, tables
  <2> QED
    BY <1>1, <1>8, <2>1, <2>2 DEF AheadIsSettled
<1> QED
  BY <1>5, <1>6, <1>7, <1>9, <1>10

LEMMA BlockDoneSafe == SafeHeap /\ BlockDone => SafeHeap'
<1> SUFFICES ASSUME SafeHeap, BlockDone PROVE SafeHeap'
  OBVIOUS
<1> USE DEF BlockDone, SafeHeap, cursors, tables
<1>1. TypeOK'
  BY LayoutAssumption DEF TypeOK
<1>2. Placement'
  BY DEF Placement
<1>3. (NoOverlap /\ BumpRegionFree)'
  BY DEF NoOverlap, BumpRegionFree
<1>4. AheadIsSettled'
  BY DEF AheadIsSettled, Ahead, Settled
<1> QED
  BY <1>1, <1>2, <1>3, <1>4

-----------------------------------------------------------------------------
(* get_block. *)

\* The block taken was ahead of the cursors, or belongs to a chunk that was
\* just added: its objects are settled, and any hole in it is free.
LEMMA TakeBlockSafe ==
  ASSUME SafeHeap, pc = "get_block",
         NEW n \in 1 .. MaxChunks, NEW c \in 0 .. n - 1,
         NEW i \in 0 .. BlocksPerChunk - 1,
         chunks <= n, TakeBlock(n, c, i),
         \A b \in Blocks : b[1] < chunks =>
           /\ b = <<c, i>> => Ahead(b)
           /\ Ahead(b)' => Ahead(b)
  PROVE  SafeHeap'
<1> USE DEF SafeHeap
<1>1. /\ chunks' = n /\ chunk_cursor' = c /\ block_cursor' = i + 1
      /\ gc_soon' \in BOOLEAN
      /\ UNCHANGED <<req, live, to_mark, tables>>
      /\ \/ UNCHANGED <<finder, pc, handed>>
         \/ Reset(<<c, i>>) /\ handed' = handed \cup {<<c, i>>}
  BY DEF TakeBlock, TypeOK
<1>2. <<c, i>> \in Blocks /\ c < MaxChunks /\ i + 1 \in 0 .. BlocksPerChunk
  BY HeapAssumption DEF Blocks
<1>3. NoOverlap'
  BY <1>1 DEF NoOverlap
<1>4. ASSUME NEW o PROVE Settled(o)' <=> Settled(o)
  BY <1>1 DEF Settled, tables
<1>5. ASSUME NEW o \in live
      PROVE  /\ o.blk \in Blocks /\ o.blk[1] < chunks
             /\ o.blk = <<c, i>> => Settled(o)
             /\ Ahead(o.blk)' => Settled(o)
  <2>1. o.blk \in Blocks /\ o.blk[1] < chunks
    BY ObjectShape DEF Placement
  <2> QED
    BY <2>1 DEF AheadIsSettled
<1>6. /\ \A o \in live' : Ahead(o.blk)' => Settled(o)'
      /\ \A o \in live' : o.blk[1] < chunks'
  <2>1. live' = live
    BY <1>1
  <2>2. ASSUME NEW o \in live PROVE o.blk[1] < n
    BY <1>5, HeapAssumption DEF TypeOK, Blocks
  <2> QED
    BY <1>1, <1>4, <1>5, <2>1, <2>2
<1>7. CASE pc' = "get_block" /\ cursor' = cursor /\ limit' = limit
           /\ block' \in Blocks /\ hole_start_line' \in 0 .. Lines
           /\ handed' \subseteq Blocks
  <2>1. TypeOK'
    BY <1>1, <1>2, <1>7 DEF TypeOK, tables
  <2>2. Placement'
    BY <1>1, <1>6, <1>7 DEF Placement, tables
  <2>3. BumpRegionFree' /\ AheadIsSettled'
    BY <1>1, <1>6, <1>7 DEF BumpRegionFree, AheadIsSettled
  <2> QED
    BY <1>3, <2>1, <2>2, <2>3
<1>8. CASE UNCHANGED <<finder, pc, handed>>
  BY <1>7, <1>8 DEF finder, TypeOK
<1>9. CASE Reset(<<c, i>>) /\ NoHole(lines[<<c, i>>], 0)
           /\ handed' = handed \cup {<<c, i>>}
  BY <1>2, <1>7, <1>9, LayoutAssumption DEF Reset, TypeOK
<1>10. CASE Reset(<<c, i>>) /\ ~NoHole(lines[<<c, i>>], 0)
            /\ handed' = handed \cup {<<c, i>>}
  <2>1. /\ block' = <<c, i>> /\ FindHole(<<c, i>>, 0)
        /\ pc' = IF req = 0 THEN "run" ELSE "allocate"
    BY <1>10 DEF Reset
  <2>2. 0 \in lines[<<c, i>>]
    BY <1>2 DEF Placement
  <2>3. /\ cursor' \in 0 .. BlockSize /\ limit' \in 0 .. BlockSize
        /\ hole_start_line' \in 1 .. Lines
        /\ LineSize <= cursor' /\ cursor' <= limit'
        /\ limit' = HoleLimit(hole_start_line')
    BY <1>2, <2>1, <2>2, FindHoleTypes, LayoutAssumption
  <2>4. TypeOK'
    BY <1>1, <1>2, <1>10, <2>1, <2>3, LayoutAssumption DEF TypeOK, tables
  <2>5. Placement'
    BY <1>1, <1>6, <2>1, <2>3 DEF Placement, tables
  <2>6. BumpRegionFree'
    <3> SUFFICES ASSUME NEW o \in live, o.blk = <<c, i>>
                 PROVE  Apart(cursor', limit', o.at, End(o))
      BY <1>1, <2>1 DEF BumpRegionFree
    <3>1. Settled(o) /\ FindHole(o.blk, 0) /\ TypeOK /\ Placement
      BY <1>5, <2>1
    <3>2. 0 \in 0 .. Lines
      BY LayoutAssumption
    <3> HIDE DEF SafeHeap
    <3> QED
      BY <3>1, <3>2, FoundHoleIsFree
  <2>7. AheadIsSettled'
    BY <1>1, <1>4, <1>5, <1>6, <2>1 DEF AheadIsSettled
  <2> QED
    BY <1>3, <2>4, <2>5, <2>6, <2>7
<1> QED
  BY <1>1, <1>8, <1>9, <1>10

LEMMA NextInChunkSafe == SafeHeap /\ NextInChunk => SafeHeap'
<1> SUFFICES ASSUME SafeHeap, NextInChunk PROVE SafeHeap'
  OBVIOUS
<1>1. /\ pc = "get_block" /\ block_cursor < BlocksPerChunk
      /\ TakeBlock(chunks, chunk_cursor, block_cursor)
  BY DEF NextInChunk
<1>2. /\ chunks \in 1 .. MaxChunks /\ chunk_cursor \in 0 .. chunks - 1
      /\ block_cursor \in 0 .. BlocksPerChunk - 1
  BY <1>1, HeapAssumption DEF SafeHeap, TypeOK
<1>3. /\ chunks' = chunks /\ chunk_cursor' = chunk_cursor
      /\ block_cursor' = block_cursor + 1
  BY <1>1 DEF TakeBlock
<1>4. ASSUME NEW b \in Blocks, b[1] < chunks
      PROVE  /\ b = <<chunk_cursor, block_cursor>> => Ahead(b)
             /\ Ahead(b)' => Ahead(b)
  BY <1>2, <1>3, <1>4, HeapAssumption DEF Ahead, Blocks
<1> QED
  BY <1>1, <1>2, <1>4, TakeBlockSafe

LEMMA NextChunkSafe == SafeHeap /\ NextChunk => SafeHeap'
<1> SUFFICES ASSUME SafeHeap, NextChunk PROVE SafeHeap'
  OBVIOUS
<1>1. /\ pc = "get_block" /\ chunk_cursor + 1 < chunks
      /\ TakeBlock(chunks, chunk_cursor + 1, 0)
  BY DEF NextChunk
<1>2. /\ chunks \in 1 .. MaxChunks /\ chunk_cursor \in 0 .. chunks - 1
      /\ chunk_cursor + 1 \in 0 .. chunks - 1
      /\ 0 \in 0 .. BlocksPerChunk - 1
  BY <1>1, HeapAssumption DEF SafeHeap, TypeOK
<1>3. /\ chunks' = chunks /\ chunk_cursor' = chunk_cursor + 1
      /\ block_cursor' = 0 + 1
  BY <1>1 DEF TakeBlock
<1>4. ASSUME NEW b \in Blocks, b[1] < chunks
      PROVE  /\ b = <<chunk_cursor + 1, 0>> => Ahead(b)
             /\ Ahead(b)' => Ahead(b)
  BY <1>2, <1>3, <1>4, HeapAssumption DEF Ahead, Blocks
<1> QED
  BY <1>1, <1>2, <1>4, TakeBlockSafe

LEMMA AddChunkSafe == SafeHeap /\ AddChunk => SafeHeap'
<1> SUFFICES ASSUME SafeHeap, AddChunk PROVE SafeHeap'
  OBVIOUS
<1>1. /\ pc = "get_block" /\ chunks < MaxChunks
      /\ TakeBlock(chunks + 1, chunks, 1)
  BY DEF AddChunk
<1>2. /\ chunks \in 1 .. MaxChunks /\ chunks + 1 \in 1 .. MaxChunks
      /\ chunks <= chunks + 1 /\ chunks \in 0 .. (chunks + 1) - 1
      /\ 1 \in 0 .. BlocksPerChunk - 1
  BY <1>1, HeapAssumption DEF SafeHeap, TypeOK
<1>3. chunks' = chunks + 1 /\ chunk_cursor' = chunks
  BY <1>1 DEF TakeBlock
<1>4. ASSUME NEW b \in Blocks, b[1] < chunks
      PROVE  /\ b = <<chunks, 1>> => Ahead(b)
             /\ Ahead(b)' => Ahead(b)
  BY <1>2, <1>3, <1>4, HeapAssumption DEF Ahead, Blocks
<1> QED
  BY <1>1, <1>2, <1>4, TakeBlockSafe

LEMMA OutOfMemorySafe == SafeHeap /\ OutOfMemory => SafeHeap'
<1> SUFFICES ASSUME SafeHeap, OutOfMemory PROVE SafeHeap'
  OBVIOUS
<1> USE DEF OutOfMemory, SafeHeap, cursors, tables, finder
<1>1. TypeOK' /\ Placement'
  BY DEF TypeOK, Placement
<1>2. (NoOverlap /\ BumpRegionFree)'
  BY DEF NoOverlap, BumpRegionFree
<1>3. AheadIsSettled'
  BY DEF AheadIsSettled
<1> QED
  BY <1>1, <1>2, <1>3

-----------------------------------------------------------------------------
(* The collection. *)

LEMMA StartCollectSafe == SafeHeap /\ StartCollect => SafeHeap'
<1> SUFFICES ASSUME SafeHeap, StartCollect PROVE SafeHeap'
  OBVIOUS
<1> USE DEF StartCollect, SafeHeap, cursors, finder
<1>1. TypeOK'
  <2>1. lines' \in [Blocks -> SUBSET LineNos]
    BY LayoutAssumption DEF LineNos
  <2> QED
    BY <2>1 DEF TypeOK
<1>2. Placement'
  BY DEF Placement
<1>3. (NoOverlap /\ BumpRegionFree)'
  BY DEF NoOverlap, BumpRegionFree
<1>4. AheadIsSettled'
  BY DEF AheadIsSettled
<1> QED
  BY <1>1, <1>2, <1>3, <1>4

LEMMA MarkObjectSafe ==
  ASSUME NEW o \in live PROVE SafeHeap /\ MarkObject(o) => SafeHeap'
<1> SUFFICES ASSUME SafeHeap, MarkObject(o) PROVE SafeHeap'
  OBVIOUS
<1> USE DEF SafeHeap
<1> DEFINE marked == MarkedLines(Body(o), o.size)
<1>1. /\ pc = "mark" /\ to_mark' = to_mark \ {o}
      /\ lines' = [lines EXCEPT ![o.blk] = @ \cup marked]
      /\ objects' = [objects EXCEPT ![o.blk] = @ + 1]
      /\ UNCHANGED <<pc, req, live, cursors, status, finder, gc_soon, handed>>
  BY DEF MarkObject
<1>2. o.blk \in Blocks /\ marked \subseteq LineNos
  BY ObjectShape, MarkingCovers
<1> HIDE DEF marked
<1>3. /\ lines \in [Blocks -> SUBSET LineNos]
      /\ \A b \in Blocks : lines[b] \subseteq lines'[b]
      /\ marked \subseteq lines'[o.blk]
  BY <1>1, <1>2 DEF TypeOK
<1>4. TypeOK'
  <2>1. lines' \in [Blocks -> SUBSET LineNos]
    BY <1>1, <1>2, <1>3
  <2>2. objects' \in [Blocks -> Nat]
    BY <1>1, <1>2 DEF TypeOK
  <2> QED
    BY <1>1, <2>1, <2>2 DEF TypeOK, cursors, finder
<1>5. Placement'
  BY <1>1, <1>3 DEF Placement, cursors, finder
<1>6. (NoOverlap /\ BumpRegionFree)'
  BY <1>1 DEF NoOverlap, BumpRegionFree
<1>7. AheadIsSettled'
  <2>1. ASSUME NEW p \in live, p \notin to_mark \/ p = o
        PROVE  Settled(p)'
    <3>1. CASE p = o
      BY <1>3, <3>1 DEF Settled, marked
    <3>2. CASE p \notin to_mark
      <4>1. Settled(p) /\ p.blk \in Blocks
        BY <1>1, <3>2, ObjectShape DEF AheadIsSettled
      <4> QED
        BY <4>1, <1>3 DEF Settled
    <3> QED
      BY <2>1, <3>1, <3>2
  <2> QED
    BY <1>1, <2>1 DEF AheadIsSettled
<1> QED
  BY <1>4, <1>5, <1>6, <1>7

LEMMA SweepSafe == SafeHeap /\ Sweep => SafeHeap'
<1> SUFFICES ASSUME SafeHeap, Sweep PROVE SafeHeap'
  OBVIOUS
<1> USE DEF Sweep, SafeHeap, finder
<1>1. TypeOK'
  <2>1. status' \in [Blocks -> {"free", "recyclable", "unavailable"}]
    BY DEF StatusOf
  <2>2. 0 \in 0 .. chunks - 1 /\ 0 \in 0 .. BlocksPerChunk
    BY HeapAssumption DEF TypeOK
  <2> QED
    BY <2>1, <2>2 DEF TypeOK
<1>2. Placement'
  BY DEF Placement
<1>3. (NoOverlap /\ BumpRegionFree)'
  BY DEF NoOverlap, BumpRegionFree
<1>4. AheadIsSettled'
  BY DEF AheadIsSettled, Settled
<1> QED
  BY <1>1, <1>2, <1>3, <1>4

-----------------------------------------------------------------------------
LEMMA NextSafe == SafeHeap /\ [Next]_vars => SafeHeap'
<1>1. SafeHeap /\ UNCHANGED vars => SafeHeap'
  <2> SUFFICES ASSUME SafeHeap, UNCHANGED vars PROVE SafeHeap'
    OBVIOUS
  <2> USE DEF vars, cursors, tables, finder, SafeHeap
  <2>1. TypeOK' /\ Placement'
    BY DEF TypeOK, Placement
  <2> QED
    BY <2>1 DEF NoOverlap, BumpRegionFree, AheadIsSettled, Ahead, Settled
<1> QED
  BY <1>1, RequestSafe, DropSafe, StartCollectSafe, MarkObjectSafe, SweepSafe,
     BumpSafe, NextHoleSafe, BlockDoneSafe, NextInChunkSafe, NextChunkSafe,
     AddChunkSafe, OutOfMemorySafe
  DEF Next, Mutator, Collector, Allocator

\* The invariant of the heap: types, placement, disjointness, the freedom of
\* the bump region, and the marks ahead of the allocator.
THEOREM HeapIsSafe == Spec => []SafeHeap
BY InitSafe, NextSafe, PTL DEF Spec

\* No two reachable objects ever share a byte (find_hole and mark_address
\* together, for every geometry with a header shorter than a line).
THEOREM ObjectsNeverOverlap == Spec => []NoOverlap
<1>1. SafeHeap => NoOverlap
  BY DEF SafeHeap
<1> QED
  BY <1>1, HeapIsSafe, PTL

\* The assertion of mark_line never fails: marking stays in the line table.
THEOREM MarkingStaysInRange == Spec => []MarkInRange
<1>1. SafeHeap => MarkInRange
  BY ObjectShape, MarkingCovers DEF SafeHeap, MarkInRange
<1> QED
  BY <1>1, HeapIsSafe, PTL

-----------------------------------------------------------------------------
(* The heap implements HeapSpec. *)

LEMMA BumpGrants == SafeHeap /\ Bump => Heap!Grant
<1> SUFFICES ASSUME SafeHeap, Bump PROVE Heap!Grant
  OBVIOUS
<1> DEFINE new == [blk |-> block, at |-> cursor, size |-> req - HeaderSize]
<1>1. /\ pc = "allocate" /\ cursor + req <= limit
      /\ live' = live \cup {new} /\ req' = 0
  BY DEF Bump, Fits
<1>2. /\ block \in Blocks /\ cursor \in 0 .. BlockSize /\ limit \in 0 .. BlockSize
      /\ req \in Nat /\ req - HeaderSize \in Requests
      /\ HeaderSize \in Nat /\ BlockSize \in Nat
  BY <1>1, LayoutAssumption DEF SafeHeap, TypeOK, Placement, BlockSize
<1>3. /\ new \in Heap!Objects
      /\ req = HeaderSize + new.size
      /\ new.blk = block /\ new.at = cursor /\ End(new) = cursor + req
      /\ End(new) <= BlockSize
  <2>1. Heap!BlockSize = BlockSize
    BY DEF Heap!BlockSize, BlockSize
  <2> QED
    BY <1>1, <1>2, <2>1 DEF Heap!Objects, End
<1> HIDE DEF new
<1>4. ASSUME NEW p \in live, p.blk = new.blk
      PROVE  Apart(p.at, End(p), new.at, End(new))
  <2>1. Apart(cursor, limit, p.at, End(p))
    BY <1>1, <1>3, <1>4 DEF SafeHeap, BumpRegionFree
  <2> QED
    BY <2>1, <1>1, <1>2, <1>3, ObjectShape DEF Apart, SafeHeap
<1> QED
  BY <1>1, <1>3, <1>4
  DEF Heap!Grant, Heap!End, End, Heap!Apart, Apart, Heap!BlockSize, BlockSize

LEMMA StepsAreHeapSteps ==
  SafeHeap /\ [Next]_vars => [Heap!Next]_<<live, req>>
<1> SUFFICES ASSUME SafeHeap, [Next]_vars
             PROVE  Heap!Next \/ UNCHANGED <<live, req>>
  OBVIOUS
<1>1. CASE Request
  BY <1>1 DEF Request, Heap!Next, Heap!Ask, SafeHeap, Placement
<1>2. ASSUME NEW o \in live, Drop(o) PROVE Heap!Next
  BY <1>2 DEF Drop, Heap!Next, Heap!Drop, SafeHeap, Placement
<1>3. CASE Bump
  BY <1>3, BumpGrants DEF Heap!Next
<1>4. ASSUME NEW o \in live, MarkObject(o) PROVE UNCHANGED <<live, req>>
  BY <1>4 DEF MarkObject
<1>5. CASE StartCollect \/ Sweep \/ NextHole \/ BlockDone \/ NextInChunk
           \/ NextChunk \/ AddChunk \/ OutOfMemory \/ UNCHANGED vars
  BY <1>5 DEF StartCollect, Sweep, NextHole, BlockDone, NextInChunk,
     NextChunk, AddChunk, OutOfMemory, TakeBlock, vars
<1> QED
  BY <1>1, <1>2, <1>3, <1>4, <1>5 DEF Next, Mutator, Collector, Allocator

\* The allocator and collector implement the heap of HeapSpec: memory handed
\* out is disjoint from all that is reachable, and collections are invisible.
THEOREM ImmixImplementsHeap == Spec => ImplementsHeap
<1>1. Init => Heap!Init
  BY DEF Init, Heap!Init
<1>2. SafeHeap /\ [Next]_vars => [Heap!Next]_(Heap!vars)
  BY StepsAreHeapSteps DEF Heap!vars
<1> QED
  BY <1>1, <1>2, HeapIsSafe, PTL DEF Spec, ImplementsHeap, Heap!Spec

-----------------------------------------------------------------------------
(* How get_block walks over the blocks. *)

\* A block once handed out is behind the cursors until the next reset.
HandedIsBehind == \A b \in handed : b[1] < chunks /\ ~Ahead(b)

\* When the cursors stand at the very end, the trigger has been fired.
EndIsAnnounced ==
  pc # "mark" /\ block_cursor >= BlocksPerChunk /\ chunk_cursor + 1 >= chunks
    => gc_soon

WalkInv == SafeHeap /\ HandedIsBehind /\ EndIsAnnounced

LEMMA InitWalk == Init => WalkInv
<1> SUFFICES ASSUME Init PROVE HandedIsBehind /\ EndIsAnnounced
  BY InitSafe DEF WalkInv
<1> QED
  BY HeapAssumption DEF Init, HandedIsBehind, EndIsAnnounced, Ahead

\* One round of get_block, whichever block it looks at.
LEMMA TakeBlockWalk ==
  ASSUME WalkInv, pc = "get_block", NEW n \in Nat, NEW c \in Nat, NEW i \in Nat,
         TakeBlock(n, c, i), chunks <= n, c < n, i < BlocksPerChunk,
         c > chunk_cursor \/ (c = chunk_cursor /\ i >= block_cursor),
         c > chunk_cursor => c >= chunks \/ c + 1 <= chunks
  PROVE  /\ HandedIsBehind' /\ EndIsAnnounced'
         /\ pc' \in {"run", "allocate"} =>
              block' = <<c, i>> /\ (Ahead(<<c, i>>) \/ c >= chunks)
<1>1. /\ chunks' = n /\ chunk_cursor' = c /\ block_cursor' = i + 1
      /\ gc_soon' = (gc_soon \/ (c = n - 1 /\ BlocksPerChunk - (i + 1) = 0))
      /\ handed' \subseteq handed \cup {<<c, i>>}
      /\ pc' # pc => block' = <<c, i>>
  BY DEF TakeBlock, Reset, finder
<1>2. /\ chunks \in Nat /\ chunk_cursor \in Nat /\ block_cursor \in Nat
      /\ handed \subseteq Blocks /\ BlocksPerChunk \in Nat
  BY HeapAssumption DEF WalkInv, SafeHeap, TypeOK
<1>3. HandedIsBehind'
  <2> SUFFICES ASSUME NEW b \in handed' PROVE (b[1] < chunks /\ ~Ahead(b))'
    BY DEF HandedIsBehind
  <2>1. CASE b = <<c, i>>
    BY <1>1, <1>2, <2>1 DEF Ahead
  <2>2. CASE b \in handed
    <3>1. b[1] \in Nat /\ b[2] \in Nat /\ b[1] < chunks /\ ~Ahead(b)
      BY <1>2, <2>2, HeapAssumption DEF WalkInv, HandedIsBehind, Blocks
    <3> QED
      BY <3>1, <1>1, <1>2 DEF Ahead
  <2> QED
    BY <1>1, <2>1, <2>2
<1>4. EndIsAnnounced'
  <2>1. i + 1 >= BlocksPerChunk /\ c + 1 >= n =>
          c = n - 1 /\ BlocksPerChunk - (i + 1) = 0
    BY <1>2
  <2> QED
    BY <1>1, <2>1, Zenon DEF EndIsAnnounced
<1> QED
  BY <1>1, <1>2, <1>3, <1>4 DEF Ahead

LEMMA NextWalk ==
  ASSUME WalkInv, [Next]_vars
  PROVE  /\ WalkInv'
         /\ chunks' > chunks => gc_soon
         /\ pc = "get_block" /\ pc' \in {"run", "allocate"} =>
              block' \notin handed
<1>0. SafeHeap /\ HandedIsBehind /\ EndIsAnnounced
  BY DEF WalkInv
<1>1. SafeHeap'
  BY <1>0, NextSafe
<1>1a. WalkInv' <=> SafeHeap' /\ HandedIsBehind' /\ EndIsAnnounced'
  BY DEF WalkInv
<1>2. /\ chunks \in Nat /\ chunk_cursor \in 0 .. chunks - 1
      /\ block_cursor \in Nat /\ BlocksPerChunk \in Nat \ {0, 1}
  BY <1>0, HeapAssumption DEF SafeHeap, TypeOK
<1>3. CASE NextInChunk
  <2>1. /\ HandedIsBehind' /\ EndIsAnnounced'
        /\ pc' \in {"run", "allocate"} =>
             block' = <<chunk_cursor, block_cursor>> /\ Ahead(block')
    <3>1. /\ pc = "get_block" /\ block_cursor < BlocksPerChunk
          /\ TakeBlock(chunks, chunk_cursor, block_cursor)
      BY <1>3 DEF NextInChunk
    <3>2. /\ chunk_cursor \in Nat /\ chunks <= chunks /\ chunk_cursor < chunks
          /\ block_cursor >= block_cursor
          /\ ~(chunk_cursor > chunk_cursor) /\ ~(chunk_cursor >= chunks)
      BY <1>2
    <3> QED
      BY <3>1, <3>2, <1>2, TakeBlockWalk
  <2>2. pc = "get_block" /\ chunks' = chunks
    BY <1>3 DEF NextInChunk, TakeBlock
  <2> QED
    BY <1>1a, <1>0, <1>1, <1>2, <2>1, <2>2 DEF HandedIsBehind
<1>4. CASE NextChunk
  <2>1. /\ HandedIsBehind' /\ EndIsAnnounced'
        /\ pc' \in {"run", "allocate"} =>
             block' = <<chunk_cursor + 1, 0>> /\ Ahead(block')
    <3>1. /\ pc = "get_block" /\ chunk_cursor + 1 < chunks
          /\ TakeBlock(chunks, chunk_cursor + 1, 0)
      BY <1>4 DEF NextChunk
    <3>2. /\ chunk_cursor + 1 \in Nat /\ chunk_cursor + 1 > chunk_cursor
          /\ chunks <= chunks /\ 0 < BlocksPerChunk
          /\ (chunk_cursor + 1) + 1 <= chunks /\ ~(chunk_cursor + 1 >= chunks)
      BY <3>1, <1>2
    <3> QED
      BY <3>1, <3>2, <1>2, TakeBlockWalk
  <2>2. pc = "get_block" /\ chunks' = chunks
    BY <1>4 DEF NextChunk, TakeBlock
  <2> QED
    BY <1>1a, <1>0, <1>1, <1>2, <2>1, <2>2 DEF HandedIsBehind
<1>5. CASE AddChunk
  <2>1. /\ HandedIsBehind' /\ EndIsAnnounced'
        /\ pc' \in {"run", "allocate"} => block' = <<chunks, 1>>
    <3>1. /\ chunks + 1 \in Nat /\ chunks < chunks + 1 /\ chunks <= chunks + 1
          /\ chunks > chunk_cursor /\ 1 < BlocksPerChunk /\ chunks >= chunks
      BY <1>2
    <3> QED
      BY <3>1, <1>2, <1>5, TakeBlockWalk DEF AddChunk
  <2>2. gc_soon /\ pc = "get_block"
    BY <1>0, <1>5 DEF AddChunk, EndIsAnnounced
  <2>3. <<chunks, 1>> \notin handed
    BY <1>0, <1>2 DEF HandedIsBehind
  <2> QED
    BY <1>1a, <1>0, <1>1, <2>1, <2>2, <2>3
<1>6. CASE StartCollect \/ Sweep
  <2>1. HandedIsBehind'
    BY <1>0, <1>6 DEF StartCollect, Sweep, HandedIsBehind, Ahead, cursors
  <2>2. EndIsAnnounced'
    BY <1>0, <1>2, <1>6 DEF StartCollect, Sweep, EndIsAnnounced
  <2>3. chunks' = chunks /\ pc # "get_block"
    BY <1>6 DEF StartCollect, Sweep, cursors
  <2> QED
    BY <1>1a, <1>0, <1>1, <1>2, <2>1, <2>2, <2>3
<1>7. CASE UNCHANGED <<cursors, gc_soon, handed>>
           /\ (pc' = "mark" <=> pc = "mark")
           /\ (pc = "get_block" => pc' \notin {"run", "allocate"})
  <2>1. HandedIsBehind' /\ EndIsAnnounced'
    BY <1>0, <1>7 DEF HandedIsBehind, EndIsAnnounced, Ahead, cursors
  <2> QED
    BY <1>1a, <1>0, <1>1, <1>2, <1>7, <2>1 DEF cursors
<1>8. ASSUME NEW o \in live, Drop(o) \/ MarkObject(o)
      PROVE  /\ UNCHANGED <<cursors, gc_soon, handed>>
             /\ pc' = "mark" <=> pc = "mark"
             /\ pc # "get_block"
  BY <1>8 DEF Drop, MarkObject
<1>9. ASSUME Request \/ Bump \/ NextHole \/ BlockDone \/ OutOfMemory
             \/ UNCHANGED vars
      PROVE  /\ UNCHANGED <<cursors, gc_soon, handed>>
             /\ pc' = "mark" <=> pc = "mark"
             /\ pc = "get_block" => pc' \notin {"run", "allocate"}
  BY <1>9 DEF Request, Bump, NextHole, BlockDone, OutOfMemory, vars
<1> QED
  BY <1>1a, <1>3, <1>4, <1>5, <1>6, <1>7, <1>8, <1>9
  DEF Next, Mutator, Collector, Allocator

\* The heap never grows before the trigger has asked for a collection.
THEOREM GrowthFollowsTrigger == Spec => GrowthIsAnnounced
<1>1. WalkInv /\ [Next]_vars =>
        WalkInv' /\ [chunks' > chunks => gc_soon]_vars
  BY NextWalk
<1> QED
  BY <1>1, InitWalk, PTL DEF Spec, GrowthIsAnnounced

\* Between two resets get_block never hands a block out twice.
THEOREM BlocksAreHandedOnce == Spec => HandedOnce
<1>1. WalkInv /\ [Next]_vars =>
        WalkInv' /\ [pc = "get_block" /\ pc' \in {"run", "allocate"} =>
                     block' \notin handed]_vars
  BY NextWalk
<1> QED
  BY <1>1, InitWalk, PTL DEF Spec, HandedOnce
-----------------------------------------------------------------------------
(* What a collection frees. *)

\* While the collector marks, a block without a reachable object has no line
\* in use but the reserved one: marks of the last collection are gone.
EmptyIsBlank ==
  pc = "mark" =>
    \A b \in Blocks : (\A o \in live : o.blk # b) => lines[b] = {0}

MarkInv == SafeHeap /\ EmptyIsBlank

LEMMA NextBlank == MarkInv /\ [Next]_vars => EmptyIsBlank'
<1> SUFFICES ASSUME MarkInv, [Next]_vars PROVE EmptyIsBlank'
  OBVIOUS
<1>1. CASE StartCollect
  BY <1>1 DEF StartCollect, EmptyIsBlank
<1>2. ASSUME NEW o \in live, MarkObject(o) PROVE EmptyIsBlank'
  <2>1. /\ pc = "mark" /\ live' = live
        /\ lines' = [lines EXCEPT ![o.blk] = @ \cup MarkedLines(Body(o), o.size)]
    BY <1>2 DEF MarkObject
  <2>2. lines \in [Blocks -> SUBSET LineNos]
    BY DEF MarkInv, SafeHeap, TypeOK
  <2>3. SUFFICES ASSUME NEW b \in Blocks, \A p \in live : p.blk # b
                 PROVE  lines'[b] = {0}
    BY <2>1 DEF EmptyIsBlank
  <2>4. lines'[b] = lines[b]
    BY <2>1, <2>2, <2>3
  <2> QED
    BY <2>1, <2>3, <2>4 DEF MarkInv, EmptyIsBlank
<1>3. CASE UNCHANGED vars
  BY <1>3 DEF MarkInv, EmptyIsBlank, vars, tables
<1>4. ASSUME NEW o \in live, Drop(o) PROVE EmptyIsBlank'
  BY <1>4 DEF Drop, EmptyIsBlank
<1>5. ASSUME NEW n, NEW c, NEW i, pc = "get_block", TakeBlock(n, c, i)
      PROVE  EmptyIsBlank'
  BY <1>5 DEF TakeBlock, Reset, FindHole, finder, EmptyIsBlank
<1>6. CASE NextInChunk \/ NextChunk \/ AddChunk
  BY <1>5, <1>6 DEF NextInChunk, NextChunk, AddChunk
<1>7. CASE Request \/ Sweep \/ Bump \/ NextHole \/ BlockDone \/ OutOfMemory
  BY <1>7 DEF Request, Sweep, Bump, NextHole, BlockDone, OutOfMemory,
     EmptyIsBlank
<1> QED
  BY <1>1, <1>2, <1>3, <1>4, <1>6, <1>7
  DEF Next, Mutator, Collector, Allocator

\* Once the trace is complete, update_stats calls a block free just when no
\* reachable object is in it: the line of a body is never the reserved one.
LEMMA SweepFrees ==
  ASSUME MarkInv, Sweep, NEW b \in Blocks
  PROVE  status'[b] = "free" <=> \A o \in live : o.blk # b
<1>1. /\ pc = "mark" /\ to_mark = {}
      /\ status'[b] = StatusOf(lines[b])
  BY DEF Sweep
<1>2. lines[b] \subseteq LineNos /\ 0 \in lines[b]
  BY DEF MarkInv, SafeHeap, TypeOK, Placement
<1>3. CASE \A o \in live : o.blk # b
  <2>1. lines[b] = {0}
    BY <1>1, <1>3 DEF MarkInv, EmptyIsBlank
  <2>2. Cardinality(lines[b]) = 1
    BY <2>1, FS_Singleton
  <2> QED
    BY <1>1, <1>3, <2>2 DEF StatusOf
<1>4. ASSUME NEW o \in live, o.blk = b
      PROVE  status'[b] # "free"
  <2> DEFINE l == LineOf(Body(o))
  <2>1. /\ o.at \in Nat /\ LineSize <= o.at /\ o.size \in Nat \ {0}
        /\ Body(o) \in Nat /\ Body(o) + o.size <= BlockSize
    BY ObjectShape DEF MarkInv, SafeHeap
  <2>2. l \in Nat /\ l > 0
    BY <2>1, HeaderStart DEF Body
  <2>3. l \in MarkedLines(Body(o), o.size)
    <3>1. /\ l .. LineOf(Body(o) + o.size - 1) \subseteq MarkedLines(Body(o), o.size)
          /\ l <= LineOf(Body(o) + o.size - 1)
      BY <2>1, MarkingCovers
    <3>2. Body(o) + o.size - 1 \in Nat
      BY <2>1
    <3>3. LineOf(Body(o) + o.size - 1) \in Nat
      BY <3>2, LineOfBounds
    <3> HIDE DEF l
    <3> QED
      BY <3>1, <3>3, <2>2
  <2>4. Settled(o)
    BY <1>1 DEF MarkInv, SafeHeap, AheadIsSettled
  <2>5. l \in lines[b]
    BY <2>3, <2>4, <1>4 DEF Settled
  <2> HIDE DEF l
  <2>6. IsFiniteSet(lines[b])
    <3>1. Lines - 1 \in Int
      BY LayoutAssumption
    <3>2. IsFiniteSet(LineNos)
      BY <3>1, FS_Interval DEF LineNos
    <3> QED
      BY <3>2, <1>2, FS_Subset
  <2>7. Cardinality({0, l}) = 2
    <3>1. IsFiniteSet({0}) /\ Cardinality({0}) = 1
      BY FS_Singleton
    <3>2. Cardinality({0} \cup {l}) = Cardinality({0}) + 1
      <4>1. l \notin {0}
        BY <2>2
      <4>2. Cardinality({0} \cup {l}) =
              IF l \in {0} THEN Cardinality({0}) ELSE Cardinality({0}) + 1
        BY <3>1, FS_AddElement, Zenon
      <4> QED
        BY <4>1, <4>2
    <3>3. {0} \cup {l} = {0, l}
      OBVIOUS
    <3> QED
      BY <3>1, <3>2, <3>3
  <2>8. Cardinality({0, l}) <= Cardinality(lines[b])
    <3>1. {0, l} \subseteq lines[b]
      BY <1>2, <2>5
    <3> QED
      BY <3>1, <2>6, FS_Subset
  <2>9. Cardinality(lines[b]) \in Nat
    BY <2>6, FS_CardinalityType
  <2>10. ~(Cardinality(lines[b]) <= 1)
    BY <2>7, <2>8, <2>9
  <2>11. StatusOf(lines[b]) # "free"
    BY <2>9, <2>10 DEF StatusOf
  <2> QED
    BY <1>1, <2>11
<1> QED
  BY <1>3, <1>4

\* A collection frees the blocks without a reachable object, those alone and
\* all of them (mark_line and update_stats, immix.hpp:377-399).
THEOREM EmptyBlocksComeBack == Spec => GarbageIsReclaimed
<1>1. Init => MarkInv
  BY InitSafe DEF Init, MarkInv, EmptyIsBlank
<1>2. MarkInv /\ [Next]_vars => MarkInv'
  <2>1. MarkInv /\ [Next]_vars => SafeHeap'
    BY NextSafe DEF MarkInv
  <2>2. SafeHeap' /\ EmptyIsBlank' => MarkInv'
    BY DEF MarkInv
  <2> QED
    BY <2>1, <2>2, NextBlank
<1>3. MarkInv /\ [Next]_vars =>
        [pc = "mark" /\ pc' = "get_block" =>
           \A b \in Blocks :
             status'[b] = "free" <=> \A o \in live : o.blk # b]_vars
  <2> SUFFICES ASSUME MarkInv, [Next]_vars, pc = "mark", pc' = "get_block",
                      NEW b \in Blocks
               PROVE  status'[b] = "free" <=> \A o \in live : o.blk # b
    OBVIOUS
  <2>1. Sweep
    BY DEF Next, Mutator, Collector, Allocator, Request, Drop, StartCollect,
       MarkObject, Bump, NextHole, BlockDone, NextInChunk, NextChunk,
       AddChunk, OutOfMemory, vars
  <2> QED
    BY <2>1, SweepFrees
<1> QED
  BY <1>1, <1>2, <1>3, PTL DEF Spec, GarbageIsReclaimed
-----------------------------------------------------------------------------
(* What a request finds in the chunk it had added. *)

\* A block of a chunk that is not there yet is as its constructor will leave it.
UntouchedBehind ==
  \A b \in Blocks : b[1] >= chunks => lines[b] = {0} /\ status[b] = "free"

GrowthInv == SafeHeap /\ UntouchedBehind

LEMMA NextUntouched == GrowthInv /\ [Next]_vars => UntouchedBehind'
<1> SUFFICES ASSUME GrowthInv, [Next]_vars PROVE UntouchedBehind'
  OBVIOUS
<1>1. chunks \in Nat /\ (\A b \in Blocks : b[1] \in Nat)
  BY HeapAssumption DEF GrowthInv, SafeHeap, TypeOK, Blocks
<1>2. ASSUME chunks' >= chunks, chunks' \in Nat, UNCHANGED <<lines, status>>
      PROVE  UntouchedBehind'
  BY <1>1, <1>2 DEF GrowthInv, UntouchedBehind
<1>3. CASE StartCollect
  BY <1>3 DEF StartCollect, GrowthInv, UntouchedBehind, cursors
<1>4. CASE Sweep
  <2>1. chunks' = chunks /\ lines' = lines
        /\ status' = [b \in Blocks |-> StatusOf(lines[b])]
    BY <1>4 DEF Sweep
  <2>2. StatusOf({0}) = "free"
    <3>1. Cardinality({0}) = 1
      BY FS_Singleton
    <3> QED
      BY <3>1 DEF StatusOf
  <2> QED
    BY <2>1, <2>2 DEF GrowthInv, UntouchedBehind
<1>5. ASSUME NEW o \in live, MarkObject(o) PROVE UntouchedBehind'
  <2>1. /\ chunks' = chunks /\ status' = status
        /\ lines' = [lines EXCEPT ![o.blk] = @ \cup MarkedLines(Body(o), o.size)]
    BY <1>5 DEF MarkObject, cursors
  <2>2. lines \in [Blocks -> SUBSET LineNos] /\ o.blk[1] < chunks
    BY DEF GrowthInv, SafeHeap, TypeOK, Placement
  <2>3. SUFFICES ASSUME NEW b \in Blocks, b[1] >= chunks
                 PROVE  lines'[b] = {0} /\ status'[b] = "free"
    BY <2>1 DEF UntouchedBehind
  <2>4. b # o.blk
    BY <1>1, <2>2, <2>3
  <2> QED
    BY <2>1, <2>2, <2>3, <2>4 DEF GrowthInv, UntouchedBehind
<1>6. ASSUME NEW n \in Nat, NEW c, NEW i, n >= chunks, TakeBlock(n, c, i)
      PROVE  UntouchedBehind'
  BY <1>2, <1>6 DEF TakeBlock, tables
<1>7. CASE NextInChunk \/ NextChunk \/ AddChunk
  BY <1>1, <1>6, <1>7 DEF NextInChunk, NextChunk, AddChunk
<1>8. ASSUME NEW o \in live, Drop(o) PROVE UntouchedBehind'
  BY <1>1, <1>2, <1>8 DEF Drop, cursors, tables
<1>9. CASE Request \/ Bump \/ NextHole \/ BlockDone \/ OutOfMemory \/ UNCHANGED vars
  BY <1>1, <1>2, <1>9
  DEF Request, Bump, NextHole, BlockDone, OutOfMemory, vars, cursors, tables
<1> QED
  BY <1>3, <1>4, <1>5, <1>7, <1>8, <1>9 DEF Next, Mutator, Collector, Allocator

\* The one hole of a block in which only line 0 is in use.
LEMMA WholeBlock ==
  ASSUME NEW h \in LineNos, NEW e \in 1 .. Lines, IsHole({0}, 0, h, e)
  PROVE  h = 1 /\ e = Lines
<1>1. h # 0
  BY DEF IsHole, LineNos
<1>2. h \in Int /\ (h > 1 => 1 \in 0 .. h - 1)
  BY DEF LineNos
<1>3. h = 1
  BY <1>1, <1>2 DEF IsHole, LineNos
<1> QED
  BY <1>3, LayoutAssumption DEF IsHole

\* When an empty block has room for every request, the request that had a chunk
\* added is met in it, and so adds no other (immix.hpp:704-716, 968-985).
THEOREM NewChunksHaveRoom ==
  ASSUME \A n \in Requests : LineStart(1) + n + HeaderSize <= HoleLimit(Lines)
  PROVE  Spec => GrowthIsMeasured
<1>1. Init => GrowthInv
  BY InitSafe DEF Init, GrowthInv, UntouchedBehind
<1>2. GrowthInv /\ [Next]_vars => GrowthInv'
  BY NextSafe, NextUntouched DEF GrowthInv
<1>3. GrowthInv /\ [Next]_vars =>
        [chunks' > chunks =>
           block'[1] = chunks /\ pc' \in {"run", "allocate"} /\ cursor' + req <= limit']_vars
  <2> SUFFICES ASSUME GrowthInv, Next, chunks' > chunks
               PROVE  /\ block'[1] = chunks /\ pc' \in {"run", "allocate"}
                      /\ cursor' + req <= limit'
    OBVIOUS
  <2>1. chunks \in Nat
    BY DEF GrowthInv, SafeHeap, TypeOK
  <2>2. AddChunk
    BY <2>1 DEF Next, Mutator, Collector, Allocator, Request, Drop, StartCollect, MarkObject,
       Sweep, Bump, NextHole, BlockDone, NextInChunk, NextChunk, TakeBlock, OutOfMemory, cursors
  <2> DEFINE b == <<chunks, 1>>
  <2>3. b \in Blocks /\ lines[b] = {0} /\ status[b] = "free"
    <3>1. b \in Blocks
      BY <2>1, <2>2, HeapAssumption DEF AddChunk, Blocks
    <3> QED
      BY <2>1, <3>1 DEF GrowthInv, UntouchedBehind
  <2>4. Reset(b)
    BY <2>2, <2>3 DEF AddChunk, TakeBlock, Usable
  <2>5. ~NoHole(lines[b], 0)
    <3>1. 1 \in 0 .. Lines - 1
      BY LayoutAssumption
    <3> QED
      BY <2>3, <3>1 DEF NoHole
  <2>6. /\ block' = b /\ FindHole(b, 0)
        /\ pc' = IF req = 0 THEN "run" ELSE "allocate"
    BY <2>4, <2>5 DEF Reset
  <2>7. cursor' = LineStart(1) /\ limit' = HoleLimit(Lines)
    BY <2>3, <2>6, WholeBlock DEF FindHole
  <2>8. LineStart(1) <= HoleLimit(Lines)
    <3>1. LineStart(1) <= LineStart(Lines - 1)
      BY LineStartMono, LayoutAssumption
    <3>2. LineStart(1) \in Int /\ LineStart(Lines - 1) \in Int
      BY LineStartInt, LayoutAssumption
    <3> QED
      BY <3>1, <3>2 DEF HoleLimit
  <2>9. LineStart(1) + req <= HoleLimit(Lines)
    <3>1. CASE req = 0
      BY <2>8, <3>1, LineStartInt
    <3>2. CASE req # 0
      <4>1. req - HeaderSize \in Requests /\ req \in Nat
        BY <3>2 DEF GrowthInv, SafeHeap, Placement, TypeOK
      <4>2. LineStart(1) + (req - HeaderSize) + HeaderSize <= HoleLimit(Lines)
        BY <4>1
      <4>3. LineStart(1) \in Int /\ HeaderSize \in Nat
        BY LineStartInt, LayoutAssumption
      <4> QED
        BY <4>1, <4>2, <4>3
    <3> QED
      BY <3>1, <3>2
  <2> QED
    BY <2>6, <2>7, <2>9
<1> QED
  BY <1>1, <1>2, <1>3, GrowthFollowsTrigger, PTL DEF Spec, GrowthIsMeasured, GrowthIsAnnounced
=============================================================================
