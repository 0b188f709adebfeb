---------------------------- MODULE ImmixLayout ----------------------------
(***************************************************************************)
(* The geometry of one Immix block (vm/util/immix.hpp): a block of         *)
(* Lines * LineSize bytes, whose line table says which lines are in use.   *)
(* Addresses are byte offsets from the start of the block.                 *)
(*                                                                         *)
(* An object is a record [blk, at, size]: at is the address of its GCInfo  *)
(* header (vm/gc.cpp), HeaderSize bytes long, and size the bytes of the    *)
(* body behind it.  The rest of the VM, and the marking of lines, only     *)
(* know the address of the body.                                           *)
(***************************************************************************)
EXTENDS Integers, FiniteSets

CONSTANTS
  LineSize,     \* bytes in a line (cLineSize = 128)
  Lines,        \* lines in a block (cLineTableSize = 256)
  HeaderSize    \* bytes of a GCInfo header (24 on a 64-bit build)

\* The header is shorter than a line.  Line 0 of a block is reserved, and a
\* block has at least two lines besides.
ASSUME LayoutAssumption ==
  /\ LineSize \in Nat
  /\ Lines \in Nat /\ Lines > 2
  /\ HeaderSize \in Nat /\ 0 < HeaderSize /\ HeaderSize < LineSize

LineNos == 0 .. Lines - 1
BlockSize == Lines * LineSize
cMaxObjectSize == BlockSize - LineSize

LineStart(l) == l * LineSize
LineOf(a) == a \div LineSize

Body(o) == o.at + HeaderSize
End(o) == o.at + HeaderSize + o.size      \* one past the object's last byte

\* The byte ranges [a, b) and [c, d) have no byte in common.
Apart(a, b, c, d) == b <= c \/ d <= a

-----------------------------------------------------------------------------
\* Faulty variants of the definitions below, for the mutants of the runs.
MarkedLinesFirstOnly(a, s) == {LineOf(a)}
MarkedLinesUnguarded(a, s) ==
  LET line == LineOf(a)
  IN  IF s <= LineSize THEN {line, line + 1} ELSE line .. LineOf(a + s - 1)
HoleLimitAtLineEnd(e) == LineStart(e)
StatusOfTwoLines(used) ==
  CASE Cardinality(used) <= 2 -> "free"
    [] Cardinality(used) > 2 /\ used # LineNos -> "recyclable"
    [] OTHER -> "unavailable"
-----------------------------------------------------------------------------
\* Block::mark_address: the lines marked for a body at address a of s bytes.
\* A body of at most a line marks its line and the next without looking.
MarkedLines(a, s) ==
  LET line == LineOf(a)
      additional_lines == ((a % LineSize) + s - 1) \div LineSize
  IN  IF s <= LineSize /\ line + 1 < Lines
        THEN {line, line + 1}
        ELSE line .. line + additional_lines

\* HoleFinder::find_hole, started at line from, finds the hole h .. e-1.
IsHole(used, from, h, e) ==
  /\ from <= h /\ h < e /\ e <= Lines
  /\ \A l \in from .. h - 1 : l \in used
  /\ \A l \in h .. e - 1 : l \notin used
  /\ e < Lines => e \in used

\* find_hole returns false.
NoHole(used, from) == \A l \in from .. Lines - 1 : l \in used

\* The limit find_hole sets for a hole that ends before line e.
HoleLimit(e) == LineStart(e - 1) + 1

\* Block::update_stats.
StatusOf(used) ==
  CASE Cardinality(used) <= 1 -> "free"
    [] Cardinality(used) > 1 /\ used # LineNos -> "recyclable"
    [] OTHER -> "unavailable"
=============================================================================
