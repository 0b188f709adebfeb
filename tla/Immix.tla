------------------------------- MODULE Immix -------------------------------
(***************************************************************************)
(* The mark-region heap of the VM: BlockAllocator, HoleFinder,             *)
(* ExpandingAllocator and GC of vm/util/immix.hpp, driven by GC::allocate, *)
(* GCImpl::collect (vm/gc.cpp) and State::check (vm/state.cpp).            *)
(*                                                                         *)
(* live is the set of objects the program reaches and the tracer marks;    *)
(* which of the real VM's objects the tracer does visit is the business of *)
(* the describer, GCImpl::walk_pointers, not of this module.               *)
(***************************************************************************)
EXTENDS ImmixLayout

CONSTANTS
  BlocksPerChunk,   \* cBlocksPerChunk = 320
  MaxChunks,        \* bound: chunks mmap grants before it fails
  Requests,         \* body sizes passed to GC::allocate
  MaxLive,          \* bound: objects reachable at a time
  MaxSeen           \* bound: marks counted in a block that re-marks may reach

\* add_chunk starts at block 1, so a chunk has one.  No object is empty: an
\* empty array is allocated by the VM but never marked.
ASSUME HeapAssumption ==
  /\ BlocksPerChunk \in Nat /\ BlocksPerChunk > 1
  /\ MaxChunks \in Nat /\ MaxChunks > 0
  /\ Requests \subseteq Nat \ {0}
  /\ MaxLive \in Nat /\ MaxSeen \in Nat

Blocks == (0 .. MaxChunks - 1) \X (0 .. BlocksPerChunk - 1)
Objects == [blk : Blocks, at : 0 .. BlockSize, size : Requests]

VARIABLES
  pc,               \* what the single thread of the VM is executing
  req,              \* allocate's argument (0: no allocation is pending)
  live,             \* the reachable objects
  to_mark,          \* live objects the trace has not come to yet
  chunks,           \* chunks_.size()
  chunk_cursor, block_cursor,
  status, lines, objects,                  \* per block
  block, cursor, limit, hole_start_line,   \* the allocator's HoleFinder
  gc_soon,
  handed            \* history: blocks get_block returned since the last reset

finder == <<block, cursor, limit, hole_start_line>>
cursors == <<chunks, chunk_cursor, block_cursor>>
tables == <<status, lines, objects>>
vars == <<pc, req, live, to_mark, cursors, tables, finder, gc_soon, handed>>

-----------------------------------------------------------------------------
\* The constructors: GCImpl() builds an ExpandingAllocator, whose
\* get_new_block makes get_block add the first chunk and return its block 0.
Init ==
  /\ pc = "run" /\ req = 0
  /\ live = {} /\ to_mark = {}
  /\ chunks = 1 /\ chunk_cursor = 0 /\ block_cursor = 1
  /\ status = [b \in Blocks |-> "free"]
  /\ lines = [b \in Blocks |-> {0}]
  /\ objects = [b \in Blocks |-> 0]
  /\ block = <<0, 0>>
  /\ cursor = LineStart(1) /\ limit = HoleLimit(Lines)
  /\ hole_start_line = Lines
  /\ gc_soon = FALSE
  /\ handed = {<<0, 0>>}

\* Faulty: the search for the next hole starts at the hole just found.
FindHoleInPlace(b, from) ==
  \E h \in LineNos, e \in 1 .. Lines :
    /\ IsHole(lines[b], from, h, e)
    /\ cursor' = LineStart(h)
    /\ limit' = HoleLimit(e)
    /\ hole_start_line' = h

\* HoleFinder::find_hole when there is a hole to be found in block b.
FindHole(b, from) ==
  \E h \in LineNos, e \in 1 .. Lines :
    /\ IsHole(lines[b], from, h, e)
    /\ cursor' = LineStart(h)
    /\ limit' = HoleLimit(e)
    /\ hole_start_line' = e

-----------------------------------------------------------------------------
(* The program. *)

\* GC::allocate: the header is added to the size asked for.
Request ==
  /\ pc = "run"
  /\ Cardinality(live) < MaxLive
  /\ req' \in {n + HeaderSize : n \in Requests}
  /\ pc' = "allocate"
 
  /\ UNCHANGED <<live, to_mark, cursors, tables, finder, gc_soon, handed>>

\* The program loses its last reference to o.
Drop(o) ==
  /\ pc = "run"
  /\ live' = live \ {o}
  /\ UNCHANGED <<pc, req, to_mark, cursors, tables, finder, gc_soon, handed>>

-----------------------------------------------------------------------------
(* ExpandingAllocator::allocate. *)

Fits == cursor + req <= limit

\* Faulty: the cursor moves on by the body alone.
BumpBodyOnly ==
  /\ pc = "allocate" /\ Fits
  /\ live' = live \cup {[blk |-> block, at |-> cursor, size |-> req - HeaderSize]}
  /\ cursor' = cursor + req - HeaderSize
  /\ req' = 0
  /\ pc' = "run"
  /\ UNCHANGED <<to_mark, cursors, tables, block, limit, hole_start_line,
                 gc_soon, handed>>

\* HoleFinder::bump, and the new header written by GC::allocate.
Bump ==
  /\ pc = "allocate" /\ Fits
  /\ live' = live \cup {[blk |-> block, at |-> cursor, size |-> req - HeaderSize]}
  /\ cursor' = cursor + req
  /\ req' = 0
  /\ pc' = "run"
  /\ UNCHANGED <<to_mark, cursors, tables, block, limit, hole_start_line,
                 gc_soon, handed>>

NextHole ==
  /\ pc = "allocate" /\ ~Fits
  /\ FindHole(block, hole_start_line)
  /\ UNCHANGED <<pc, req, live, to_mark, cursors, tables, block, gc_soon,
                 handed>>

\* find_hole fails: get_new_block is called.
BlockDone ==
  /\ pc = "allocate" /\ ~Fits
  /\ NoHole(lines[block], hole_start_line)
  /\ hole_start_line' = Lines
  /\ pc' = "get_block"
  /\ UNCHANGED <<req, live, to_mark, cursors, tables, block, cursor, limit,
                 gc_soon, handed>>

-----------------------------------------------------------------------------
(* ExpandingAllocator::get_new_block, one step per round of the loop in    *)
(* BlockAllocator::get_block.                                              *)

\* Faulty: a block that holds nothing has no hole to be recycled.
UsableHoles(b) == status[b] = "recyclable"
Usable(b) == status[b] \in {"free", "recyclable"}

\* HoleFinder::reset on a usable block; get_new_block goes on to the next
\* block if it has no hole.
Reset(b) ==
  /\ block' = b
  /\ IF NoHole(lines[b], 0)
       THEN hole_start_line' = Lines /\ UNCHANGED <<cursor, limit, pc>>
       ELSE FindHole(b, 0) /\ pc' = IF req = 0 THEN "run" ELSE "allocate"

\* The second half of the loop: block i of chunk c, of n chunks, is looked at.
TakeBlock(n, c, i) ==
  /\ chunks' = n /\ chunk_cursor' = c /\ block_cursor' = i + 1
  /\ gc_soon' = (gc_soon \/ (c = n - 1 /\ BlocksPerChunk - (i + 1) = 0))
  /\ IF Usable(<<c, i>>)
       THEN Reset(<<c, i>>) /\ handed' = handed \cup {<<c, i>>}
       ELSE UNCHANGED <<finder, pc, handed>>
  /\ UNCHANGED <<req, live, to_mark, tables>>

NextInChunk ==
  /\ pc = "get_block"
  /\ block_cursor < BlocksPerChunk
  /\ TakeBlock(chunks, chunk_cursor, block_cursor)

\* Faulty: the chunk cursor is not advanced.
NextChunkInPlace ==
  /\ pc = "get_block"
  /\ block_cursor >= BlocksPerChunk /\ chunk_cursor + 1 < chunks
  /\ TakeBlock(chunks, chunk_cursor, 0)

NextChunk ==
  /\ pc = "get_block"
  /\ block_cursor >= BlocksPerChunk /\ chunk_cursor + 1 < chunks
  /\ TakeBlock(chunks, chunk_cursor + 1, 0)

\* BlockAllocator::add_chunk leaves block_cursor at 1.
AddChunk ==
  /\ pc = "get_block"
  /\ block_cursor >= BlocksPerChunk /\ chunk_cursor + 1 >= chunks
  /\ chunks < MaxChunks
  /\ TakeBlock(chunks + 1, chunks, 1)

\* mmap fails: valloc aborts the process.
OutOfMemory ==
  /\ pc = "get_block"
  /\ block_cursor >= BlocksPerChunk /\ chunk_cursor + 1 >= chunks
  /\ chunks = MaxChunks
  /\ pc' = "aborted"
  /\ UNCHANGED <<req, live, to_mark, cursors, tables, finder, gc_soon, handed>>

-----------------------------------------------------------------------------
(* GCImpl::collect, called by State::check at a backward jump. *)

StartCollect ==
  /\ pc = "run" /\ gc_soon
  /\ gc_soon' = FALSE
  /\ lines' = [b \in Blocks |-> {0}]
  /\ objects' = [b \in Blocks |-> 0]
  /\ to_mark' = live
  /\ pc' = "mark"
  /\ UNCHANGED <<req, live, cursors, status, finder, handed>>

\* GC::mark_object is called for every reference, so an object already
\* marked goes through Block::mark_address again.
MarkObject(o) ==
  /\ pc = "mark"
  /\ o \in to_mark \/ objects[o.blk] < MaxSeen
  /\ lines' = [lines EXCEPT ![o.blk] = @ \cup MarkedLines(Body(o), o.size)]
  /\ objects' = [objects EXCEPT ![o.blk] = @ + 1]
  /\ to_mark' = to_mark \ {o}
  /\ UNCHANGED <<pc, req, live, cursors, status, finder, gc_soon, handed>>

\* Faulty: the cursors stay where they are.
SweepInPlace ==
  /\ pc = "mark" /\ to_mark = {}
  /\ status' = [b \in Blocks |-> StatusOf(lines[b])]
  /\ handed' = {}
  /\ pc' = "get_block"
  /\ UNCHANGED <<req, live, to_mark, cursors, lines, objects, finder, gc_soon>>

\* GC::sweep_blocks and BlockAllocator::reset; get_new_block follows.
Sweep ==
  /\ pc = "mark" /\ to_mark = {}
  /\ status' = [b \in Blocks |-> StatusOf(lines[b])]
  /\ chunk_cursor' = 0 /\ block_cursor' = 0
  /\ handed' = {}
  /\ pc' = "get_block"
  /\ UNCHANGED <<req, live, to_mark, chunks, lines, objects, finder, gc_soon>>

-----------------------------------------------------------------------------
Mutator == Request \/ (\E o \in live : Drop(o)) \/ StartCollect

Collector == (\E o \in live : MarkObject(o)) \/ Sweep

Allocator ==
  Bump \/ NextHole \/ BlockDone \/ NextInChunk \/ NextChunk \/ AddChunk
  \/ OutOfMemory

Next == Mutator \/ Collector \/ Allocator

Spec == Init /\ [][Next]_vars

\* The VM has one thread: once in the allocator or the collector it goes on.
Fairness == WF_vars(Collector) /\ WF_vars(Allocator)
FairSpec == Spec /\ Fairness
=============================================================================
