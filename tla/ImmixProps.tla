----------------------------- MODULE ImmixProps -----------------------------
(***************************************************************************)
(* What the heap of module Immix guarantees.                               *)
(***************************************************************************)
EXTENDS Immix

\* Every variable has its type: the cursors stay inside the chunks that
\* exist (size_t indexes that get_block, immix.hpp:685-710, never checks).
TypeOK ==
  /\ pc \in {"run", "allocate", "get_block", "mark", "aborted"}
  /\ req \in Nat
  /\ live \subseteq Objects /\ to_mark \subseteq live
  /\ chunks \in 1 .. MaxChunks
  /\ chunk_cursor \in 0 .. chunks - 1
  /\ block_cursor \in 0 .. BlocksPerChunk
  /\ status \in [Blocks -> {"free", "recyclable", "unavailable"}]
  /\ lines \in [Blocks -> SUBSET LineNos]
  /\ objects \in [Blocks -> Nat]
  /\ block \in Blocks
  /\ cursor \in 0 .. BlockSize /\ limit \in 0 .. BlockSize
  /\ hole_start_line \in 0 .. Lines
  /\ gc_soon \in BOOLEAN
  /\ handed \subseteq Blocks

-----------------------------------------------------------------------------
\* No two reachable objects share a byte, headers included, however many
\* collections, recycled holes and reallocations lie between them.  Lines are
\* marked for the body only and the limit of a hole is not its end
\* (find_hole, immix.hpp:835-851): the two together keep headers safe.
NoOverlap ==
  \A o, p \in live :
    o # p /\ o.blk = p.blk => Apart(o.at, End(o), p.at, End(p))

\* The bytes the allocator may still bump through hold no reachable object,
\* so bump (immix.hpp:859-863) needs no check of its own.
BumpRegionFree ==
  pc \in {"run", "allocate"} =>
    \A o \in live : o.blk = block => Apart(cursor, limit, o.at, End(o))

\* Blocks get_block will still come to before the next reset.
Ahead(b) ==
  /\ b[1] < chunks
  /\ \/ b[1] > chunk_cursor
     \/ b[1] = chunk_cursor /\ b[2] >= block_cursor

\* The line table protects object o: no hole reaches its body.
Settled(o) == MarkedLines(Body(o), o.size) \subseteq lines[o.blk]

\* The lines of every object that get_block or find_hole could come to are
\* marked: an object born since the last collection is behind the cursors.
AheadIsSettled ==
  /\ pc \in {"run", "allocate", "get_block"} =>
       \A o \in live : Ahead(o.blk) => Settled(o)
  /\ pc \in {"run", "allocate"} =>
       \A o \in live : o.blk = block => Settled(o) \/ End(o) <= cursor
  /\ pc = "mark" => \A o \in live \ to_mark : Settled(o)

\* Where the allocator stands: its block is behind the cursors, its position
\* behind the line find_hole goes on from, and every object between line 0
\* and the last byte a hole can offer.
Placement ==
  /\ pc \in {"run", "allocate"} => /\ block[1] = chunk_cursor
                                   /\ block[2] < block_cursor
                                   /\ LineSize <= cursor /\ cursor <= limit
                                   /\ 0 < hole_start_line
                                   /\ limit = HoleLimit(hole_start_line)
  /\ pc # "mark" => to_mark = {}
  /\ pc = "allocate" => req # 0
  /\ pc \in {"run", "mark"} => req = 0
  /\ req # 0 => req - HeaderSize \in Requests
  /\ \A o \in live : /\ LineSize <= o.at
                     /\ End(o) <= HoleLimit(Lines)
                     /\ o.blk[1] < chunks
  /\ \A b \in Blocks : 0 \in lines[b]

\* The inductive invariant behind NoOverlap.
SafeHeap ==
  TypeOK /\ Placement /\ NoOverlap /\ BumpRegionFree /\ AheadIsSettled

\* mark_address never marks a line past the end of the line table: the
\* assertion in mark_line (immix.hpp:278-281) cannot fail for an object the
\* allocator placed, the conservative second line included.
MarkInRange ==
  \A o \in live : MarkedLines(Body(o), o.size) \subseteq LineNos

-----------------------------------------------------------------------------
\* Garbage collection and block recycling cannot be told from a heap that
\* never reuses memory an object still occupies: every behaviour of the
\* allocator is one of HeapSpec, where collections are invisible.
Heap == INSTANCE HeapSpec
ImplementsHeap == Heap!Spec

\* A collection frees every block without a reachable object and no other
\* (update_stats, immix.hpp:377-399).
GarbageIsReclaimed ==
  [][pc = "mark" /\ pc' = "get_block" =>
       \A b \in Blocks :
         status'[b] = "free" <=> \A o \in live : o.blk # b]_vars

\* Between two resets no block is handed to the allocator twice: the holes
\* it has already bumped through are still free in the line table.
HandedOnce ==
  [][pc = "get_block" /\ pc' \in {"run", "allocate"} => block' \notin handed]_vars

\* The heap grows only after the VM has been told that a collection is due
\* (the blocks_left trigger, immix.hpp:704-706, gc.cpp:130-137).
GrowthIsAnnounced == [][chunks' > chunks => gc_soon]_vars

\* And then by one chunk for a request: one that fits an empty block, as those of the
\* instance do, takes its object from the chunk it had added, so that no such request
\* adds chunk after chunk (immix.hpp:704-716, 968-985).
GrowthIsMeasured ==
  [][chunks' > chunks =>
       /\ gc_soon
       /\ block'[1] = chunks /\ pc' \in {"run", "allocate"} /\ cursor' + req <= limit']_vars

\* Allocation and collection end: the loops of allocate, get_new_block and
\* get_block, and the tracing of a finite heap.
ReturnsToProgram ==
  pc \in {"allocate", "get_block", "mark"} ~> pc \in {"run", "aborted"}

=============================================================================
