--------------------------- MODULE ChunkPartition ---------------------------
(***************************************************************************)
(* How the fork-join pool splits the index range [0, count) of a parallel  *)
(* region: thread_pool.cpp, chunk_range and the first lines of Pool::run.  *)
(* Ranges are half open, as in the code: [begin, end).                     *)
(***************************************************************************)
EXTENDS Integers

Clamp(x, lo, hi) == IF x < lo THEN lo ELSE IF x > hi THEN hi ELSE x

\* run() raises min_per_chunk to at least 1 before dividing by it.
EffectiveMin(minPerChunk) == IF minPerChunk < 1 THEN 1 ELSE minPerChunk

\* Number of parts a region of count items is cut into on total threads.
Parts(count, minPerChunk, total) ==
  Clamp(count \div EffectiveMin(minPerChunk), 1, total)

Base(count, parts) == count \div parts
Rem(count, parts) == count % parts

\* Two defects a split can have, to see that the properties notice them: every
\* part starts as if there were no remainder, and the remainder is dropped.
ChunkBegin_NoRemainder(count, parts, index) == index * Base(count, parts)
ChunkEnd_NoRemainder(count, parts, index) == (index + 1) * Base(count, parts)

\* The first Rem parts take one item more than the others.
ChunkBegin(count, parts, index) ==
  index * Base(count, parts) +
    (IF index < Rem(count, parts) THEN index ELSE Rem(count, parts))

ChunkEnd(count, parts, index) ==
  ChunkBegin(count, parts, index) + Base(count, parts)
    + (IF index < Rem(count, parts) THEN 1 ELSE 0)

\* The items of part index, as a set.
Chunk(count, parts, index) ==
  ChunkBegin(count, parts, index) .. (ChunkEnd(count, parts, index) - 1)
=============================================================================
