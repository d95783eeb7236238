------------------------------- MODULE BlockCache -------------------------------
(***************************************************************************)
(* BlockCache (utils/block_cache.go): a window of 3x3x3 sub-chunks around  *)
(* a player whose storages are cloned out of the world, and which is       *)
(* shifted when the player moves.  Positions are in blocks, boxes are      *)
(* pairs of positions; a storage is a clone or Nil.  A slice that subs     *)
(* held at two places would be emptied with its new place: the loop clears *)
(* the old place through the slice it has just moved.                      *)
(***************************************************************************)
EXTENDS Integers, Sequences, SequencesExt, FiniteSetsExt

CONSTANTS
  Boxes,      \* the boxes that are asked for, all less than 16 wide, high and long
  Positions,  \* the blocks that are asked for
  Ranges,     \* ranges of worlds, as World.Range gives them: in blocks
  MaxLayers,  \* bound on the layers of a sub-chunk; those of one call have equally many
  Nil, Clone

Vecs(S) == S \X S \X S
Plus(u, v) == [i \in 1..3 |-> u[i] + v[i]]
Minus(u, v) == [i \in 1..3 |-> u[i] - v[i]]

SubChunkVec(pos) == [i \in 1..3 |-> pos[i] \div 16]
SubIndex(v) == 9 * v[1] + 3 * v[2] + v[3] + 1
PosWithin(v, min, max) == \A i \in 1..3 : min[i] <= v[i] /\ max[i] > v[i]

Indices == 0..26

VARIABLES startFrom, worldRange, subs, panicked,
          asked   \* history: the box of the last call, if it was CacheNearWithinBBox

vars == <<startFrom, worldRange, subs, panicked, asked>>

\* NewBlockCache.
Init ==
  /\ startFrom = [i \in 1..3 |-> 0]
  /\ worldRange = <<0, 0>>
  /\ subs = [i \in Indices |-> <<>>]
  /\ panicked = FALSE
  /\ asked = <<>>

Corners(box) == {[i \in 1..3 |-> box[k[i]][i]] : k \in Vecs({1, 2})}

\* The range is in blocks, and the corner in sub-chunks.
CacheableCorners(box) ==
  {v \in {SubChunkVec(c) : c \in Corners(box)} : v[2] > worldRange[1] /\ v[2] <= worldRange[2]}

\* An index past the end panics; that is not an answer either.
SubAt(v) == LET i == SubIndex(Minus(v, startFrom)) IN
  IF i \in Indices /\ subs[i] # <<>> THEN subs[i][1] ELSE Nil

WithinCachingRange(box) ==
  LET min == SubChunkVec(box[1])
      max == SubChunkVec(box[2])
  IN /\ \A i \in {1, 3} : startFrom[i] <= min[i] /\ startFrom[i] + 3 > max[i]
     /\ startFrom[2] <= min[2] \/ startFrom[2] = worldRange[1]
     /\ startFrom[2] + 3 > max[2] \/ startFrom[2] + 3 = worldRange[2]

AllSubsInCache(box) ==
  WithinCachingRange(box) /\ \A v \in CacheableCorners(box) : SubAt(v) # Nil

-----------------------------------------------------------------------------
(* The pieces of CacheNearWithinBBox, on c = [subs, panicked].             *)

Filled(slice, with) == [k \in DOMAIN slice |-> with]

\* cloneToSub: a slice of another length than the storage's is emptied, and
\* the one that is filled in its stead is put nowhere.  External: the layers of
\* the sub-chunk, whatever y is asked for.
CloneToSub(c, offset, layers) ==
  LET i == SubIndex(offset) IN
  IF i \notin Indices THEN [c EXCEPT !.panicked = TRUE]
  ELSE [c EXCEPT !.subs[i] = Filled(@, IF Len(@) = layers THEN Clone ELSE Nil)]

CloneAll(c, offsets, layers) ==
  FoldSet(LAMBDA o, d : IF d.panicked THEN d ELSE CloneToSub(d, o, layers), c, offsets)

\* subOffsetsNSwap: all offsets, in the direction of the shift.
SubOffsets(shift) ==
  [n \in 1..27 |->
    LET digit == <<(n - 1) \div 9, ((n - 1) \div 3) % 3, (n - 1) % 3>>
    IN [i \in 1..3 |-> IF shift[i] < 0 THEN 2 - digit[i] ELSE digit[i]]]

Swaps(offset, shift) == \A i \in 1..3 : offset[i] + shift[i] \in 0..2

\* One round of the loop that shifts the window.
ShiftSub(c, offset, shift) ==
  LET i == SubIndex(offset)
      to == SubIndex(Minus(offset, shift))
      swap == Swaps(offset, shift)
  IN IF i \notin Indices \/ (swap /\ to \notin Indices) THEN [c EXCEPT !.panicked = TRUE]
     ELSE [c EXCEPT !.subs = [k \in Indices |->
             IF k = i THEN <<>>
             ELSE IF swap /\ k = to THEN Filled(@[i], Nil)
             ELSE @[k]]]

ShiftAll(c, shift) ==
  FoldLeft(LAMBDA d, o : IF d.panicked THEN d ELSE ShiftSub(d, o, shift), c, SubOffsets(shift))

\* offsetBBox(offset).IntersectsWith(box), with a side of 48 blocks.
Intersects(offset, from, box) ==
  \A i \in 1..3 : LET min == (offset[i] + from[i]) * 16 IN
    box[2][i] > min /\ box[1][i] < min + 48

-----------------------------------------------------------------------------

\* startFrom moves with a small shift only.
CacheNearWithinBBox(box) ==
  LET to == SubChunkVec(box[1])
      shift == Minus(to, startFrom)
      near == \A i \in 1..3 : shift[i] \in -2..2
      here == [subs |-> subs, panicked |-> FALSE]
  IN \E layers \in 0..MaxLayers :
       LET done ==
             IF near /\ to # startFrom
             THEN CloneAll(ShiftAll(here, shift),
                           {o \in Vecs(0..2) : ~Swaps(o, shift) /\ Intersects(o, to, box)}, layers)
             ELSE CloneAll(here, CacheableCorners(box), layers)
       IN /\ startFrom' = IF near THEN to ELSE startFrom
          /\ subs' = done.subs /\ panicked' = done.panicked
          /\ asked' = box
          /\ UNCHANGED worldRange

ChangeWorldTo ==
  /\ worldRange' \in Ranges
  /\ subs' = [i \in Indices |-> <<>>]
  /\ asked' = <<>>
  /\ UNCHANGED <<startFrom, panicked>>

\* Block answers from the cache or with air.
Block(pos) ==
  LET v == SubChunkVec(pos) IN
  /\ panicked' = (PosWithin(v, startFrom, Plus(startFrom, <<3, 3, 3>>))
                    /\ SubIndex(Minus(v, startFrom)) \notin Indices)
  /\ asked' = <<>>
  /\ UNCHANGED <<startFrom, worldRange, subs>>

Next ==
  /\ ~panicked
  /\ \/ \E box \in Boxes : CacheNearWithinBBox(box)
     \/ ChangeWorldTo
     \/ \E pos \in Positions : Block(pos)

Spec == Init /\ [][Next]_vars

-----------------------------------------------------------------------------
\* "CacheNearWithBBox will clone tx's subchunks's parette storages within bbox,
\* changing bc.startFrom and index of bc.subs if bbox position is too far"
\* (block_cache.go:56-57): after a call, in a world, for a box of the allowed
\* size all its sub-chunks are in the cache, and the transaction need not be
\* asked (block_cache.go:164-165).
CachesNear ==
  asked # <<>> /\ worldRange \in Ranges => ~panicked /\ AllSubsInCache(asked)
=============================================================================
