------------------------------- MODULE MCMovement -------------------------------
EXTENDS Movement, FiniteSetsExt

Block(x, y, z, height) ==
  [cube |-> <<x, y, z>>,
   box |-> <<<<x * Side, y * Side, z * Side>>,
             <<(x + 1) * Side, y * Side + height, (z + 1) * Side>>>>]

Full(x, y, z) == Block(x, y, z, Side)

\* Two layers under the player, what stands in its way, next to it or a unit off,
\* and a ceiling.
Blocks ==
  {Full(0, -1, 0), Full(0, -2, 0), Full(-1, -1, 0), Full(-1, 0, 0), Full(0, 0, 1), Full(-1, 0, 1),
   Full(0, 2, 0), Block(-1, 0, 0, 1), Block(-1, -1, 0, 3)}

MCScenes == UNION {kSubset(k, Blocks) : k \in 0..3}
MCVelocities == {-2, 0} \X {-1, 0, 2} \X {0, 1}
=============================================================================
