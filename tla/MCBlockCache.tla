------------------------------ MODULE MCBlockCache ------------------------------
EXTENDS BlockCache

\* A player's box, in the first sub-chunk or over the border to the next ones,
\* and one that is far away.
MCBoxes == {<<p, Plus(p, <<1, 2, 1>>)>> : p \in Vecs({4, 15, 20}) \union {<<164, 68, 4>>}}
MCPositions == Vecs({4, 20, 36})
MCRanges == {<<-64, 319>>}
=============================================================================
