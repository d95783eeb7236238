------------------------------ MODULE SneakEdge -------------------------------
(***************************************************************************)
(* MovementInput.stopOnEdge (sim/movement.go:218-254): who sneaks on the   *)
(* ground is slowed down until there is ground where the velocity leads.   *)
(* Three loops lower the velocity, the first along x alone, the second     *)
(* along z alone, the third along both.  Velocities are integers.          *)
(***************************************************************************)
EXTENDS Integers

CONSTANTS
  Slice,   \* the 0.05 that a round of a loop takes off
  MaxV     \* bound of the velocity along an axis

ASSUME EdgeAssumption == Slice \in Nat \ {0} /\ MaxV \in Nat

VARIABLES
  velocity,   \* in.Velocity[0] and in.Velocity[2]
  loop,       \* 1, 2 or 3, and 4 when stopOnEdge returns
  ground      \* the corners of the blocks around, see Solid

edgeVars == <<velocity, loop, ground>>

Extents == 0..MaxV
Speeds == (-MaxV)..MaxV

Distance(x) == IF x < 0 THEN -x ELSE x

\* BBoxIntersectsSolid of the probe moved by v.  Each block reaches from the
\* player to one corner, in the direction of the velocity, so that between
\* the player and a place with ground there is ground.
Solid(v) == \E c \in ground : Distance(v[1]) <= c[1] /\ Distance(v[2]) <= c[2]

Loops == 1..3

\* What a loop probes, and whether it goes on asking.
Probed(l) == CASE l = 1 -> <<velocity[1], 0>>
               [] l = 2 -> <<0, velocity[2]>>
               [] l = 3 -> velocity

Moves(l) == (l # 2 => velocity[1] # 0) /\ (l # 1 => velocity[2] # 0)

\* Mutant: what passes zero goes on.
Lowered_PastZero(x) == IF x > 0 THEN x - Slice ELSE x + Slice

\* probeOnEdge: planeFinal, or 0 where its sign has changed.
Lowered(x) ==
  IF Distance(x) <= Slice THEN 0 ELSE IF x > 0 THEN x - Slice ELSE x + Slice

Lower(l) ==
  /\ loop = l /\ Moves(l) /\ ~Solid(Probed(l))
  /\ velocity' = <<IF l # 2 THEN Lowered(velocity[1]) ELSE velocity[1],
                   IF l # 1 THEN Lowered(velocity[2]) ELSE velocity[2]>>
  /\ UNCHANGED <<loop, ground>>

\* Mutant: the third loop is left out.
After_NoCorner(l) == IF l = 2 THEN 4 ELSE l + 1

After(l) == l + 1

Leave(l) ==
  /\ loop = l
  /\ Moves(l) => Solid(Probed(l))
  /\ loop' = After(l)
  /\ UNCHANGED <<velocity, ground>>

Round == \E l \in Loops : Lower(l) \/ Leave(l)

\* stopOnEdge is entered with any velocity, next to one or two blocks or none.
Enter ==
  /\ velocity' \in Speeds \X Speeds
  /\ \/ ground' = {}
     \/ \E c, d \in Extents \X Extents : c[1] >= d[1] /\ ground' = {c, d}
  /\ loop' = 1

EdgeInit == velocity = <<0, 0>> /\ loop = 4 /\ ground = {}

EdgeOver == velocity' = <<0, 0>> /\ loop' = 4 /\ ground' = {}

\* When stopOnEdge returns, there is ground where the velocity leads, or the
\* player stands still: the third loop keeps what the first two have found for
\* each axis (movement.go:247-253).
StaysOnGround == loop = 4 => Solid(velocity) \/ velocity = <<0, 0>>

\* A round that changes the velocity does not speed the player up, and does not
\* turn it, so that no loop swings around zero: a rest smaller than the slice is
\* cut to zero (movement.go:227-231).
SlowsDown ==
  [][ loop < 4 /\ velocity' # velocity =>
        \A i \in 1..2 :
          /\ Distance(velocity'[i]) <= Distance(velocity[i])
          /\ velocity[i] <= 0 => velocity'[i] <= 0
          /\ velocity[i] >= 0 => velocity'[i] >= 0 ]_edgeVars
=============================================================================
