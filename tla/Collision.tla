------------------------------- MODULE Collision -------------------------------
(***************************************************************************)
(* MovementInput.collide and maxDelta (sim/movement.go:256-326) with the   *)
(* boxes of utils/3d.go: how far a box may move among the blocks.  Lengths *)
(* are integers and a block is Side long.  A box is <<min, max>>; a block  *)
(* of a scene is a record of its cube's position and its box, which may be *)
(* higher than the cube, as a fence's is.                                  *)
(***************************************************************************)
EXTENDS Integers

CONSTANTS
  Side,        \* the length of a cube
  StepHeight   \* MaxStepHeight

ASSUME CollisionAssumption == Side \in Nat \ {0} /\ StepHeight \in Nat

Axes == 1..3
Deltas == [Axes -> Int]
Boxes == [1..2 -> Deltas]

\* A block's box begins in its cube and does not leave it sideways.
IsBlock(n) ==
  /\ n.cube \in Deltas /\ n.box \in Boxes
  /\ \A i \in Axes : n.cube[i] * Side <= n.box[1][i]
  /\ \A i \in {1, 3} : n.box[2][i] <= (n.cube[i] + 1) * Side

Abs(x) == IF x < 0 THEN -x ELSE x
Square(d) == d[1] * d[1] + d[2] * d[2] + d[3] * d[3]
Along(axis, x) == [i \in Axes |-> IF i = axis THEN x ELSE 0]
Level(d) == [d EXCEPT ![2] = 0]

Moved(box, d) == [k \in 1..2 |-> [i \in Axes |-> box[k][i] + d[i]]]

\* ExtendTowards, and Extend.
Extended(box, d) ==
  <<[i \in Axes |-> IF d[i] < 0 THEN box[1][i] + d[i] ELSE box[1][i]],
    [i \in Axes |-> IF d[i] > 0 THEN box[2][i] + d[i] ELSE box[2][i]]>>

\* BBoxesInBBox: the boxes of the blocks whose cubes box touches.
Nearby(scene, box) ==
  {n.box : n \in {m \in scene : \A i \in Axes :
                    box[1][i] \div Side <= m.cube[i] /\ m.cube[i] <= box[2][i] \div Side}}

Overlap(a, b, i) == a[1][i] < b[2][i] /\ b[1][i] < a[2][i]
Intersects(a, b) == \A i \in Axes : Overlap(a, b, i)
IntersectsSolid(scene, box) == \E n \in Nearby(scene, box) : Intersects(box, n)

\* External: XOffset, YOffset and ZOffset of cube.BBox, for all boxes near.
Offset(boxes, box, axis, x) ==
  LET inLine == {n \in boxes : \A i \in Axes \ {axis} : Overlap(box, n, i)}
      gaps == IF x > 0 THEN {n[1][axis] - box[2][axis] : n \in inLine} \intersect 0..x
                       ELSE {n[2][axis] - box[1][axis] : n \in inLine} \intersect x..0
  IN CHOOSE d \in gaps \union {x} : \A e \in gaps \union {x} : Abs(d) <= Abs(e)

\* Mutant: the box is not moved along with the axis that is done.
Clip_Stays(scene, c, axis) ==
  LET way == Along(axis, c.dt[axis])
  IN [c EXCEPT !.dt[axis] = Offset(Nearby(scene, Extended(c.box, way)), c.box, axis, @)]

\* One axis of maxDelta, on c = [box, dt].
Clip(scene, c, axis) ==
  IF c.dt[axis] = 0 THEN c
  ELSE LET near == Nearby(scene, Extended(c.box, Along(axis, c.dt[axis])))
           d == Offset(near, c.box, axis, c.dt[axis])
       IN [box |-> Moved(c.box, Along(axis, d)), dt |-> [c.dt EXCEPT ![axis] = d]]

\* maxDelta: the height first, then the shorter of the other two.
MaxDelta(scene, box, dt) ==
  LET y == Clip(scene, [box |-> box, dt |-> dt], 2)
  IN IF Abs(dt[3]) > Abs(dt[1]) THEN Clip(scene, Clip(scene, y, 1), 3).dt
     ELSE Clip(scene, Clip(scene, y, 3), 1).dt

\* The two deltas that the step assist may return: each the last maxDelta of
\* its attempt, which goes down.
Steps(scene, box, v) ==
  LET fall == Along(2, -StepHeight)
      along == MaxDelta(scene, Moved(box, Along(2, StepHeight)), Level(v))
      first == MaxDelta(scene, Moved(box, [along EXCEPT ![2] = -StepHeight]), fall)
      up == MaxDelta(scene, Extended(box, Level(v)), Along(2, StepHeight))
      raised == Moved(box, Along(2, up[2]))
      second == MaxDelta(scene, Moved(raised, MaxDelta(scene, raised, Level(v))), fall)
      free == MaxDelta(scene, box, v)
  IN IF Square(first) > Square(free) THEN {first}
     ELSE IF Square(second) > Square(free) THEN {second} ELSE {}

\* Who is on the ground, or lands, and hits something with its side tries to step.
TriesToStep(scene, box, v, onGround) ==
  LET free == MaxDelta(scene, box, v)
  IN /\ onGround \/ (free[2] # v[2] /\ free[2] < 0)
     /\ free[1] # v[1] \/ free[3] # v[3]

\* collide.
Collided(scene, box, v, onGround) ==
  IF TriesToStep(scene, box, v, onGround) /\ Steps(scene, box, v) # {}
  THEN CHOOSE d \in Steps(scene, box, v) : TRUE
  ELSE MaxDelta(scene, box, v)
=============================================================================
