---------------------------- MODULE MovementProofs ----------------------------
(***************************************************************************)
(* stopOnEdge and the jump, for every slice, bound and width of uint, and  *)
(* the collision, for every set of blocks around the player and every      *)
(* velocity.  One axis of maxDelta moves the box by an offset between zero *)
(* and what was left (OffsetStops) and not into a block (ClipMoves), since *)
(* the search for blocks misses none that the way meets (MetIsNear).       *)
(***************************************************************************)
EXTENDS Movement, TLAPS, WellFoundedInduction

-----------------------------------------------------------------------------
(* stopOnEdge.                                                             *)

EdgeTypeOK ==
  /\ velocity \in Speeds \X Speeds /\ loop \in 1..4 /\ ground \subseteq Extents \X Extents

\* What the loops that are over have found.
FirstFound == loop >= 2 => velocity[1] = 0 \/ Solid(<<velocity[1], 0>>)
SecondFound == loop >= 3 => velocity[2] = 0 \/ Solid(<<0, velocity[2]>>)
ThirdFound == loop = 4 => velocity[1] = 0 \/ velocity[2] = 0 \/ Solid(velocity)

EdgeInv == EdgeTypeOK /\ FirstFound /\ SecondFound /\ ThirdFound

\* probeOnEdge brings a velocity nearer to zero and does not pass it.
LEMMA LoweredIsBetween ==
  ASSUME NEW x \in Speeds
  PROVE  /\ Lowered(x) \in Speeds
         /\ Distance(Lowered(x)) <= Distance(x)
         /\ x <= 0 => Lowered(x) <= 0
         /\ x >= 0 => Lowered(x) >= 0
  BY EdgeAssumption, SMT DEF Lowered, Distance, Speeds

\* Where there is ground for a velocity there is ground for a lower one.
LEMMA SolidIsStarShaped ==
  ASSUME EdgeTypeOK, NEW x \in Speeds, NEW z \in Speeds, NEW y \in Speeds, NEW w \in Speeds,
         Distance(y) <= Distance(x), Distance(w) <= Distance(z), Solid(<<x, z>>)
  PROVE  Solid(<<y, w>>)
<1>1. PICK c \in ground : Distance(x) <= c[1] /\ Distance(z) <= c[2]
  BY DEF Solid
<1>2. c[1] \in Nat /\ c[2] \in Nat
  BY EdgeAssumption DEF EdgeTypeOK, Extents
<1>3. /\ Distance(x) \in Int /\ Distance(z) \in Int
      /\ Distance(y) \in Int /\ Distance(w) \in Int
  BY EdgeAssumption DEF Speeds, Distance
<1>4. Distance(y) <= c[1] /\ Distance(w) <= c[2]
  BY <1>1, <1>2, <1>3
<1> QED BY <1>4 DEF Solid

LEMMA EdgeStart == EdgeInit => EdgeInv
  BY EdgeAssumption DEF EdgeInit, EdgeInv, EdgeTypeOK, FirstFound, SecondFound, ThirdFound,
     Speeds, Extents

\* A round of a loop keeps what the loops before it have found.
LEMMA LowerKeeps ==
  ASSUME EdgeInv, NEW l \in Loops, Lower(l)
  PROVE  EdgeInv'
<1> DEFINE x == velocity[1]
           z == velocity[2]
<1>1. x \in Speeds /\ z \in Speeds /\ velocity = <<x, z>>
  BY DEF EdgeInv, EdgeTypeOK
<1>2. /\ loop = l /\ loop' = l /\ ground' = ground
      /\ velocity' = <<IF l # 2 THEN Lowered(x) ELSE x, IF l # 1 THEN Lowered(z) ELSE z>>
  BY DEF Lower
<1>3. /\ Lowered(x) \in Speeds /\ Distance(Lowered(x)) <= Distance(x)
      /\ Lowered(z) \in Speeds /\ Distance(Lowered(z)) <= Distance(z)
  BY <1>1, LoweredIsBetween
<1>4. x = 0 => Lowered(x) = 0
  BY EdgeAssumption DEF Lowered, Distance
<1>5. z = 0 => Lowered(z) = 0
  BY EdgeAssumption DEF Lowered, Distance
<1>6. 0 \in Speeds /\ Distance(0) <= Distance(0)
  BY EdgeAssumption DEF Speeds, Distance
<1> HIDE DEF x, z
<1>7. EdgeTypeOK'
  BY <1>1, <1>2, <1>3 DEF EdgeInv, EdgeTypeOK, Loops
<1>8. FirstFound'
  <2>1. CASE l = 1
    BY <2>1, <1>2 DEF FirstFound
  <2>2. CASE l = 2
    BY <2>2, <1>1, <1>2 DEF EdgeInv, FirstFound, Solid
  <2>3. CASE l = 3
    <3>1. x = 0 \/ Solid(<<x, 0>>)
      BY <2>3, <1>1, <1>2 DEF EdgeInv, FirstFound
    <3>2. Solid(<<x, 0>>) => Solid(<<Lowered(x), 0>>)
      BY <1>1, <1>3, <1>6, SolidIsStarShaped DEF EdgeInv
    <3>3. velocity'[1] = Lowered(x)
      BY <2>3, <1>2
    <3>4. velocity'[1] = 0 \/ Solid(<<velocity'[1], 0>>)
      BY <3>1, <3>2, <3>3, <1>4
    <3> QED BY <3>4, <1>2 DEF FirstFound, Solid
  <2> QED BY <2>1, <2>2, <2>3 DEF Loops
<1>9. SecondFound'
  <2>1. CASE l # 3
    BY <2>1, <1>2 DEF SecondFound, Loops
  <2>2. CASE l = 3
    <3>1. z = 0 \/ Solid(<<0, z>>)
      BY <2>2, <1>1, <1>2 DEF EdgeInv, SecondFound
    <3>2. Solid(<<0, z>>) => Solid(<<0, Lowered(z)>>)
      BY <1>1, <1>3, <1>6, SolidIsStarShaped DEF EdgeInv
    <3>3. velocity'[2] = Lowered(z)
      BY <2>2, <1>2
    <3>4. velocity'[2] = 0 \/ Solid(<<0, velocity'[2]>>)
      BY <3>1, <3>2, <3>3, <1>5
    <3> QED BY <3>4, <1>2 DEF SecondFound, Solid
  <2> QED BY <2>1, <2>2
<1>10. ThirdFound'
  BY <1>2 DEF ThirdFound, Loops
<1> QED BY <1>7, <1>8, <1>9, <1>10 DEF EdgeInv

\* A loop ends because its axis is at rest or because it has found ground.
LEMMA LeaveKeeps ==
  ASSUME EdgeInv, NEW l \in Loops, Leave(l)
  PROVE  EdgeInv'
<1>1. /\ loop = l /\ loop' = l + 1 /\ ground' = ground /\ velocity' = velocity
      /\ Moves(l) => Solid(Probed(l))
  BY DEF Leave, After
<1>2. velocity = <<velocity[1], velocity[2]>>
  BY DEF EdgeInv, EdgeTypeOK
<1>3. EdgeTypeOK'
  BY <1>1 DEF EdgeInv, EdgeTypeOK, Loops
<1>4. CASE l = 1
  <2>1. velocity[1] = 0 \/ Solid(<<velocity[1], 0>>)
    BY <1>1, <1>4 DEF Moves, Probed
  <2> QED BY <2>1, <1>1, <1>3, <1>4 DEF EdgeInv, FirstFound, SecondFound, ThirdFound, Solid
<1>5. CASE l = 2
  <2>1. velocity[2] = 0 \/ Solid(<<0, velocity[2]>>)
    BY <1>1, <1>5 DEF Moves, Probed
  <2> QED BY <2>1, <1>1, <1>3, <1>5 DEF EdgeInv, FirstFound, SecondFound, ThirdFound, Solid
<1>6. CASE l = 3
  <2>1. velocity[1] = 0 \/ velocity[2] = 0 \/ Solid(velocity)
    BY <1>1, <1>6 DEF Moves, Probed
  <2> QED BY <2>1, <1>1, <1>3, <1>6 DEF EdgeInv, FirstFound, SecondFound, ThirdFound, Solid
<1> QED BY <1>4, <1>5, <1>6 DEF Loops

LEMMA EnterStarts == EdgeInv /\ Enter => EdgeInv'
  BY DEF Enter, EdgeInv, EdgeTypeOK, FirstFound, SecondFound, ThirdFound

LEMMA EdgeStutters == EdgeInv /\ UNCHANGED edgeVars => EdgeInv'
  BY DEF edgeVars, EdgeInv, EdgeTypeOK, FirstFound, SecondFound, ThirdFound, Solid

\* What the third loop leaves is what the property asks for.
LEMMA EdgeInvSuffices == EdgeInv => StaysOnGround
<1> SUFFICES ASSUME EdgeInv, loop = 4
             PROVE  Solid(velocity) \/ velocity = <<0, 0>>
  BY DEF StaysOnGround
<1>1. velocity = <<velocity[1], velocity[2]>>
  BY DEF EdgeInv, EdgeTypeOK
<1>2. /\ velocity[1] = 0 \/ Solid(<<velocity[1], 0>>)
      /\ velocity[2] = 0 \/ Solid(<<0, velocity[2]>>)
      /\ velocity[1] = 0 \/ velocity[2] = 0 \/ Solid(velocity)
  BY DEF EdgeInv, FirstFound, SecondFound, ThirdFound
<1> QED BY <1>1, <1>2

\* Where each step of the tick leaves the edge.
LEMMA EdgeStep == EdgeInv /\ [Next]_vars => EdgeInv'
<1> SUFFICES ASSUME EdgeInv, [Next]_vars PROVE EdgeInv'
  OBVIOUS
<1>1. CASE Seed
  BY <1>1, EdgeStutters DEF Seed
<1>2. CASE SetPose
  BY <1>2, EdgeStutters DEF SetPose
<1>3. CASE Travel
  BY <1>3, EdgeStutters, EnterStarts DEF Travel
<1>4. CASE StopOnEdge
  <2>1. CASE Round
    BY <2>1, LowerKeeps, LeaveKeeps DEF Round
  <2>2. CASE EdgeOver
    BY <2>2, EdgeAssumption DEF EdgeOver, EdgeInv, EdgeTypeOK, FirstFound, SecondFound,
       ThirdFound, Speeds, Extents
  <2> QED BY <1>4, <2>1, <2>2 DEF StopOnEdge
<1>5. CASE Collide \/ EndTick
  BY <1>5, EdgeStutters DEF Collide, EndTick
<1>6. CASE UNCHANGED vars
  BY <1>6, EdgeStutters DEF vars
<1> QED BY <1>1, <1>2, <1>3, <1>4, <1>5, <1>6 DEF Next

\* A sneaking player is not led off the ground: for every slice and every
\* shape of the ground that has no hole between the player and its goal
\* (movement.go:218-254).
THEOREM SneakerStaysOnGround == Spec => []StaysOnGround
<1>1. Init => EdgeInv
  BY EdgeStart DEF Init
<1>2. EdgeInv /\ [Next]_vars => EdgeInv'
  BY EdgeStep
<1> QED BY <1>1, <1>2, EdgeInvSuffices, PTL DEF Spec

\* A round of a loop slows the player down and does not turn it.
LEMMA RoundSlowsDown ==
  ASSUME EdgeInv, loop < 4, Round, velocity' # velocity, NEW i \in 1..2
  PROVE  /\ Distance(velocity'[i]) <= Distance(velocity[i])
         /\ velocity[i] <= 0 => velocity'[i] <= 0
         /\ velocity[i] >= 0 => velocity'[i] >= 0
<1>1. PICK l \in Loops : Lower(l)
  BY DEF Round, Leave
<1>2. velocity[i] \in Speeds
  BY DEF EdgeInv, EdgeTypeOK
<1>3. velocity'[i] \in {velocity[i], Lowered(velocity[i])}
  BY <1>1 DEF Lower
<1>4. CASE velocity'[i] = velocity[i]
  BY <1>2, <1>4, EdgeAssumption DEF Speeds, Distance
<1>5. CASE velocity'[i] = Lowered(velocity[i])
  BY <1>2, <1>5, LoweredIsBetween
<1> QED BY <1>3, <1>4, <1>5

\* stopOnEdge slows down and never turns a player (movement.go:223-233).
THEOREM EdgeSlowsDown == Spec => SlowsDown
<1>1. Init => EdgeInv
  BY EdgeStart DEF Init
<1>2. EdgeInv /\ [Next]_vars => EdgeInv'
  BY EdgeStep
<1>3. Init => (step # "edge" => loop = 4)
  BY DEF Init, EdgeInit
<1>4. (step # "edge" => loop = 4) /\ [Next]_vars => (step # "edge" => loop = 4)'
  BY DEF Next, Seed, SetPose, Travel, StopOnEdge, EdgeOver, Round, Lower, Leave, Collide, EndTick,
     vars, edgeVars
<1>5. EdgeInv /\ (step # "edge" => loop = 4) /\ [Next]_vars
        => [ loop < 4 /\ velocity' # velocity =>
               \A i \in 1..2 :
                 /\ Distance(velocity'[i]) <= Distance(velocity[i])
                 /\ velocity[i] <= 0 => velocity'[i] <= 0
                 /\ velocity[i] >= 0 => velocity'[i] >= 0 ]_edgeVars
  <2> SUFFICES ASSUME EdgeInv, step # "edge" => loop = 4, [Next]_vars,
                      loop < 4, velocity' # velocity
               PROVE  Round
    BY RoundSlowsDown
  <2>1. step = "edge"
    OBVIOUS
  <2>2. StopOnEdge
    BY <2>1 DEF Next, Seed, SetPose, Travel, Collide, EndTick, vars, edgeVars
  <2> QED BY <2>2 DEF StopOnEdge
<1> QED BY <1>1, <1>2, <1>3, <1>4, <1>5, PTL DEF Spec, SlowsDown

-----------------------------------------------------------------------------
(* The jump.                                                               *)

\* Until the first jump the cooldown counts a round of the uint down, from 0.
JumpInv ==
  /\ jumpCooldown \in 0..(W - 1) /\ held \in 0..W /\ jumped \in BOOLEAN
  /\ ~jumped /\ held < W => jumpCooldown = IF held = 0 THEN 0 ELSE W - held

\* A uint less one.
LEMMA LessWraps ==
  ASSUME NEW n \in 0..(W - 1)
  PROVE  Less(n) = IF n = 0 THEN W - 1 ELSE n - 1
<1>1. W \in Nat /\ 1 < W
  BY MovementAssumption
<1>2. CASE n = 0
  <2>1. (W - 1) % W = W - 1
    BY <1>1
  <2> QED BY <1>1, <1>2, <2>1 DEF Less
<1>3. CASE n # 0
  <2>1. n - 1 \in 0..(W - 1) /\ n + W - 1 = (n - 1) + W
    BY <1>1, <1>3
  <2>2. ((n - 1) + W) % W = n - 1
    BY <1>1, <2>1
  <2> QED BY <1>3, <2>1, <2>2 DEF Less
<1> QED BY <1>2, <1>3

\* travelAir counts on, resets, or jumps at the end of the round.
LEMMA JumpKeeps ==
  ASSUME JumpInv, NEW climbs \in BOOLEAN, NEW startJumping \in BOOLEAN, NEW isJump \in BOOLEAN,
         Jump(climbs, startJumping, isJump)
  PROVE  JumpInv' /\ (~jumped /\ jumped' => held >= W - 1)
<1> DEFINE c == Less(jumpCooldown)
           jumps == ~climbs /\ startJumping /\ onGround /\ c = 0
<1>1. /\ jumpCooldown' = IF ~isJump THEN 0 ELSE IF jumps THEN PlayerJumpCooldown ELSE c
      /\ jumped' = (jumped \/ jumps)
      /\ held' = IF jumped \/ ~isJump \/ jumps THEN 0
                 ELSE IF held < W THEN held + 1 ELSE held
  BY Zenon DEF Jump
<1>2. c = IF jumpCooldown = 0 THEN W - 1 ELSE jumpCooldown - 1
  BY LessWraps DEF JumpInv
<1>3. W \in Nat /\ 1 < W /\ PlayerJumpCooldown \in 0..(W - 1)
  BY MovementAssumption
<1>4. jumps => c = 0
  OBVIOUS
<1>5. jumps \in BOOLEAN
  OBVIOUS
<1> HIDE DEF c, jumps
<1>6. jumpCooldown' \in 0..(W - 1) /\ held' \in 0..W
  BY <1>1, <1>2, <1>3 DEF JumpInv
<1>7. jumped' \in BOOLEAN
  BY <1>1, <1>5 DEF JumpInv
<1>8. ~jumped /\ jumped' => held >= W - 1
  BY <1>1, <1>2, <1>3, <1>4 DEF JumpInv
<1>9. ~jumped' /\ held' < W => jumpCooldown' = IF held' = 0 THEN 0 ELSE W - held'
  <2>1. SUFFICES ASSUME ~jumped, ~jumps, held' < W
                 PROVE  jumpCooldown' = IF held' = 0 THEN 0 ELSE W - held'
    BY <1>1
  <2>2. CASE ~isJump
    BY <2>1, <2>2, <1>1
  <2>3. CASE isJump
    <3>1. held < W /\ held' = held + 1 /\ jumpCooldown' = c
      BY <2>1, <2>3, <1>1, <1>3 DEF JumpInv
    <3> QED BY <3>1, <2>1, <1>2, <1>3 DEF JumpInv
  <2> QED BY <2>2, <2>3
<1> QED BY <1>6, <1>7, <1>8, <1>9 DEF JumpInv

LEMMA JumpStutters == JumpInv /\ UNCHANGED jumpVars => JumpInv' /\ jumped' = jumped
  BY DEF JumpInv, jumpVars

LEMMA JumpStep ==
  ASSUME JumpInv, [Next]_vars
  PROVE  JumpInv' /\ (~jumped /\ jumped' => held >= W - 1)
<1>1. CASE Travel
  <2>1. \/ UNCHANGED jumpVars
        \/ \E climbs, startJumping, isJump \in BOOLEAN : Jump(climbs, startJumping, isJump)
    BY <1>1 DEF Travel
  <2> QED BY <2>1, JumpStutters, JumpKeeps
<1>2. CASE Seed \/ SetPose \/ StopOnEdge \/ Collide \/ EndTick \/ UNCHANGED vars
  <2>1. UNCHANGED jumpVars
    BY <1>2 DEF Seed, SetPose, StopOnEdge, Collide, EndTick, vars
  <2> QED BY <2>1, JumpStutters
<1> QED BY <1>1, <1>2 DEF Next

\* For a uint of any width, no jump happens before the cooldown has gone once
\* round all its values (sim/air.go:45-60).
THEOREM FirstJumpIsLate == Spec => FirstJumpAfterARound
<1>1. Init => JumpInv
  <2> SUFFICES ASSUME Init PROVE JumpInv
    OBVIOUS
  <2>1. jumpCooldown = 0 /\ held = 0 /\ jumped \in BOOLEAN
    BY Zenon DEF Init
  <2> QED BY <2>1, MovementAssumption DEF JumpInv
<1>2. JumpInv /\ [Next]_vars => JumpInv'
  BY JumpStep
<1>3. JumpInv /\ [Next]_vars => [~jumped /\ jumped' => held >= W - 1]_vars
  BY JumpStep
<1> QED BY <1>1, <1>2, <1>3, PTL DEF Spec, FirstJumpAfterARound

-----------------------------------------------------------------------------
(* The pose of who sneaks on the ground.                                   *)

\* In survival mode landing makes the player stand before its pose is asked.
Landed == step = "pose" /\ onGround /\ gameMode = "survival" => pose = "standing" /\ ~flying

SneakInv == Landed /\ SneaksOnGround

\* Whatever the pose was before, and whatever it is in the air, in the water or
\* in flight: who sneaks on the ground with room above has the sneaking pose
\* when its travel is chosen (movement.go:118-160).
THEOREM SneakersSneak == Spec => []SneaksOnGround
<1>1. Init => SneakInv
  BY DEF Init, SneakInv, Landed, SneaksOnGround
<1>2. SneakInv /\ [Next]_vars => SneakInv'
  <2> SUFFICES ASSUME SneakInv, [Next]_vars PROVE SneakInv'
    OBVIOUS
  <2>1. CASE Seed
    <3>1. PICK start, stop \in BOOLEAN : Flight(start, stop)
      BY <2>1 DEF Seed
    <3>2. step' = "pose" /\ onGround' = onGround
      BY <2>1 DEF Seed
    <3>3. gameMode' = "survival" /\ onGround => pose' = "standing" /\ ~flying'
      BY <3>1 DEF Flight
    <3> QED BY <3>2, <3>3 DEF SneakInv, Landed, SneaksOnGround
  <2>2. CASE SetPose
    <3>1. /\ step = "pose" /\ step' = "travel" /\ onGround' = onGround
          /\ gameMode' = gameMode /\ keys' = keys
      BY <2>2 DEF SetPose
    <3>2. SUFFICES ASSUME keys = "sneak", onGround, gameMode = "survival", room' = "standing"
                   PROVE  pose' = "sneaking"
      BY <3>1 DEF SneakInv, Landed, SneaksOnGround
    <3>3. pose = "standing" /\ ~flying
      BY <3>1, <3>2 DEF SneakInv, Landed
    <3>4. \A start, chest : ~Swims(pose, water') /\ ~Glides(pose, start, chest)
      BY <3>2 DEF Swims, Glides, IsSprint
    <3>5. PoseIn(room', pose) = "sneaking"
      BY <3>2, <3>3 DEF PoseIn, IsSneak
    <3> QED BY <2>2, <3>3, <3>4, <3>5 DEF SetPose
  <2>3. CASE Travel \/ StopOnEdge \/ Collide \/ EndTick
    <3>1. step' \in {"edge", "ground", "end", "flight"}
      BY <2>3 DEF Travel, StopOnEdge, Collide, EndTick
    <3> QED BY <3>1 DEF SneakInv, Landed, SneaksOnGround
  <2>4. CASE UNCHANGED vars
    BY <2>4 DEF vars, inputVars, SneakInv, Landed, SneaksOnGround
  <2> QED BY <2>1, <2>2, <2>3, <2>4 DEF Next
<1> QED
  BY <1>1, <1>2, PTL DEF Spec, SneakInv

-----------------------------------------------------------------------------
(* The collision.                                                          *)

\* Of integers there is one nearest to zero.
LEMMA Nearest ==
  ASSUME NEW S \in SUBSET Int, S # {}
  PROVE  \E d \in S : \A e \in S : Abs(d) <= Abs(e)
<1> DEFINE R == OpToRel(<, Nat)
           far == {Abs(e) : e \in S}
<1>1. far \subseteq Nat /\ far # {}
  <2>1. \A e \in Int : Abs(e) \in Nat
    BY DEF Abs
  <2> QED BY <2>1
<1>2. IsWellFoundedOn(R, Nat)
  BY NatLessThanWellFounded
<1>3. \A x, y \in Nat : x < y => <<x, y>> \in R
  BY DEF OpToRel
<1> HIDE DEF R
<1>4. PICK x \in far : \A y \in far : ~(<<y, x>> \in R)
  BY <1>1, <1>2, WFMin
<1>5. PICK d \in S : x = Abs(d)
  OBVIOUS
<1>6. ASSUME NEW e \in S PROVE Abs(d) <= Abs(e)
  <2>1. Abs(e) \in far /\ Abs(e) \in Nat /\ Abs(d) \in Nat
    BY <1>1, <1>5
  <2>2. ~(Abs(e) < Abs(d))
    BY <1>1, <1>3, <1>4, <1>5, <2>1
  <2> QED BY <2>1, <2>2
<1> QED BY <1>6

\* The gaps between the box and those in its way.
Gap(box, axis, x, b) == IF x > 0 THEN b[1][axis] - box[2][axis] ELSE b[2][axis] - box[1][axis]
InLine(box, axis, b) == \A i \in Axes \ {axis} : Overlap(box, b, i)

\* XOffset, YOffset and ZOffset: no further than x, nor than the nearest gap.
LEMMA OffsetStops ==
  ASSUME NEW boxes, NEW box, NEW axis \in Axes, NEW x \in Int
  PROVE  /\ Offset(boxes, box, axis, x) \in IF x > 0 THEN 0..x ELSE x..0
         /\ \A b \in boxes :
              /\ InLine(box, axis, b)
              /\ Gap(box, axis, x, b) \in IF x > 0 THEN 0..x ELSE x..0
              => Abs(Offset(boxes, box, axis, x)) <= Abs(Gap(box, axis, x, b))
<1> DEFINE within == IF x > 0 THEN 0..x ELSE x..0
           inLine == {b \in boxes : InLine(box, axis, b)}
           gaps == {Gap(box, axis, x, b) : b \in inLine} \intersect within
           S == gaps \union {x}
           d == Offset(boxes, box, axis, x)
<1>1. S \in SUBSET Int /\ S # {} /\ S \subseteq within
  <2>1. within \subseteq Int /\ x \in within
    OBVIOUS
  <2> HIDE DEF within
  <2> QED BY <2>1
<1>2. d = CHOOSE e \in S : \A f \in S : Abs(e) <= Abs(f)
  <2>1. CASE x > 0
    <3>1. gaps = {b[1][axis] - box[2][axis] : b \in inLine} \intersect 0..x
      BY <2>1 DEF Gap
    <3> QED BY <2>1, <3>1 DEF Offset, InLine
  <2>2. CASE ~(x > 0)
    <3>1. gaps = {b[2][axis] - box[1][axis] : b \in inLine} \intersect x..0
      BY <2>2 DEF Gap
    <3> QED BY <2>2, <3>1 DEF Offset, InLine
  <2> QED BY <2>1, <2>2
<1> HIDE DEF d, S
<1>3. d \in S /\ \A f \in S : Abs(d) <= Abs(f)
  BY <1>1, <1>2, Nearest
<1>4. ASSUME NEW b \in boxes, InLine(box, axis, b), Gap(box, axis, x, b) \in within
      PROVE  Gap(box, axis, x, b) \in S
  BY <1>4 DEF S
<1> QED BY <1>1, <1>3, <1>4 DEF d

\* A box moved, corner by corner.
LEMMA MovedBox ==
  ASSUME NEW box \in Boxes, NEW d \in Deltas
  PROVE  /\ Moved(box, d) \in Boxes
         /\ \A e \in 1..2, i \in Axes : Moved(box, d)[e][i] = box[e][i] + d[i]
<1>1. \A e \in 1..2, i \in Axes : box[e][i] \in Int /\ d[i] \in Int
  BY DEF Boxes, Deltas
<1>2. \A e \in 1..2, i \in Axes : Moved(box, d)[e][i] = box[e][i] + d[i]
  BY DEF Moved
<1>3. Moved(box, d) \in Boxes
  BY <1>1 DEF Moved, Boxes, Deltas
<1> QED BY <1>2, <1>3

LEMMA SameBox ==
  ASSUME NEW a \in Boxes, NEW b \in Boxes, \A e \in 1..2, i \in Axes : a[e][i] = b[e][i]
  PROVE  a = b
<1>1. ASSUME NEW e \in 1..2 PROVE a[e] = b[e]
  <2>1. a[e] \in Deltas /\ b[e] \in Deltas
    BY DEF Boxes
  <2> QED BY <2>1 DEF Deltas
<1> QED BY <1>1 DEF Boxes

\* The cube of a block that a box meets is one the box touches: the search for
\* blocks misses none but those higher than their cubes (3d.go:47-75).
LEMMA MetIsNear ==
  ASSUME NEW m, IsBlock(m), NEW scene, m \in scene, m.box[2][2] <= (m.cube[2] + 1) * Side,
         NEW box \in Boxes, Intersects(box, m.box)
  PROVE  m.box \in Nearby(scene, box)
<1>1. ASSUME NEW i \in Axes
      PROVE  box[1][i] \div Side <= m.cube[i] /\ m.cube[i] <= box[2][i] \div Side
  <2> DEFINE s == Side  c == m.cube[i]  lo == box[1][i]  hi == box[2][i]
             bl == m.box[1][i]  bh == m.box[2][i]
  <2>1. s \in Nat \ {0} /\ c \in Int /\ lo \in Int /\ hi \in Int /\ bl \in Int /\ bh \in Int
    BY CollisionAssumption DEF IsBlock, Boxes, Deltas
  <2>2. c * s <= bl /\ bh <= (c + 1) * s
    <3>1. i = 2 \/ i \in {1, 3}
      BY DEF Axes
    <3> QED BY <3>1 DEF IsBlock
  <2>3. lo < bh /\ bl < hi
    BY DEF Intersects, Overlap
  <2> HIDE DEF s, c, lo, hi, bl, bh
  <2>4. lo \div s <= c
    <3>1. lo < (c + 1) * s
      BY <2>1, <2>2, <2>3
    <3>2. lo = s * (lo \div s) + (lo % s) /\ lo \div s \in Int /\ lo % s \in 0..(s - 1)
      BY <2>1
    <3>3. s * (lo \div s) < s * (c + 1)
      BY <2>1, <3>1, <3>2
    <3> QED BY <2>1, <3>2, <3>3
  <2>5. c <= hi \div s
    <3>1. c * s < hi
      BY <2>1, <2>2, <2>3
    <3>2. hi = s * (hi \div s) + (hi % s) /\ hi \div s \in Int /\ hi % s \in 0..(s - 1)
      BY <2>1
    <3>3. s * c < s * (hi \div s + 1)
      BY <2>1, <3>1, <3>2
    <3> QED BY <2>1, <3>2, <3>3
  <2> QED BY <2>4, <2>5 DEF s, c, lo, hi
<1> QED BY <1>1 DEF Nearby

LEMMA AlongOne ==
  ASSUME NEW axis \in Axes, NEW x \in Int
  PROVE  /\ Along(axis, x) \in Deltas
         /\ \A i \in Axes : Along(axis, x)[i] = IF i = axis THEN x ELSE 0
<1>1. \A i \in Axes : Along(axis, x)[i] = IF i = axis THEN x ELSE 0
  BY DEF Along
<1>2. Along(axis, x) = [i \in Axes |-> IF i = axis THEN x ELSE 0]
  BY DEF Along
<1>3. Along(axis, x) \in Deltas
  BY <1>2 DEF Deltas
<1> QED BY <1>1, <1>3

LEMMA ExtendedBox ==
  ASSUME NEW box \in Boxes, NEW w \in Deltas
  PROVE  /\ Extended(box, w) \in Boxes
         /\ \A i \in Axes : /\ Extended(box, w)[1][i] = IF w[i] < 0 THEN box[1][i] + w[i] ELSE box[1][i]
                            /\ Extended(box, w)[2][i] = IF w[i] > 0 THEN box[2][i] + w[i] ELSE box[2][i]
<1> DEFINE lo == [i \in Axes |-> IF w[i] < 0 THEN box[1][i] + w[i] ELSE box[1][i]]
           hi == [i \in Axes |-> IF w[i] > 0 THEN box[2][i] + w[i] ELSE box[2][i]]
<1>1. \A i \in Axes : w[i] \in Int /\ box[1][i] \in Int /\ box[2][i] \in Int
  BY DEF Boxes, Deltas
<1>2. lo \in Deltas /\ hi \in Deltas
  BY <1>1 DEF Deltas
<1>3. Extended(box, w) = <<lo, hi>>
  BY DEF Extended
<1>4. /\ \A i \in Axes : lo[i] = IF w[i] < 0 THEN box[1][i] + w[i] ELSE box[1][i]
      /\ \A i \in Axes : hi[i] = IF w[i] > 0 THEN box[2][i] + w[i] ELSE box[2][i]
  OBVIOUS
<1> HIDE DEF lo, hi
<1>5. <<lo, hi>> \in Boxes
  BY <1>2 DEF Boxes
<1> QED BY <1>3, <1>4, <1>5

\* From c to r one axis has changed alone, and the box has moved by what is left
\* of it, not into a block.
Advanced(scene, c, axis, r) ==
  /\ r.box \in Boxes /\ r.dt \in Deltas
  /\ \A i \in Axes \ {axis} : r.dt[i] = c.dt[i]
  /\ \A e \in 1..2, i \in Axes : r.box[e][i] = c.box[e][i] + (IF i = axis THEN r.dt[axis] ELSE 0)
  /\ Clear(scene, c.box) /\ ~HasTall(scene) => Clear(scene, r.box)

\* One axis of maxDelta.
LEMMA ClipMoves ==
  ASSUME NEW scene, \A m \in scene : IsBlock(m), NEW c, c.box \in Boxes, c.dt \in Deltas,
         NEW axis \in Axes, NEW r, r = Clip(scene, c, axis)
  PROVE  Advanced(scene, c, axis, r)
<1>0. \A e \in 1..2, i \in Axes : c.box[e][i] \in Int /\ c.dt[i] \in Int
  BY DEF Boxes, Deltas
<1>1. CASE c.dt[axis] = 0
  <2>1. r = c
    BY <1>1 DEF Clip
  <2>2. \A e \in 1..2, i \in Axes : r.box[e][i] = c.box[e][i] + (IF i = axis THEN r.dt[axis] ELSE 0)
    BY <1>0, <1>1, <2>1
  <2> QED BY <1>1, <2>1, <2>2 DEF Advanced
<1>2. CASE c.dt[axis] # 0
  <2> DEFINE x == c.dt[axis]
             way == Along(axis, x)
             ext == Extended(c.box, way)
             near == Nearby(scene, ext)
             d == Offset(near, c.box, axis, x)
  <2>1. r.box = Moved(c.box, Along(axis, d)) /\ r.dt = [c.dt EXCEPT ![axis] = d]
    BY <1>2 DEF Clip
  <2>2. x \in Int /\ x # 0
    BY <1>0, <1>2
  <2>3. /\ way \in Deltas /\ \A i \in Axes : way[i] = IF i = axis THEN x ELSE 0
    BY <2>2, AlongOne
  <2>4. /\ ext \in Boxes
        /\ \A i \in Axes : /\ ext[1][i] = IF way[i] < 0 THEN c.box[1][i] + way[i] ELSE c.box[1][i]
                           /\ ext[2][i] = IF way[i] > 0 THEN c.box[2][i] + way[i] ELSE c.box[2][i]
    BY <2>3, ExtendedBox
  <2>5. /\ d \in IF x > 0 THEN 0..x ELSE x..0
        /\ \A b \in near : /\ InLine(c.box, axis, b)
                           /\ Gap(c.box, axis, x, b) \in IF x > 0 THEN 0..x ELSE x..0
                           => Abs(d) <= Abs(Gap(c.box, axis, x, b))
    BY <2>2, OffsetStops
  <2> HIDE DEF x, way, ext, near, d
  <2>6. d \in Int
    BY <2>2, <2>5
  <2>7. /\ Along(axis, d) \in Deltas /\ \A i \in Axes : Along(axis, d)[i] = IF i = axis THEN d ELSE 0
    BY <2>6, AlongOne
  <2>8. r.dt \in Deltas /\ r.dt[axis] = d /\ \A i \in Axes \ {axis} : r.dt[i] = c.dt[i]
    BY <2>1, <2>6 DEF Deltas
  <2>9. /\ r.box \in Boxes
        /\ \A e \in 1..2, i \in Axes : r.box[e][i] = c.box[e][i] + (IF i = axis THEN r.dt[axis] ELSE 0)
    BY <2>1, <2>7, <2>8, MovedBox
  <2>10. ASSUME Clear(scene, c.box), ~HasTall(scene) PROVE Clear(scene, r.box)
    <3> SUFFICES ASSUME NEW m \in scene, Intersects(r.box, m.box) PROVE FALSE
      BY DEF Clear
    <3> DEFINE b == m.box
    <3>1. IsBlock(m) /\ b[2][2] <= (m.cube[2] + 1) * Side
      <4>1. IsBlock(m) /\ ~(b[2][2] > (m.cube[2] + 1) * Side)
        BY <2>10 DEF HasTall
      <4>2. b[2][2] \in Int /\ (m.cube[2] + 1) * Side \in Int
        <5>1. m.cube[2] \in Int /\ b[2][2] \in Int /\ Side \in Int
          BY <4>1, CollisionAssumption DEF IsBlock, Boxes, Deltas, Axes
        <5> QED BY <5>1
      <4> QED BY <4>1, <4>2
    <3>2. \A e \in 1..2, i \in Axes : b[e][i] \in Int
      BY <3>1 DEF IsBlock, Boxes, Deltas
    <3>3. \A i \in Axes : r.box[1][i] < b[2][i] /\ b[1][i] < r.box[2][i]
      BY DEF Intersects, Overlap
    <3>4. ~Intersects(c.box, b)
      BY <2>10 DEF Clear
    <3> HIDE DEF b
    <3>5. InLine(c.box, axis, b)
      <4>1. \A i \in Axes \ {axis} : r.box[1][i] = c.box[1][i] /\ r.box[2][i] = c.box[2][i]
        BY <1>0, <2>9
      <4> QED BY <3>3, <4>1 DEF InLine, Overlap
    <3>6. ~Overlap(c.box, b, axis)
      BY <3>4, <3>5 DEF Intersects, InLine
    <3>7. ASSUME NEW i \in Axes PROVE ext[1][i] <= r.box[1][i] /\ r.box[2][i] <= ext[2][i]
      <4>1. c.box[1][i] \in Int /\ c.box[2][i] \in Int
        BY <1>0
      <4>2. CASE i = axis
        <5>1. r.box[1][i] = c.box[1][i] + d /\ r.box[2][i] = c.box[2][i] + d /\ way[i] = x
          BY <2>3, <2>8, <2>9, <4>2
        <5>2. /\ ext[1][i] = IF x < 0 THEN c.box[1][i] + x ELSE c.box[1][i]
              /\ ext[2][i] = IF x > 0 THEN c.box[2][i] + x ELSE c.box[2][i]
          BY <2>4, <5>1
        <5>3. d \in IF x > 0 THEN 0..x ELSE x..0
          BY <2>5
        <5> QED BY <2>2, <2>6, <4>1, <5>1, <5>2, <5>3
      <4>3. CASE i # axis
        <5>1. r.box[1][i] = c.box[1][i] /\ r.box[2][i] = c.box[2][i] /\ way[i] = 0
          BY <2>3, <2>9, <4>1, <4>3
        <5>2. ext[1][i] = c.box[1][i] /\ ext[2][i] = c.box[2][i]
          BY <2>4, <5>1
        <5> QED BY <4>1, <5>1, <5>2
      <4> QED BY <4>2, <4>3
    <3>8. Intersects(ext, b)
      <4>1. \A e \in 1..2, i \in Axes : ext[e][i] \in Int /\ r.box[e][i] \in Int
        BY <2>4, <2>9 DEF Boxes, Deltas
      <4> QED BY <4>1, <3>2, <3>3, <3>7 DEF Intersects, Overlap
    <3>9. b \in near
      BY <2>4, <3>1, <3>8, MetIsNear DEF b, near
    <3>10. /\ r.box[1][axis] = c.box[1][axis] + d /\ r.box[2][axis] = c.box[2][axis] + d
           /\ c.box[1][axis] \in Int /\ c.box[2][axis] \in Int /\ b[1][axis] \in Int /\ b[2][axis] \in Int
      BY <1>0, <2>8, <2>9, <3>2
    <3>11. r.box[1][axis] < b[2][axis] /\ b[1][axis] < r.box[2][axis]
      BY <3>3
    <3>12. c.box[1][axis] >= b[2][axis] \/ b[1][axis] >= c.box[2][axis]
      BY <3>6, <3>10 DEF Overlap
    <3>13. CASE x > 0
      <4> DEFINE g == b[1][axis] - c.box[2][axis]
      <4>1. d \in 0..x /\ g \in 0..x /\ g < d /\ Gap(c.box, axis, x, b) = g
        <5>1. d \in 0..x
          BY <2>5, <3>13
        <5> QED BY <5>1, <2>2, <3>10, <3>11, <3>12, <3>13 DEF Gap
      <4> HIDE DEF g
      <4>2. Abs(d) <= Abs(g)
        BY <2>5, <3>5, <3>9, <3>13, <4>1
      <4> QED BY <2>2, <4>1, <4>2 DEF Abs
    <3>14. CASE ~(x > 0)
      <4> DEFINE g == b[2][axis] - c.box[1][axis]
      <4>1. d \in x..0 /\ g \in x..0 /\ d < g /\ Gap(c.box, axis, x, b) = g
        <5>1. d \in x..0
          BY <2>5, <3>14
        <5> QED BY <5>1, <2>2, <3>10, <3>11, <3>12, <3>14 DEF Gap
      <4> HIDE DEF g
      <4>2. Abs(d) <= Abs(g)
        BY <2>5, <3>5, <3>9, <3>14, <4>1
      <4> QED BY <2>2, <4>1, <4>2 DEF Abs
    <3> QED BY <3>13, <3>14
  <2> QED BY <2>6, <2>8, <2>9, <2>10 DEF Advanced
<1> QED BY <1>1, <1>2

\* The height, and then the other two, one after the other.
LEMMA ThreeClips ==
  ASSUME NEW scene, \A m \in scene : IsBlock(m), NEW box \in Boxes, NEW dt \in Deltas,
         NEW a \in {1, 3}, NEW b \in {1, 3}, a # b, NEW y, NEW z, NEW w,
         y = Clip(scene, [box |-> box, dt |-> dt], 2),
         z = Clip(scene, y, a), w = Clip(scene, z, b)
  PROVE  /\ w.dt \in Deltas
         /\ Clear(scene, box) /\ ~HasTall(scene) => Clear(scene, Moved(box, w.dt))
<1>0. 2 \in Axes /\ a \in Axes /\ b \in Axes /\ Axes = {a, b, 2} /\ a # 2 /\ b # 2
  BY DEF Axes
<1>1. /\ y.box \in Boxes /\ y.dt \in Deltas
      /\ \A i \in Axes \ {2} : y.dt[i] = dt[i]
      /\ \A e \in 1..2, i \in Axes : y.box[e][i] = box[e][i] + (IF i = 2 THEN y.dt[2] ELSE 0)
      /\ Clear(scene, box) /\ ~HasTall(scene) => Clear(scene, y.box)
  <2>1. PICK c : c = [box |-> box, dt |-> dt]
    OBVIOUS
  <2>2. c.box = box /\ c.dt = dt
    BY <2>1
  <2>3. Advanced(scene, c, 2, y)
    BY <1>0, <2>1, <2>2, ClipMoves
  <2> QED BY <2>2, <2>3 DEF Advanced
<1>2. /\ z.box \in Boxes /\ z.dt \in Deltas
      /\ \A i \in Axes \ {a} : z.dt[i] = y.dt[i]
      /\ \A e \in 1..2, i \in Axes : z.box[e][i] = y.box[e][i] + (IF i = a THEN z.dt[a] ELSE 0)
      /\ Clear(scene, y.box) /\ ~HasTall(scene) => Clear(scene, z.box)
  <2>1. Advanced(scene, y, a, z)
    BY <1>0, <1>1, ClipMoves
  <2> QED BY <2>1 DEF Advanced
<1>3. /\ w.box \in Boxes /\ w.dt \in Deltas
      /\ \A i \in Axes \ {b} : w.dt[i] = z.dt[i]
      /\ \A e \in 1..2, i \in Axes : w.box[e][i] = z.box[e][i] + (IF i = b THEN w.dt[b] ELSE 0)
      /\ Clear(scene, z.box) /\ ~HasTall(scene) => Clear(scene, w.box)
  <2>1. Advanced(scene, z, b, w)
    BY <1>0, <1>2, ClipMoves
  <2> QED BY <2>1 DEF Advanced
<1>4. w.dt[2] = y.dt[2] /\ z.dt[2] = y.dt[2] /\ w.dt[a] = z.dt[a]
  BY <1>0, <1>2, <1>3
<1>5. Moved(box, w.dt) \in Boxes /\ \A e \in 1..2, i \in Axes : Moved(box, w.dt)[e][i] = box[e][i] + w.dt[i]
  BY <1>3, MovedBox
<1>6. ASSUME NEW e \in 1..2, NEW i \in Axes PROVE w.box[e][i] = Moved(box, w.dt)[e][i]
  <2>1. box[e][i] \in Int /\ \A j \in Axes : w.dt[j] \in Int /\ z.dt[j] \in Int /\ y.dt[j] \in Int
    BY <1>1, <1>2, <1>3 DEF Boxes, Deltas
  <2>2. CASE i = 2
    BY <2>1, <2>2, <1>0, <1>1, <1>2, <1>3, <1>4, <1>5
  <2>3. CASE i = a
    BY <2>1, <2>3, <1>0, <1>1, <1>2, <1>3, <1>4, <1>5
  <2>4. CASE i = b
    BY <2>1, <2>4, <1>0, <1>1, <1>2, <1>3, <1>4, <1>5
  <2> QED BY <2>2, <2>3, <2>4, <1>0
<1>7. w.box = Moved(box, w.dt)
  BY <1>3, <1>5, <1>6, SameBox
<1> QED BY <1>1, <1>2, <1>3, <1>4, <1>7

\* maxDelta does not lead into a block.
LEMMA MaxDeltaMoves ==
  ASSUME NEW scene, \A m \in scene : IsBlock(m), NEW box \in Boxes, NEW dt \in Deltas
  PROVE  /\ MaxDelta(scene, box, dt) \in Deltas
         /\ Clear(scene, box) /\ ~HasTall(scene) => Clear(scene, Moved(box, MaxDelta(scene, box, dt)))
<1> DEFINE y == Clip(scene, [box |-> box, dt |-> dt], 2)
           xz == Clip(scene, Clip(scene, y, 1), 3)
           zx == Clip(scene, Clip(scene, y, 3), 1)
<1>1. MaxDelta(scene, box, dt) = IF Abs(dt[3]) > Abs(dt[1]) THEN xz.dt ELSE zx.dt
  BY DEF MaxDelta
<1>2. /\ xz.dt \in Deltas
      /\ Clear(scene, box) /\ ~HasTall(scene) => Clear(scene, Moved(box, xz.dt))
  <2>1. 1 \in {1, 3} /\ 3 \in {1, 3} /\ 1 # 3
    OBVIOUS
  <2> QED BY <2>1, ThreeClips, Zenon
<1>3. /\ zx.dt \in Deltas
      /\ Clear(scene, box) /\ ~HasTall(scene) => Clear(scene, Moved(box, zx.dt))
  <2>1. 1 \in {1, 3} /\ 3 \in {1, 3} /\ 3 # 1
    OBVIOUS
  <2> QED BY <2>1, ThreeClips, Zenon
<1> HIDE DEF xz, zx
<1>4. CASE Abs(dt[3]) > Abs(dt[1])
  BY <1>1, <1>2, <1>4
<1>5. CASE ~(Abs(dt[3]) > Abs(dt[1]))
  BY <1>1, <1>3, <1>5
<1> QED BY <1>4, <1>5

LEMMA BodyIsBox == \A p : Body(p) \in Boxes
<1> SUFFICES ASSUME NEW p PROVE Body(p) \in Boxes
  OBVIOUS
<1>1. Height(p) \in Int
  BY DEF Height
<1> HIDE DEF Height
<1>2. <<0, 0, 0>> \in Deltas /\ <<1, Height(p), 1>> \in Deltas
  BY <1>1 DEF Deltas, Axes
<1>3. Body(p) = <<<<0, 0, 0>>, <<1, Height(p), 1>>>>
  BY DEF Body
<1> QED BY <1>2, <1>3 DEF Boxes

\* What a tick's collision has met.
MetOK ==
  step = "end" =>
    \E scene \in Scenes, v \in Velocities : \E p, g :
      met = [scene |-> scene, box |-> Body(p), velocity |-> v, dt |-> Collided(scene, Body(p), v, g)]

LEMMA MetHolds == Spec => []MetOK
<1>1. Init => MetOK
  BY DEF Init, MetOK
<1>2. MetOK /\ [Next]_vars => MetOK'
  <2> SUFFICES ASSUME MetOK, [Next]_vars PROVE MetOK'
    OBVIOUS
  <2>1. CASE Collide
    BY <2>1 DEF Collide, MetOK
  <2>2. CASE Seed \/ SetPose \/ Travel \/ StopOnEdge \/ EndTick
    <3>1. step' # "end"
      BY <2>2 DEF Seed, SetPose, Travel, StopOnEdge, EndTick
    <3> QED BY <3>1 DEF MetOK
  <2>3. CASE UNCHANGED vars
    BY <2>3 DEF vars, MetOK
  <2> QED BY <2>1, <2>2, <2>3 DEF Next
<1> QED BY <1>1, <1>2, PTL DEF Spec

\* Whatever the blocks around, each in its cube or, as a fence, above it: who
\* starts clear of them is clear of them after maxDelta (movement.go:292-326,
\* 3d.go:47-73).
THEOREM CollisionStaysClear == Spec => []ClearUnlessStepped
<1>1. MetOK => ClearUnlessStepped
  <2> SUFFICES ASSUME MetOK, step = "end", Clear(met.scene, met.box), ~HasStepped(met), ~HasTall(met.scene)
               PROVE  Clear(met.scene, Moved(met.box, met.dt))
    BY DEF ClearUnlessStepped
  <2>0. PICK scene \in Scenes, v \in Velocities :
          \E p, g : met = [scene |-> scene, box |-> Body(p), velocity |-> v,
                          dt |-> Collided(scene, Body(p), v, g)]
    BY DEF MetOK
  <2>1. PICK p, g :
          met = [scene |-> scene, box |-> Body(p), velocity |-> v, dt |-> Collided(scene, Body(p), v, g)]
    BY <2>0
  <2>2. met.scene = scene /\ met.box = Body(p) /\ met.velocity = v
    BY <2>1
  <2>3. /\ \A m \in scene : IsBlock(m)
        /\ v \in Deltas /\ Body(p) \in Boxes
    BY <2>1, MovementAssumption, BodyIsBox
  <2>4. met.dt = MaxDelta(scene, Body(p), v)
    BY <2>2 DEF HasStepped
  <2> QED BY <2>2, <2>3, <2>4, MaxDeltaMoves
<1> QED BY <1>1, MetHolds, PTL
=============================================================================
