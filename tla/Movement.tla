------------------------------- MODULE Movement -------------------------------
(***************************************************************************)
(* The decisions of MovementInput.SimMovement (sim/movement.go:118-201):   *)
(* whether the player flies, its pose, the way it travels, the jump of     *)
(* travelAir (sim/air.go:45-69), stopOnEdge, and the collision.  The       *)
(* travels' velocities are left out, and what the world says (the water,   *)
(* the room above, the ground, the blocks around) is any value at any      *)
(* tick.  A tick goes through the steps of the code in order, each with    *)
(* its part of the input.                                                  *)
(***************************************************************************)
EXTENDS SneakEdge, Collision

CONSTANTS
  W,                    \* 2^64: jumpCooldown is a uint
  PlayerJumpCooldown,   \* 10
  Scenes,               \* sets of blocks around the player, which stands at the origin
  Velocities            \* with which it may collide

ASSUME MovementAssumption ==
  /\ W \in Nat /\ PlayerJumpCooldown \in Nat \ {0}
  /\ PlayerJumpCooldown < W
  /\ Velocities \subseteq Deltas
  /\ \A scene \in Scenes : \A n \in scene : IsBlock(n)

VARIABLES
  step,          \* of the tick: "flight", "pose", "travel", "edge", "ground" or "end"
  pose, flying, onGround, jumpCooldown,
  gameMode,      \* this tick's: "creative", "spectator" or "survival"
  keys,          \* this tick's: "sneak" (with or without sprint), "sprint" or "none"
  room,          \* this tick's: the highest pose whose box is free
  water,         \* this tick's fiuldHeight: "none", "shallow" (up to 1) or "deep"
  met,           \* history: at the end of a tick, its collision
  jumped,        \* history: it has jumped
  held           \* history: travelAir's ticks since jumpCooldown was last reset, up to W

inputVars == <<gameMode, keys, room, water>>
jumpVars == <<jumpCooldown, jumped, held>>
vars == <<step, pose, flying, onGround, met, inputVars, jumpVars, edgeVars>>

Poses == {"standing", "sneaking", "swimming", "crawling", "gliding"}
Rooms == {"standing", "sneaking", "crawling", "nothing"}

Init ==
  /\ step = "flight" /\ pose = "standing" /\ flying = FALSE /\ onGround \in BOOLEAN
  /\ jumpCooldown = 0 /\ jumped = FALSE /\ held = 0
  /\ gameMode = "survival" /\ keys = "none" /\ room = "standing" /\ water = "none"
  /\ met = <<>>
  /\ EdgeInit

\* Mutant: landing does not end the pose.
Flight_KeepsPose(startFlying, stopFlying) ==
  IF startFlying /\ gameMode' # "survival" THEN flying' = TRUE /\ UNCHANGED pose
  ELSE IF stopFlying \/ (gameMode' # "creative" /\ onGround)
  THEN flying' = FALSE /\ UNCHANGED pose
  ELSE UNCHANGED <<flying, pose>>

Flight(startFlying, stopFlying) ==
  IF startFlying /\ gameMode' # "survival" THEN flying' = TRUE /\ UNCHANGED pose
  ELSE IF stopFlying \/ (gameMode' # "creative" /\ onGround)
  THEN flying' = FALSE /\ pose' = "standing"
  ELSE UNCHANGED <<flying, pose>>

\* What the movement starts from: keys, and whether the player flies.
Seed ==
  /\ step = "flight"
  /\ gameMode' \in {"creative", "spectator", "survival"}
  /\ keys' \in {"none", "sneak", "sprint"}
  /\ \E startFlying, stopFlying \in BOOLEAN : Flight(startFlying, stopFlying)
  /\ step' = "pose"
  /\ UNCHANGED <<onGround, met, room, water, jumpVars, edgeVars>>

IsSneak == keys = "sneak"
IsSprint == keys = "sprint"      \* and not sneaking

\* As the code's && and || bind: the deep water does not ask for ~flying.
Swims(p, height) ==
  \/ height = "deep" /\ IsSprint
  \/ p = "swimming" /\ height # "none" /\ IsSprint /\ ~flying

\* chest is "elytra" with a durability of 2 or more, "spent" with none, or "other".
Glides(p, start, chest) ==
  (start \/ p = "gliding") /\ ~onGround /\ chest = "elytra" /\ ~flying

\* The pose for the room that is free, the one before having been p.
PoseIn(free, p) ==
  IF free \in {"sneaking", "crawling"} THEN free
  ELSE IF IsSneak /\ p = "standing" /\ ~flying THEN "sneaking" ELSE "standing"

SetPose ==
  /\ step = "pose"
  /\ water' \in {"none", "shallow", "deep"} /\ room' \in Rooms
  /\ \E chest \in {"elytra", "spent", "other"}, start, stop \in BOOLEAN :
       LET ends == pose = "gliding" /\ (chest = "spent" \/ stop \/ onGround \/ water' # "none")
           p == IF ends THEN "standing" ELSE pose
       IN  pose' = IF Swims(p, water') THEN "swimming"
                   ELSE IF Glides(p, start, chest) THEN "gliding" ELSE PoseIn(room', p)
  /\ step' = "travel"
  /\ UNCHANGED <<flying, onGround, met, gameMode, keys, jumpVars, edgeVars>>

\* Mutant: max(0, ...) of a number that may be negative.
Less_Saturating(n) == IF n = 0 THEN 0 ELSE n - 1

\* max(0, n - 1) of a uint.
Less(n) == (n + W - 1) % W

\* travelAir's jump.  climbs is: in a climbable block.
Jump(climbs, startJumping, isJump) ==
  LET c == Less(jumpCooldown)
      jumps == ~climbs /\ startJumping /\ onGround /\ c = 0
  IN  /\ jumpCooldown' = IF ~isJump THEN 0 ELSE IF jumps THEN PlayerJumpCooldown ELSE c
      /\ jumped' = (jumped \/ jumps)
      /\ held' = IF jumped \/ ~isJump \/ jumps THEN 0 ELSE IF held < W THEN held + 1 ELSE held

\* What follows reads no more of the input.
NoInput == gameMode' = "survival" /\ keys' = "none" /\ room' = "standing" /\ water' = "none"

\* Which of the five travels the player makes.
ByAir(lava) == ~flying /\ water = "none" /\ ~lava /\ pose # "gliding"

\* The travel, and whether stopOnEdge goes beyond its first condition.
Travel ==
  /\ step = "travel"
  /\ \E lava \in BOOLEAN :
       IF ByAir(lava)
       THEN \E climbs, startJumping, isJump \in BOOLEAN : Jump(climbs, startJumping, isJump)
       ELSE UNCHANGED jumpVars
  /\ \/ step' = "ground" /\ UNCHANGED edgeVars
     \/ IsSneak /\ onGround /\ step' = "edge" /\ Enter
  /\ NoInput
  /\ UNCHANGED <<pose, flying, onGround, met>>

\* The velocity that is left is one of those Collide takes up.
StopOnEdge ==
  /\ step = "edge"
  /\ \/ Round /\ UNCHANGED step
     \/ loop = 4 /\ step' = "ground" /\ EdgeOver
  /\ UNCHANGED <<pose, flying, onGround, met, inputVars, jumpVars>>

\* bboxWithPose, a block being two long.
Height(p) == CASE p = "standing" -> 3 [] p = "sneaking" -> 2 [] OTHER -> 1
Body(p) == <<<<0, 0, 0>>, <<1, Height(p), 1>>>>
Feet(box) == <<[box[1] EXCEPT ![2] = @ - 1], [box[2] EXCEPT ![2] = box[1][2]]>>

\* The collision.  Who falls on something is on the ground; who does not move
\* up or down any more is if there is something under its feet.
Collide ==
  /\ step = "ground"
  /\ \E scene \in Scenes, v \in Velocities :
       LET dt == Collided(scene, Body(pose), v, onGround)
           stopped == dt[2] # v[2]
       IN /\ met' = [scene |-> scene, box |-> Body(pose), velocity |-> v, dt |-> dt]
          /\ onGround' = \/ stopped /\ v[2] < 0
                         \/ /\ stopped \/ v[2] = 0
                            /\ IntersectsSolid(scene, Feet(Moved(Body(pose), dt)))
  /\ step' = "end"
  /\ UNCHANGED <<pose, flying, inputVars, jumpVars, edgeVars>>

EndTick ==
  /\ step = "end"
  /\ step' = "flight" /\ met' = <<>>
  /\ UNCHANGED <<pose, flying, onGround, inputVars, jumpVars, edgeVars>>

Next == Seed \/ SetPose \/ Travel \/ StopOnEdge \/ Collide \/ EndTick

Spec == Init /\ [][Next]_vars

-----------------------------------------------------------------------------
\* The first jump waits for a full round of the uint: jumpCooldown starts at 0,
\* and max(0, jumpCooldown-1) is then the greatest uint, so the jump key must be
\* held through W - 1 ticks before it.  With 64 bits the simulated player never jumps
\* (sim/air.go:45-60).
FirstJumpAfterARound == [][~jumped /\ jumped' => held >= W - 1]_vars

\* In survival mode, who holds the sneak key on the ground and has room
\* sneaks, whatever the pose was (elsewhere the pose changes at every tick,
\* since movement.go:152 asks for a standing player and only landing makes one).
SneaksOnGround ==
  step = "travel" /\ keys = "sneak" /\ onGround /\ gameMode = "survival" /\ room = "standing"
    => pose = "sneaking"

\* Who starts clear of the blocks is clear of them after the collision, unless
\* it has tried to step, or a block is higher than its cube: BBoxesInBBox looks
\* into the cubes the box touches, and not below them (movement.go:292-326,
\* 3d.go:47-73).
Clear(scene, box) == \A n \in scene : ~Intersects(box, n.box)
HasStepped(m) == m.dt # MaxDelta(m.scene, m.box, m.velocity)
HasTall(scene) == \E n \in scene : n.box[2][2] > (n.cube[2] + 1) * Side

ClearUnlessStepped ==
  step = "end" /\ Clear(met.scene, met.box) =>
    Clear(met.scene, Moved(met.box, met.dt)) \/ HasStepped(met) \/ HasTall(met.scene)
=============================================================================
