--------------------------------- MODULE Stamp --------------------------------
(***************************************************************************)
(* What a packet tells the anti-cheat of itself: its header, and its time. *)
(* The forwarder sends the time since it started modulo a day              *)
(* (forwarder.go:123-131); a player's handler, which reads the packet      *)
(* later, puts the days back (taker.go:115-122).  The forwarder's clock is *)
(* monotonic.  The taker got the forwarder's time point as microseconds,   *)
(* so it measures with the wall clock, which may be set while the program  *)
(* runs; and it reads that clock twice for a packet, once for the days and *)
(* once for the time of the day.  A unit of the clocks is a microsecond.   *)
(***************************************************************************)
EXTENDS PacketHeader, Sequences

CONSTANTS
  Day,          \* microseconds of a day
  Steps,        \* bound: by how much the clocks go on
  Settings,     \* bound: by how much the wall clock is set
  MaxClock,     \* bound: the forwarder's clock
  MaxInFlight,  \* bound: packets sent and not read
  SomeIDs       \* bound: packet ids

ASSUME StampAssumption ==
  /\ Day \in Nat \ {0} /\ Day <= Micros
  /\ Steps \subseteq Nat /\ Settings \subseteq Int
  /\ SomeIDs \subseteq PacketIDs

VARIABLES
  clock,    \* the forwarder's time.Since(fw.timePoint)
  wall,     \* the taker's time.Since(t.timePoint)
  wire,     \* packets: their header, and (history) what was sent, and when
  reading,  \* the packet whose time is being worked out
  last      \* the packet read last, until the next: what was sent, what is
            \* read, and when (history)

vars == <<clock, wall, wire, reading, last>>

Kinds == {"dio", "client", "server"}

\* PacketData of a packet at a moment; a player's packet has the source its
\* caller gives: 1 for what the client sent, 2 for what the server did.
Header(kind, id, us) ==
  Masked(us % Day, id, kind = "dio",
         IF kind = "dio" THEN 3 ELSE IF kind = "client" THEN 1 ELSE 2)

Nothing == [kind |-> "none"]

Init ==
  /\ clock = 0 /\ wall \in Settings
  /\ wire = <<>>
  /\ reading = Nothing
  /\ last = Nothing

\* Division of Go's integers, which truncates.
Quo(a, b) == IF a >= 0 THEN a \div b ELSE -((-a) \div b)
Rem(a, b) == a - b * Quo(a, b)

\* Mutant: the packet is taken to be of the day on which it is read.
TimeFromOffset_Today(offset, days) == offset + days * Day

\* timeFromOffset, since the time point: days were read before, the time of
\* the day is read now.
TimeFromOffset(offset, days) ==
  offset + (IF offset > Rem(wall, Day) THEN days - 1 ELSE days) * Day

Send(kind, id) ==
  /\ Len(wire) < MaxInFlight
  /\ wire' = Append(wire, [kind |-> kind, id |-> id, at |-> clock,
                           header |-> Write(Header(kind, id, clock))])
  /\ UNCHANGED <<clock, wall, reading, last>>

\* A packet's header is read, and the days since the time point.
Receive ==
  /\ reading = Nothing /\ wire # <<>>
  /\ LET p == Head(wire)  d == Read(p.header) IN
       reading' = [kind |-> p.kind, id |-> p.id, at |-> p.at, began |-> wall,
                   pool |-> Pool(d), packetID |-> d.packetID,
                   offset |-> d.timeOffset, days |-> Quo(wall, Day)]
  /\ last' = Nothing
  /\ wire' = Tail(wire)
  /\ UNCHANGED <<clock, wall>>

\* The clock is read again, for the time of the day, and the packet is dated.
Date ==
  /\ reading # Nothing
  /\ LET r == reading IN
       last' = [kind |-> r.kind, id |-> r.id, at |-> r.at, began |-> r.began, now |-> wall,
                pool |-> r.pool, packetID |-> r.packetID, time |-> TimeFromOffset(r.offset, r.days)]
  /\ reading' = Nothing
  /\ UNCHANGED <<clock, wall, wire>>

\* External: time passes.
Pass(us) ==
  /\ clock + us <= MaxClock
  /\ clock' = clock + us
  /\ wall' = wall + us
  /\ UNCHANGED <<wire, reading, last>>

\* External: the wall clock is set.
Set(us) ==
  /\ wall' = clock + us
  /\ UNCHANGED <<clock, wire, reading, last>>

Next ==
  \/ \E kind \in Kinds, id \in SomeIDs : Send(kind, id)
  \/ Receive
  \/ Date
  \/ \E us \in Steps : Pass(us)
  \/ \E us \in Settings : Set(us)

Spec == Init /\ [][Next]_vars

-----------------------------------------------------------------------------
\* The packet is looked up in the pool it comes from, under its own id: the
\* header comes back as it was written, whatever time it carries (readwrite.go:
\* 16-50, packet.go:46-63).
RightPacket == last # Nothing => last.pool = last.kind /\ last.packetID = last.id

\* How many midnights of the time point lie between the two readings of the
\* clock (taker.go:117, 118): fewer than none when it was set back over one.
Midnights(m) == Quo(m.now, Day) - Quo(m.began, Day)

\* A packet that is read within a day, on clocks that agree so far that it is
\* not read before it was sent, gets the time at which it was sent, whatever
\* midnights of the time point passed on its way; unless midnights fall between
\* the two readings of the clock: it is then a day early for each of them
\* (taker.go:115-122).
RightTime ==
  last # Nothing /\ last.at <= last.now /\ last.now < last.at + Day =>
    last.time = last.at - Midnights(last) * Day

\* Whatever the clocks say, as long as the wall clock is not before the time
\* point, no packet is dated after it is read, nor a day or more before; but
\* for the days it is early when the midnight or a setting of the clock falls
\* between the two readings (taker.go:115-122).
PlausibleTime ==
  last # Nothing /\ last.now >= 0 =>
    LET time == last.time + Midnights(last) * Day IN time <= last.now /\ last.now < time + Day
=============================================================================
