----------------------------- MODULE PacketHeader -----------------------------
(***************************************************************************)
(* The seven bytes in front of every packet (readwrite.go:9-50): 37 bits   *)
(* of microseconds, 15 of packet id, one that tells the own packets and    *)
(* three of source.  They are put together as a 32-bit number, the first   *)
(* four bytes, and a 24-bit number, the last three, which share the time   *)
(* 32 to 5.  A shift is a product or a quotient, and the ors are sums,     *)
(* their operands having no bit in common.                                 *)
(***************************************************************************)
EXTENDS Integers

CONSTANT High      \* 2^32: what the first four bytes can tell apart

ASSUME HighAssumption == High \in Nat \ {0}

Micros == High * 32
PacketIDs == 0..(128 * 256 - 1)
Sources == 0..7

Data == [timeOffset : 0..(Micros - 1), packetID : PacketIDs, dioPacket : BOOLEAN, source : Sources]

\* Mutant: the packet id is shifted by one bit less.
Rest_Overlap(d) ==
  (d.timeOffset % 32) * 8 * 256 * 256 + d.packetID * 8 + (IF d.dioPacket THEN 8 ELSE 0) + d.source

Rest(d) ==
  (d.timeOffset % 32) * 8 * 256 * 256 + d.packetID * 16 + (IF d.dioPacket THEN 8 ELSE 0) + d.source

\* What the masks leave of any values.
Masked(us, id, dio, src) ==
  [timeOffset |-> IF us > 0 THEN us % Micros ELSE 0, packetID |-> id % (128 * 256),
   dioPacket |-> dio, source |-> src % 8]

\* PacketData.Write: bytes 0 to 3 as one number, then bytes 4, 5 and 6.
Write(d) ==
  LET r == Rest(d)
  IN  [b03 |-> d.timeOffset \div 32, b4 |-> r \div (256 * 256), b5 |-> (r \div 256) % 256, b6 |-> r % 256]

\* PacketData.Read.
Read(b) ==
  LET r == b.b4 * 256 * 256 + b.b5 * 256 + b.b6
  IN  [timeOffset |-> b.b03 * 32 + b.b4 \div 8, packetID |-> (r \div 16) % (128 * 256),
       dioPacket |-> (r \div 8) % 2 = 1, source |-> r % 8]

\* packetByHeader: where the packet's type is looked up.
Pool(d) ==
  IF d.dioPacket THEN "dio" ELSE IF d.source = 1 THEN "client" ELSE "server"
=============================================================================
