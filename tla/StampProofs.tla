----------------------------- MODULE StampProofs ------------------------------
(***************************************************************************)
(* Theorems of modules PacketHeader and Stamp, for days and headers of any *)
(* size and clocks that go on for ever.  A packet on its way carries the   *)
(* header of what was sent, at the time it was sent; the rest is           *)
(* arithmetic: the three bytes come apart as they were put together, two   *)
(* times less than a day apart have day numbers at most one apart, and the *)
(* midnights between the two readings of the clock are days too few.       *)
(***************************************************************************)
EXTENDS Stamp, TLAPS

\* A multiple is at least as large.
LEMMA Multiple ==
  ASSUME NEW n \in Nat \ {0}, NEW x \in Int, x >= 1
  PROVE  n * x >= n
  BY SMT

\* Division with remainder.
LEMMA Division ==
  ASSUME NEW a \in Int, NEW n \in Nat \ {0}
  PROVE  /\ a \div n \in Int /\ a % n \in 0..(n - 1)
         /\ a = n * (a \div n) + (a % n)
  BY SMT

\* There is but one quotient and one remainder.
LEMMA OneQuotient ==
  ASSUME NEW n \in Nat \ {0}, NEW q \in Int, NEW m \in 0..(n - 1), NEW a \in Int, a = q * n + m
  PROVE  a \div n = q /\ a % n = m
<1> DEFINE k == a \div n
           l == a % n
<1>1. k \in Int /\ l \in 0..(n - 1) /\ a = n * k + l
  BY Division
<1> HIDE DEF k, l
<1>2. n * (q - k) = l - m
  BY <1>1, SMT
<1>3. ~(q - k >= 1)
  <2>1. SUFFICES ASSUME q - k >= 1 PROVE FALSE
    OBVIOUS
  <2>2. n * (q - k) >= n
    BY <2>1, <1>1, Multiple
  <2> QED
    BY <2>2, <1>1, <1>2, SMT
<1>4. ~(k - q >= 1)
  <2>1. SUFFICES ASSUME k - q >= 1 PROVE FALSE
    OBVIOUS
  <2>2. n * (k - q) >= n
    BY <2>1, <1>1, Multiple
  <2>3. n * (k - q) = m - l
    BY <1>1, <1>2, SMT
  <2> QED
    BY <2>2, <2>3, <1>1, SMT
<1>5. k = q
  BY <1>1, <1>3, <1>4, SMT
<1>6. l = m
  BY <1>1, <1>5, SMT
<1> QED
  BY <1>5, <1>6 DEF k, l

\* The divisors of the header's fields are positive.
LEMMA Divisors == 128 * 256 \in Nat \ {0} /\ 256 * 256 \in Nat \ {0}
  BY SMTT(30)

\* What is below the packet id's end does not reach it.
LEMMA LowerPart ==
  ASSUME NEW x \in Int, NEW y \in 0..(128 * 256 - 1)
  PROVE  (128 * 256 * x + y) % (128 * 256) = y
<1> DEFINE n == 128 * 256
<1>1. n \in Nat \ {0} /\ y \in 0..(n - 1)
  BY Divisors, Zenon
<1>2. n * x + y = x * n + y /\ n * x + y \in Int
  BY SMTT(30)
<1> HIDE DEF n
<1>3. (n * x + y) % n = y
  BY <1>1, <1>2, OneQuotient, Zenon
<1> QED
  BY <1>3, Zenon DEF n

\* The five bits of time that share the last three bytes.
LEMMA UpperPart ==
  ASSUME NEW x \in Int, NEW n \in Nat \ {0}, NEW y \in 0..(8 * n - 1)
  PROVE  ((8 * n * x + y) \div n) \div 8 = x
<1> DEFINE q == y \div n
           m == y % n
<1>1. y \in Int /\ q \in Int /\ m \in 0..(n - 1) /\ y = n * q + m
  <2>1. y \in Int
    BY SMT
  <2> QED
    BY <2>1, Division
<1> HIDE DEF q, m
<1>2. ~ (q < 0)
  <2>1. SUFFICES ASSUME q < 0 PROVE FALSE
    OBVIOUS
  <2>2. n * (-q) >= n
    BY <2>1, <1>1, Multiple, SMT
  <2> QED
    BY <1>1, <2>2, SMT
<1>3. ~ (q > 7)
  <2>1. SUFFICES ASSUME q > 7 PROVE FALSE
    OBVIOUS
  <2>2. n * (q - 7) >= n
    BY <2>1, <1>1, Multiple, SMT
  <2> QED
    BY <1>1, <2>2, SMT
<1>4. 8 * n * x + y = (8 * x + q) * n + m /\ 8 * x + q \in Int /\ 8 * n * x + y \in Int
  BY <1>1, SMT
<1>5. (8 * n * x + y) \div n = 8 * x + q
  <2> DEFINE a == 8 * n * x + y
             k == 8 * x + q
  <2>1. a = k * n + m /\ k \in Int /\ a \in Int
    BY <1>4
  <2> HIDE DEF a, k
  <2>2. a \div n = k
    BY <1>1, <2>1, OneQuotient, Zenon
  <2> QED
    BY <2>2, Zenon DEF a, k
<1>6. (8 * x + q) \div 8 = x
  BY <1>1, <1>2, <1>3, SMT
<1> QED
  BY <1>5, <1>6, Zenon

\* The three bytes, put together again.
LEMMA ThreeBytes ==
  ASSUME NEW r \in Int
  PROVE  (r \div (256 * 256)) * 256 * 256 + ((r \div 256) % 256) * 256 + (r % 256) = r
  BY SMT

\* One division for each boundary between two fields.
LEMMA Boundaries ==
  ASSUME NEW x \in Int
  PROVE  /\ \A y \in 0..7 : (8 * x + y) \div 8 = x /\ (8 * x + y) % 8 = y
         /\ \A y \in 0..15 : (16 * x + y) \div 16 = x
         /\ \A y \in 0..1 : (2 * x + y) % 2 = y
<1>1. \A y \in 0..7 : (8 * x + y) \div 8 = x /\ (8 * x + y) % 8 = y
  BY SMT
<1>2. \A y \in 0..15 : (16 * x + y) \div 16 = x
  BY SMT
<1>3. \A y \in 0..1 : (2 * x + y) % 2 = y
  BY SMT
<1> QED
  BY <1>1, <1>2, <1>3

\* What lies under the five bits of time.
LEMMA UnderTheTime ==
  ASSUME NEW id \in 0..(128 * 256 - 1), NEW dio \in 0..1, NEW src \in 0..7
  PROVE  id * 16 + dio * 8 + src >= 0 /\ id * 16 + dio * 8 + src <= 8 * (256 * 256) - 1
<1>1. id \in Int /\ id >= 0 /\ id <= 128 * 256 - 1 /\ dio \in Int /\ dio >= 0 /\ dio <= 1
      /\ src \in Int /\ src >= 0 /\ src <= 7
  BY SMT
<1>2. ASSUME NEW i \in Int, i >= 0, i <= 128 * 256 - 1
      PROVE  i * 16 <= 8 * (256 * 256) - 16 /\ i * 16 >= 0
  BY <1>2, SMTT(30)
<1>3. id * 16 <= 8 * (256 * 256) - 16 /\ id * 16 >= 0
  BY <1>1, <1>2, Zenon
<1> QED
  BY <1>1, <1>3, SMT

\* The number in the last three bytes.
Three(low, id, dio, src) == low * 8 * 256 * 256 + id * 16 + dio * 8 + src

ComesApart(low, id, dio, src) ==
  /\ Three(low, id, dio, src) \in Int
  /\ (Three(low, id, dio, src) \div (256 * 256)) \div 8 = low
  /\ (Three(low, id, dio, src) \div 16) % (128 * 256) = id
  /\ (Three(low, id, dio, src) \div 8) % 2 = dio
  /\ Three(low, id, dio, src) % 8 = src

\* It comes apart into the fields it was put together from.
LEMMA LastThreeBytes ==
  ASSUME NEW low \in 0..31, NEW id \in 0..(128 * 256 - 1), NEW dio \in 0..1, NEW src \in 0..7
  PROVE  ComesApart(low, id, dio, src)
<1> DEFINE r == Three(low, id, dio, src)
           x == 128 * 256 * low + id
           y == 2 * x + dio
           z == dio * 8 + src
           u == id * 16 + dio * 8 + src
<1>1. r \in Int /\ x \in Int /\ y \in Int /\ z \in 0..15 /\ u \in Int /\ low \in Int
  BY SMT DEF Three
<1>2. r = 8 * y + src
  BY SMT DEF Three
<1>3. r = 16 * x + z
  BY SMT DEF Three
<1>4. r = 8 * (256 * 256) * low + u
  BY SMT DEF Three
<1> HIDE DEF r
<1>5. (r \div 16) % (128 * 256) = id
  <2>1. x % (128 * 256) = id
    BY <1>1, LowerPart, ZenonT(60)
  <2> HIDE DEF x, z
  <2>2. r \div 16 = x
    BY <1>1, <1>3, Boundaries, Zenon
  <2> QED
    BY <2>1, <2>2, Zenon
<1>6. (r \div 8) % 2 = dio /\ r % 8 = src
  <2>1. y % 2 = dio
    <3> HIDE DEF x
    <3> QED
      BY <1>1, Boundaries, Zenon
  <2> HIDE DEF y
  <2>2. (8 * y + src) \div 8 = y /\ (8 * y + src) % 8 = src
    BY <1>1, Boundaries, Zenon
  <2> QED
    BY <1>2, <2>1, <2>2, Zenon
<1>7. (r \div (256 * 256)) \div 8 = low
  <2> DEFINE n == 256 * 256
  <2>1. n \in Nat \ {0}
    BY Divisors, Zenon
  <2>2. u \in 0..(8 * n - 1)
    <3>1. u >= 0 /\ u <= 8 * n - 1
      BY UnderTheTime, Zenon
    <3>2. 8 * n - 1 \in Int
      BY SMT
    <3> HIDE DEF u, n
    <3> QED
      BY <1>1, <3>1, <3>2, SMTT(30)
  <2>3. r = 8 * n * low + u
    BY <1>4, Zenon
  <2> HIDE DEF n, u
  <2>4. ((8 * n * low + u) \div n) \div 8 = low
    BY <1>1, <2>1, <2>2, UpperPart, Zenon
  <2> QED
    BY <2>3, <2>4, Zenon DEF n
<1> QED
  BY <1>1, <1>5, <1>6, <1>7, Zenon DEF ComesApart, r

\* PacketData.Read undoes PacketData.Write (readwrite.go:16-50).
THEOREM HeaderRoundTrip ==
  ASSUME NEW d \in Data
  PROVE  Read(Write(d)) = d
<1> DEFINE off == d.timeOffset
           dio == IF d.dioPacket THEN 1 ELSE 0
           low == off % 32
           id == d.packetID
           src == d.source
           r == Three(low, id, dio, src)
<1>1. /\ off \in Nat /\ d.packetID \in 0..(128 * 256 - 1) /\ d.source \in 0..7 /\ d.dioPacket \in BOOLEAN
      /\ d = [timeOffset |-> off, packetID |-> d.packetID,
              dioPacket |-> d.dioPacket, source |-> d.source]
  <2>1. Micros - 1 \in Int
    BY HighAssumption, SMT DEF Micros
  <2>2. \A x \in Int, m \in Int : x \in 0..m => x \in Nat
    OBVIOUS
  <2>3. 0..(Micros - 1) \subseteq Nat
    BY <2>1, SMT
  <2> QED
    BY <2>3, Zenon DEF Data, PacketIDs, Sources
<1>2. low \in 0..31 /\ off \div 32 \in Nat /\ (off \div 32) * 32 + low = off
  <2>1. \A x \in Nat : x % 32 \in 0..31 /\ x \div 32 \in Nat /\ (x \div 32) * 32 + (x % 32) = x
    BY SMT
  <2> QED
    BY <1>1, <2>1, Zenon
<1>3. dio \in 0..1 /\ (dio = 1 <=> d.dioPacket) /\ (IF d.dioPacket THEN 8 ELSE 0) = dio * 8
  <2>1. 0 \in 0..1 /\ 1 \in 0..1 /\ 0 # 1 /\ 1 * 8 = 8 /\ 0 * 8 = 0
    BY SMT
  <2>2. CASE d.dioPacket
    BY <2>1, <2>2, Zenon
  <2>3. CASE ~d.dioPacket
    BY <2>1, <2>3, Zenon
  <2> QED
    BY <2>2, <2>3
<1>4. Rest(d) = r
  <2> HIDE DEF dio
  <2> QED
    BY <1>3, ZenonT(60) DEF Rest, Three
<1> HIDE DEF off, dio, low, id, src, r
<1>5. /\ r \in Int
      /\ (r \div (256 * 256)) \div 8 = low
      /\ (r \div 16) % (128 * 256) = id
      /\ (r \div 8) % 2 = dio
      /\ r % 8 = src
  <2>1. id \in 0..(128 * 256 - 1) /\ src \in 0..7
    BY <1>1, Zenon DEF id, src
  <2>2. low \in 0..31 /\ dio \in 0..1
    BY <1>2, <1>3, Zenon
  <2>3. ComesApart(low, id, dio, src)
    BY <2>1, <2>2, LastThreeBytes, Zenon
  <2> QED
    BY <2>3, Zenon DEF ComesApart, r
<1>6. Read(Write(d)) = [timeOffset |-> (off \div 32) * 32 + low, packetID |-> d.packetID,
                        dioPacket |-> dio = 1, source |-> d.source]
  <2> DEFINE o == off \div 32
             b4 == r \div (256 * 256)
             b5 == (r \div 256) % 256
             b6 == r % 256
  <2>1. Write(d) = [b03 |-> o, b4 |-> b4, b5 |-> b5, b6 |-> b6]
    BY <1>4, Zenon DEF Write, off
  <2>2. b4 * 256 * 256 + b5 * 256 + b6 = r
    BY <1>5, ThreeBytes, ZenonT(60)
  <2>3. b4 \div 8 = low
    BY <1>5, Zenon
  <2> HIDE DEF o, b4, b5, b6
  <2>4. Read([b03 |-> o, b4 |-> b4, b5 |-> b5, b6 |-> b6])
          = [timeOffset |-> o * 32 + low, packetID |-> (r \div 16) % (128 * 256),
             dioPacket |-> (r \div 8) % 2 = 1, source |-> r % 8]
    <3> DEFINE w == [b03 |-> o, b4 |-> b4, b5 |-> b5, b6 |-> b6]
    <3>1. w.b03 = o /\ w.b4 = b4 /\ w.b5 = b5 /\ w.b6 = b6
      BY Zenon
    <3> HIDE DEF w
    <3>2. w.b4 * 256 * 256 + w.b5 * 256 + w.b6 = r /\ w.b03 * 32 + w.b4 \div 8 = o * 32 + low
      BY <2>2, <2>3, <3>1, Zenon
    <3>3. Read(w) = [timeOffset |-> o * 32 + low, packetID |-> (r \div 16) % (128 * 256),
                     dioPacket |-> (r \div 8) % 2 = 1, source |-> r % 8]
      BY <3>2, Zenon DEF Read
    <3> QED
      BY <3>3, Zenon DEF w
  <2> QED
    BY <1>5, <2>1, <2>4, ZenonT(60) DEF o, id, src
<1>7. (dio = 1) = d.dioPacket
  BY <1>1, <1>3, Zenon
<1> QED
  BY <1>1, <1>2, <1>6, <1>7, Zenon

-----------------------------------------------------------------------------
\* What the forwarder puts into a header.
LEMMA HeaderSays ==
  ASSUME NEW k \in Kinds, NEW i \in SomeIDs, NEW t \in Nat
  PROVE  LET d == Header(k, i, t) IN
         d \in Data /\ d.timeOffset = t % Day /\ d.packetID = i /\ Pool(d) = k
<1> DEFINE o == t % Day
           m == IF o > 0 THEN o % Micros ELSE 0
           src == IF k = "dio" THEN 3 ELSE IF k = "client" THEN 1 ELSE 2
<1>1. Day \in Nat \ {0} /\ Micros \in Nat \ {0} /\ Day <= Micros
  <2>1. Micros \in Nat \ {0}
    BY HighAssumption, SMT DEF Micros
  <2> QED
    BY <2>1, StampAssumption, Zenon
<1>2. o \in 0..(Day - 1)
  <2>1. t \in Int
    BY SMT
  <2> QED
    BY <1>1, <2>1, Division, Zenon
<1>3. m = o
  <2> HIDE DEF o
  <2>1. o \in 0..(Micros - 1) /\ o = 0 * Micros + o /\ o \in Int /\ 0 \in Int
    BY <1>1, <1>2, SMT
  <2>2. o % Micros = o
    BY <1>1, <2>1, OneQuotient, ZenonT(60)
  <2>3. ~ (o > 0) => o = 0
    BY <1>2, SMT
  <2> QED
    BY <2>2, <2>3, Zenon
<1>4. i \in PacketIDs /\ i % (128 * 256) = i
  <2>1. i \in PacketIDs
    BY StampAssumption, Zenon
  <2>2. i \in 0..(128 * 256 - 1) /\ 0 \in Int /\ 128 * 256 * 0 + i = i
    <3>1. \A x \in PacketIDs : 128 * 256 * 0 + x = x
      BY SMT DEF PacketIDs
    <3>2. 0 \in Int
      BY SMT
    <3> QED
      BY <2>1, <3>1, <3>2, Zenon DEF PacketIDs
  <2>3. (128 * 256 * 0 + i) % (128 * 256) = i
    BY <2>2, LowerPart, ZenonT(60)
  <2> QED
    BY <2>1, <2>2, <2>3, Zenon
<1>5. /\ src \in {1, 2, 3} /\ src % 8 = src /\ src \in Sources
      /\ (src = 1) = (k = "client")
  <2>1. \A x \in {1, 2, 3} : x % 8 = x /\ x \in Sources
    BY SMT DEF Sources
  <2>2. 2 # 1 /\ 3 # 1
    BY SMT
  <2>3. src \in {1, 2, 3} /\ (src = 1) = (k = "client")
    BY <2>2, Zenon DEF Kinds
  <2> HIDE DEF src
  <2> QED
    BY <2>1, <2>3, Zenon
<1>6. Header(k, i, t) = [timeOffset |-> o, packetID |-> i, dioPacket |-> k = "dio", source |-> src]
  <2>1. Header(k, i, t) = [timeOffset |-> m, packetID |-> i % (128 * 256),
                           dioPacket |-> k = "dio", source |-> src % 8]
    BY Zenon DEF Header, Masked
  <2> HIDE DEF m, o, src
  <2> QED
    BY <1>3, <1>4, <1>5, <2>1, Zenon
<1>7. o \in 0..(Micros - 1)
  <2> HIDE DEF o
  <2> QED
    BY <1>1, <1>2, SMT
<1> HIDE DEF o, src
<1> DEFINE d == Header(k, i, t)
           dio == k = "dio"
<1>8. dio \in BOOLEAN /\ d = [timeOffset |-> o, packetID |-> i, dioPacket |-> dio, source |-> src]
  BY <1>6, Zenon
<1> HIDE DEF d, dio
<1>9. d \in Data
  BY <1>4, <1>5, <1>7, <1>8, Zenon DEF Data
<1>10. d.timeOffset = o /\ d.packetID = i /\ d.dioPacket = dio /\ d.source = src
  BY <1>8, Zenon
<1>11. Pool(d) = k
  <2>1. CASE dio
    BY <1>10, <2>1, Zenon DEF Pool, dio
  <2>2. CASE ~dio
    BY <1>5, <1>10, <2>2, Zenon DEF Pool, Kinds, dio
  <2> QED
    BY <2>1, <2>2
<1> QED
  BY <1>9, <1>10, <1>11, Zenon DEF o, d

\* Division of an integer, as Go does it, gives one.
LEMMA QuoInt ==
  ASSUME NEW a \in Int
  PROVE  Quo(a, Day) \in Int
<1>1. Day \in Nat \ {0} /\ -a \in Int
  BY StampAssumption, SMT
<1>2. a \div Day \in Int /\ (-a) \div Day \in Int
  BY <1>1, Division, Zenon
<1>3. -((-a) \div Day) \in Int
  BY <1>2, SMT
<1> QED
  BY <1>2, <1>3, Zenon DEF Quo

\* The days missing in the first reading are missing in the time.
LEMMA DaysTooFew ==
  ASSUME NEW o \in Int, NEW days \in Int, wall \in Int
  PROVE  TimeFromOffset(o, days) = TimeFromOffset(o, Quo(wall, Day)) - (Quo(wall, Day) - days) * Day
<1> DEFINE q == Quo(wall, Day)
           c == o > Rem(wall, Day)
<1>1. q \in Int /\ Day \in Int
  BY QuoInt, StampAssumption, SMT
<1>2. TimeFromOffset(o, days) = o + (IF c THEN days - 1 ELSE days) * Day
      /\ TimeFromOffset(o, q) = o + (IF c THEN q - 1 ELSE q) * Day
  BY Zenon DEF TimeFromOffset
<1> HIDE DEF q, c
<1>3. CASE c
  <2>1. TimeFromOffset(o, days) = o + (days - 1) * Day /\ TimeFromOffset(o, q) = o + (q - 1) * Day
    BY <1>2, <1>3, Zenon
  <2>2. o + (days - 1) * Day = (o + (q - 1) * Day) - (q - days) * Day
    BY <1>1, SMT
  <2> QED
    BY <2>1, <2>2, Zenon DEF q
<1>4. CASE ~c
  <2>1. TimeFromOffset(o, days) = o + days * Day /\ TimeFromOffset(o, q) = o + q * Day
    BY <1>2, <1>4, Zenon
  <2>2. o + days * Day = (o + q * Day) - (q - days) * Day
    BY <1>1, SMT
  <2> QED
    BY <2>1, <2>2, Zenon DEF q
<1> QED
  BY <1>3, <1>4

\* Sent less than a day before it is read, a packet gets its time back when
\* the two readings are of one day.
LEMMA ExactTime ==
  ASSUME NEW at \in Nat, wall \in Int, at <= wall, wall < at + Day
  PROVE  TimeFromOffset(at % Day, Quo(wall, Day)) = at
<1> DEFINE qa == at \div Day
           ra == at % Day
           qw == wall \div Day
           rw == wall % Day
<1>1. Day \in Nat \ {0} /\ at \in Int /\ wall >= 0
  BY StampAssumption, SMT
<1>2. /\ qa \in Int /\ ra \in 0..(Day - 1) /\ at = Day * qa + ra
      /\ qw \in Int /\ rw \in 0..(Day - 1) /\ wall = Day * qw + rw
  BY <1>1, Division, Zenon
<1>3. Quo(wall, Day) = qw /\ Rem(wall, Day) = rw
  <2>1. Quo(wall, Day) = qw
    BY <1>1, Zenon DEF Quo
  <2> HIDE DEF qw, rw
  <2>2. Rem(wall, Day) = wall - Day * qw
    BY <2>1, Zenon DEF Rem
  <2> QED
    BY <1>1, <1>2, <2>1, <2>2, SMT
<1>4. TimeFromOffset(ra, Quo(wall, Day)) = ra + (IF ra > rw THEN qw - 1 ELSE qw) * Day
  BY <1>3, Zenon DEF TimeFromOffset
<1> HIDE DEF qa, ra, qw, rw
<1>5. (qw = qa /\ ~(ra > rw)) \/ (qw = qa + 1 /\ ra > rw)
  <2>1. ~ (qw - qa < 0)
    <3>1. SUFFICES ASSUME qw - qa < 0 PROVE FALSE
      OBVIOUS
    <3>2. qa - qw \in Int /\ qa - qw >= 1
      BY <1>2, <3>1, SMT
    <3>3. Day * (qa - qw) >= Day
      BY <1>1, <3>2, Multiple, Zenon
    <3> QED
      BY <1>1, <1>2, <3>3, SMT
  <2>2. ~ (qw - qa > 1)
    <3>1. SUFFICES ASSUME qw - qa > 1 PROVE FALSE
      OBVIOUS
    <3>2. qw - qa - 1 \in Int /\ qw - qa - 1 >= 1
      BY <1>2, <3>1, SMT
    <3>3. Day * (qw - qa - 1) >= Day
      BY <1>1, <3>2, Multiple, Zenon
    <3> QED
      BY <1>1, <1>2, <3>3, SMT
  <2>3. qw = qa \/ qw = qa + 1
    BY <1>2, <2>1, <2>2, SMT
  <2>4. CASE qw = qa
    BY <1>1, <1>2, <2>4, SMT
  <2>5. CASE qw = qa + 1
    <3>1. Day * (qa + 1) = Day * qa + Day
      BY <1>1, <1>2, SMT
    <3> QED
      BY <1>1, <1>2, <2>5, <3>1, SMT
  <2> QED
    BY <2>3, <2>4, <2>5
<1>6. TimeFromOffset(ra, Quo(wall, Day)) = ra + qa * Day
  <2>1. (qa + 1) - 1 = qa
    BY <1>2, SMT
  <2> QED
    BY <1>4, <1>5, <2>1, Zenon
<1>7. TimeFromOffset(ra, Quo(wall, Day)) = at
  <2>1. ra + qa * Day = at
    BY <1>1, <1>2, SMT
  <2> QED
    BY <1>6, <2>1, Zenon
<1> QED
  BY <1>7, Zenon DEF ra

\* The day is chosen so that the time is none of the future.
LEMMA NotFuture ==
  ASSUME NEW o \in 0..(Day - 1), wall \in Int, wall >= 0
  PROVE  TimeFromOffset(o, Quo(wall, Day)) <= wall /\ wall < TimeFromOffset(o, Quo(wall, Day)) + Day
<1> DEFINE qw == wall \div Day
           rw == wall % Day
<1>1. Day \in Nat \ {0}
  BY StampAssumption, Zenon
<1>2. qw \in Int /\ rw \in 0..(Day - 1) /\ wall = Day * qw + rw
  BY <1>1, Division, Zenon
<1>3. Quo(wall, Day) = qw /\ Rem(wall, Day) = rw
  <2>1. Quo(wall, Day) = qw
    BY <1>1, Zenon DEF Quo
  <2> HIDE DEF qw, rw
  <2>2. Rem(wall, Day) = wall - Day * qw
    BY <2>1, Zenon DEF Rem
  <2> QED
    BY <1>1, <1>2, <2>1, <2>2, SMT
<1>4. TimeFromOffset(o, Quo(wall, Day)) = o + (IF o > rw THEN qw - 1 ELSE qw) * Day
  BY <1>3, Zenon DEF TimeFromOffset
<1> HIDE DEF qw, rw
<1>5. CASE o > rw
  <2>1. TimeFromOffset(o, Quo(wall, Day)) = o + (qw - 1) * Day
    BY <1>4, <1>5, Zenon
  <2>2. (qw - 1) * Day = Day * qw - Day
    BY <1>1, <1>2, SMT
  <2> QED
    BY <1>1, <1>2, <1>5, <2>1, <2>2, SMT
<1>6. CASE ~(o > rw)
  <2>1. TimeFromOffset(o, Quo(wall, Day)) = o + qw * Day
    BY <1>4, <1>6, Zenon
  <2>2. qw * Day = Day * qw
    BY <1>1, <1>2, SMT
  <2> QED
    BY <1>1, <1>2, <1>6, <2>1, <2>2, SMT
<1> QED
  BY <1>5, <1>6

-----------------------------------------------------------------------------
\* A packet on its way.
Packet(k, i, t) == [kind |-> k, id |-> i, at |-> t, header |-> Write(Header(k, i, t))]
Packets == {Packet(k, i, t) : k \in Kinds, i \in SomeIDs, t \in Nat}

\* A packet whose header was read, when the clock showed b.
Reading(k, i, t, b) ==
  [kind |-> k, id |-> i, at |-> t, began |-> b, pool |-> k, packetID |-> i,
   offset |-> t % Day, days |-> Quo(b, Day)]
Readings == {Reading(k, i, t, b) : k \in Kinds, i \in SomeIDs, t \in Nat, b \in Int}

OnTheWay ==
  /\ clock \in Nat /\ wall \in Int /\ wire \in Seq(Packets)
  /\ reading = Nothing \/ reading \in Readings

Inv == OnTheWay /\ RightPacket /\ RightTime /\ PlausibleTime

\* Whatever is taken up, its header is read right.
LEMMA ReceiveRight ==
  ASSUME OnTheWay, Receive
  PROVE  reading' \in Readings
<1>1. PICK k \in Kinds, i \in SomeIDs, t \in Nat : Head(wire) = Packet(k, i, t)
  <2>1. \A w \in Seq(Packets) : w # <<>> => Head(w) \in Packets
    BY SMT
  <2>2. Head(wire) \in Packets
    BY <2>1, Zenon DEF OnTheWay, Receive
  <2> QED
    BY <2>2, SMT DEF Packets
<1> DEFINE d == Header(k, i, t)
<1>2. d \in Data /\ d.timeOffset = t % Day /\ d.packetID = i /\ Pool(d) = k
  BY HeaderSays, Zenon
<1>3. Read(Packet(k, i, t).header) = d
  BY <1>2, HeaderRoundTrip, Zenon DEF Packet
<1> HIDE DEF d
<1>4. reading' = Reading(k, i, t, wall)
  <2>1. Packet(k, i, t).kind = k /\ Packet(k, i, t).id = i /\ Packet(k, i, t).at = t
    BY Zenon DEF Packet
  <2> QED
    BY <1>1, <1>2, <1>3, <2>1, Zenon DEF Receive, Reading
<1>5. wall \in Int
  BY Zenon DEF OnTheWay
<1> HIDE DEF d
<1> QED
  BY <1>4, <1>5, SMT DEF Readings

\* And it is dated right, but for the midnights between the readings.
LEMMA DateRight ==
  ASSUME OnTheWay, Date
  PROVE  RightPacket' /\ RightTime' /\ PlausibleTime'
<1>1. PICK k \in Kinds, i \in SomeIDs, t \in Nat, b \in Int : reading = Reading(k, i, t, b)
  <2>1. reading \in Readings
    BY Zenon DEF OnTheWay, Date
  <2> QED
    BY <2>1, SMT DEF Readings
<1> DEFINE q == Quo(wall, Day)
           x == Quo(b, Day)
           time == TimeFromOffset(t % Day, x)
<1>2. last' = [kind |-> k, id |-> i, at |-> t, began |-> b, now |-> wall,
               pool |-> k, packetID |-> i, time |-> time]
  <2>1. /\ reading.kind = k /\ reading.id = i /\ reading.at = t /\ reading.began = b
        /\ reading.pool = k /\ reading.packetID = i
        /\ reading.offset = t % Day /\ reading.days = x
    BY <1>1, Zenon DEF Reading
  <2> QED
    BY <2>1, Zenon DEF Date
<1>3. /\ last'.kind = k /\ last'.id = i /\ last'.at = t /\ last'.began = b /\ last'.now = wall
      /\ last'.pool = k /\ last'.packetID = i /\ last'.time = time
  BY <1>2, Zenon
<1>4. t \in Nat /\ wall \in Int /\ Day \in Nat \ {0} /\ q \in Int /\ x \in Int
  BY QuoInt, StampAssumption, Zenon DEF OnTheWay
<1>5. t % Day \in 0..(Day - 1) /\ t % Day \in Int
  <2>1. t \in Int
    BY <1>4, SMT
  <2>2. t % Day \in 0..(Day - 1)
    BY <1>4, <2>1, Division, Zenon
  <2> HIDE DEF q, x, time
  <2> QED
    BY <1>4, <2>2, SMT
<1>6. time = TimeFromOffset(t % Day, q) - (q - x) * Day
  BY <1>4, <1>5, DaysTooFew, Zenon
<1>7. RightPacket'
  BY <1>3, Zenon DEF RightPacket
<1>8. RightTime'
  <2>1. ASSUME t <= wall, wall < t + Day PROVE time = t - (q - x) * Day
    BY <1>4, <1>6, <2>1, ExactTime, Zenon
  <2>2. Midnights(last)' = q - x
    BY <1>3, Zenon DEF Midnights
  <2> QED
    BY <1>3, <2>1, <2>2, Zenon DEF RightTime
<1>9. PlausibleTime'
  <2> DEFINE then == TimeFromOffset(t % Day, q)
  <2>1. ASSUME wall >= 0
        PROVE  then <= wall /\ wall < then + Day
    BY <1>4, <1>5, <2>1, NotFuture, Zenon
  <2>2. then \in Int
    <3>1. then = (t % Day) + (IF (t % Day) > Rem(wall, Day) THEN q - 1 ELSE q) * Day
      BY Zenon DEF TimeFromOffset
    <3>2. (IF (t % Day) > Rem(wall, Day) THEN q - 1 ELSE q) \in Int
      <4> HIDE DEF q
      <4> QED
        BY <1>4, SMT
    <3> HIDE DEF then, q
    <3> QED
      BY <1>4, <1>5, <3>1, <3>2, SMT
  <2>3. time + (q - x) * Day = then
    <3> HIDE DEF then, time, q, x
    <3>1. time = then - (q - x) * Day
      BY <1>6, Zenon DEF then
    <3>2. (q - x) * Day \in Int
      BY <1>4, SMT
    <3> QED
      BY <2>2, <3>1, <3>2, SMT
  <2>4. Midnights(last)' = q - x
    BY <1>3, Zenon DEF Midnights
  <2> HIDE DEF then, time, q, x
  <2> QED
    BY <1>3, <2>1, <2>3, <2>4, Zenon DEF PlausibleTime
<1> QED
  BY <1>7, <1>8, <1>9

LEMMA InvInit == Init => Inv
<1> SUFFICES ASSUME Init PROVE Inv
  OBVIOUS
<1>1. OnTheWay
  <2>1. clock \in Nat /\ wall \in Int /\ wire \in Seq(Packets)
    BY StampAssumption, SMT DEF Init
  <2> QED
    BY <2>1, Zenon DEF Init, OnTheWay
<1>2. last = Nothing
  BY Zenon DEF Init
<1> QED
  BY <1>1, <1>2, Zenon DEF Inv, RightPacket, RightTime, PlausibleTime

LEMMA InvNext == Inv /\ [Next]_vars => Inv'
<1> SUFFICES ASSUME Inv, [Next]_vars PROVE Inv'
  OBVIOUS
<1>0. OnTheWay
  BY Zenon DEF Inv
<1>1. ASSUME last' = last PROVE RightPacket' /\ RightTime' /\ PlausibleTime'
  BY <1>1, Zenon DEF Inv, RightPacket, RightTime, PlausibleTime
<1>2. ASSUME NEW k \in Kinds, NEW i \in SomeIDs, Send(k, i) PROVE Inv'
  <2>1. Packet(k, i, clock) \in Packets
    BY <1>0, SMT DEF OnTheWay, Packets
  <2>2. wire' = Append(wire, Packet(k, i, clock)) /\ clock' = clock /\ wall' = wall
        /\ reading' = reading /\ last' = last
    BY <1>2, Zenon DEF Send, Packet
  <2>3. \A w \in Seq(Packets), p \in Packets : Append(w, p) \in Seq(Packets)
    BY SMT
  <2>4. OnTheWay'
    BY <1>0, <2>1, <2>2, <2>3, Zenon DEF OnTheWay
  <2> QED
    BY <1>1, <2>2, <2>4, Zenon DEF Inv
<1>3. ASSUME Receive PROVE Inv'
  <2>1. \A w \in Seq(Packets) : w # <<>> => Tail(w) \in Seq(Packets)
    BY SMT
  <2>2. reading' \in Readings
    BY <1>0, <1>3, ReceiveRight, Zenon
  <2>3. OnTheWay'
    BY <1>0, <1>3, <2>1, <2>2, Zenon DEF OnTheWay, Receive
  <2>4. last' = Nothing
    BY <1>3, Zenon DEF Receive
  <2> QED
    BY <2>3, <2>4, Zenon DEF Inv, RightPacket, RightTime, PlausibleTime
<1>4. ASSUME Date PROVE Inv'
  <2>1. OnTheWay'
    BY <1>0, <1>4, Zenon DEF OnTheWay, Date
  <2> QED
    BY <1>0, <1>4, <2>1, DateRight, Zenon DEF Inv
<1>5. ASSUME NEW us \in Steps, Pass(us) PROVE Inv'
  <2>1. clock + us \in Nat /\ wall + us \in Int
    BY <1>0, StampAssumption, SMT DEF OnTheWay
  <2>2. OnTheWay' /\ last' = last
    BY <1>0, <1>5, <2>1, Zenon DEF OnTheWay, Pass
  <2> QED
    BY <1>1, <2>2, Zenon DEF Inv
<1>6. ASSUME NEW us \in Settings, Set(us) PROVE Inv'
  <2>1. clock + us \in Int
    BY <1>0, StampAssumption, SMT DEF OnTheWay
  <2>2. OnTheWay' /\ last' = last
    BY <1>0, <1>6, <2>1, Zenon DEF OnTheWay, Set
  <2> QED
    BY <1>1, <2>2, Zenon DEF Inv
<1>7. ASSUME UNCHANGED vars PROVE Inv'
  <2>1. OnTheWay' /\ last' = last
    BY <1>0, <1>7, Zenon DEF OnTheWay, vars
  <2> QED
    BY <1>1, <2>1, Zenon DEF Inv
<1> QED
  BY <1>2, <1>3, <1>4, <1>5, <1>6, <1>7, Zenon DEF Next

\* Every packet is looked up where it belongs, under its own id (readwrite.go:
\* 16-50, packet.go:46-63).
THEOREM PacketsAreRecognised == Spec => []RightPacket
<1>1. Inv => RightPacket
  BY DEF Inv
<1> QED
  BY InvInit, InvNext, <1>1, PTL DEF Spec

\* The time of a packet read within a day is the time it was sent, less a day
\* for every midnight between the two readings of the clock (taker.go:115-122).
THEOREM TimesAreExact == Spec => []RightTime
<1>1. Inv => RightTime
  BY DEF Inv
<1> QED
  BY InvInit, InvNext, <1>1, PTL DEF Spec

\* But for such midnights, no packet is dated after it is read, nor a day
\* before, whatever the clocks say (taker.go:115-122).
THEOREM TimesArePlausible == Spec => []PlausibleTime
<1>1. Inv => PlausibleTime
  BY DEF Inv
<1> QED
  BY InvInit, InvNext, <1>1, PTL DEF Spec
=============================================================================
