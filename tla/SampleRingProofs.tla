-------------------------- MODULE SampleRingProofs --------------------------
(***************************************************************************)
(* Proofs about SampleRing.tla, for every size of the ring, decimation,    *)
(* grain of the clock, lengths of the buffers and errors of the clock.     *)
(***************************************************************************)
EXTENDS SampleRing, TLAPS

(* Division with remainder.                                                *)
LEMMA ModRange ==
  ASSUME NEW a \in Int, NEW b \in Nat \ {0}
  PROVE  a % b \in 0 .. b - 1
BY SMT

LEMMA DivMod ==
  ASSUME NEW a \in Int, NEW b \in Nat \ {0}
  PROVE  a \div b \in Int /\ a = b * (a \div b) + (a % b)
BY SMT

LEMMA OnlyZero ==
  ASSUME NEW b \in Nat \ {0}, NEW q \in Int, NEW r \in Int, b * q + r = 0, -b < r, r < b
  PROVE  q = 0 /\ r = 0
BY SMT

(* A remainder is the only number of its range that differs from the       *)
(* dividend by a multiple of the divisor.                                  *)
LEMMA Remainder ==
  ASSUME NEW a \in Int, NEW b \in Nat \ {0}, NEW q \in Int, NEW r \in 0 .. b - 1,
         a = b * q + r
  PROVE  a % b = r
<1>1. a \div b \in Int /\ a = b * (a \div b) + (a % b)
  BY DivMod
<1>2. a % b \in 0 .. b - 1
  BY ModRange
<1> DEFINE d == (a \div b) - q
<1>3. d \in Int /\ b * d + ((a % b) - r) = 0
  <2>1. b * d = b * (a \div b) - b * q
    BY <1>1
  <2> QED
    BY <1>1, <1>2, <2>1
<1>4. (a % b) - r \in Int /\ -b < (a % b) - r /\ (a % b) - r < b
  BY <1>2
<1> QED
  BY <1>2, <1>3, <1>4, OnlyZero

LEMMA FloorSum ==
  ASSUME NEW a \in Nat, NEW b \in Nat, NEW d \in Nat \ {0}
  PROVE  /\ a \div d \in Nat /\ b \div d \in Nat
         /\ (a + b) \div d \in (a \div d) + (b \div d) .. (a \div d) + (b \div d) + 1
<1>1. /\ a = d * (a \div d) + (a % d) /\ b = d * (b \div d) + (b % d)
      /\ a + b = d * ((a + b) \div d) + ((a + b) % d)
      /\ a \div d \in Int /\ b \div d \in Int /\ (a + b) \div d \in Int
  BY DivMod
<1>2. a % d \in 0 .. d - 1 /\ b % d \in 0 .. d - 1 /\ (a + b) % d \in 0 .. d - 1
  BY ModRange
<1> DEFINE q == ((a + b) \div d) - (a \div d) - (b \div d)
<1>3. d * q = (a % d) + (b % d) - ((a + b) % d)
  BY <1>1, <1>2
<1>4. q \in 0 .. 1
  <2>1. -d < d * q /\ d * q < 2 * d
    BY <1>2, <1>3
  <2> QED
    BY <1>1, <2>1
<1>5. a \div d >= 0 /\ b \div d >= 0
  BY <1>1, <1>2
<1> QED
  BY <1>1, <1>4, <1>5

(* Adding multiples of the divisor adds to the quotient alone.             *)
LEMMA DivShift ==
  ASSUME NEW a \in Nat, NEW k \in Nat, NEW d \in Nat \ {0}
  PROVE  (a + k * d) \div d = (a \div d) + k
<1>1. k * d \in Nat /\ a + k * d \in Nat /\ d * k = k * d
  OBVIOUS
<1>2. a \div d \in Int /\ a = d * (a \div d) + (a % d)
  BY DivMod
<1>3. (a + k * d) \div d \in Int
      /\ a + k * d = d * ((a + k * d) \div d) + ((a + k * d) % d)
  BY <1>1, DivMod
<1>4. a % d \in 0 .. d - 1 /\ (a + k * d) % d \in 0 .. d - 1
  BY <1>1, ModRange
<1> DEFINE q == ((a + k * d) \div d) - (a \div d) - k
           r == ((a + k * d) % d) - (a % d)
<1>5. d * q + r = 0
  <2>1. d * q = d * ((a + k * d) \div d) - d * (a \div d) - d * k
    BY <1>2, <1>3
  <2> QED
    BY <1>1, <1>2, <1>3, <1>4, <2>1
<1>6. q \in Int /\ r \in Int /\ -d < r /\ r < d
  BY <1>2, <1>3, <1>4
<1> HIDE DEF q, r
<1>7. q = 0
  BY <1>5, <1>6, OnlyZero
<1> QED
  BY <1>2, <1>3, <1>7 DEF q

(* Two numbers differ by a multiple of the divisor and their remainders.    *)
LEMMA Congruence ==
  ASSUME NEW x \in Int, NEW y \in Int, NEW b \in Nat \ {0}
  PROVE  \E q \in Int : b * q = (x - (x % b)) - (y - (y % b))
<1>1. x \div b \in Int /\ x = b * (x \div b) + (x % b) /\ x % b \in Int
  BY DivMod, ModRange
<1>2. y \div b \in Int /\ y = b * (y \div b) + (y % b) /\ y % b \in Int
  BY DivMod, ModRange
<1> WITNESS (x \div b) - (y \div b) \in Int
<1>3. ASSUME NEW d \in Int, NEW e \in Int, NEW r \in Int, NEW s \in Int,
             x = b * d + r, y = b * e + s
      PROVE  b * (d - e) = (x - r) - (y - s)
  BY <1>3
<1> QED
  BY <1>1, <1>2, <1>3

(* Two numbers with the same remainder are the same or a lap apart.        *)
LEMMA NoLap ==
  ASSUME NEW x \in Int, NEW y \in Int, NEW b \in Nat \ {0}, x % b = y % b, x < y + b
  PROVE  x <= y
<1>1. PICK q \in Int : b * q = (x - (x % b)) - (y - (y % b))
  BY Congruence
<1>2. x % b \in Int /\ y % b \in Int
  BY ModRange
<1>3. ASSUME NEW r \in Int, b * q = (x - r) - (y - r)
      PROVE  b * q = x - y
  BY <1>3
<1>4. b * q = x - y
  BY <1>1, <1>2, <1>3
<1>5. q <= 0
  <2>1. SUFFICES ASSUME q >= 1 PROVE FALSE
    OBVIOUS
  <2>2. b * q >= b
    BY <2>1
  <2> QED
    BY <1>4, <2>2
<1>6. b * q <= 0
  BY <1>5
<1> QED
  BY <1>4, <1>6

(* How far one slot is behind another.                                     *)
LEMMA Distance ==
  ASSUME NEW a \in Int, NEW x \in Int, NEW b \in Nat \ {0}, x - a \in 0 .. b - 1
  PROVE  ((x % b) - (a % b)) % b = x - a
<1>1. PICK q \in Int : b * q = (a - (a % b)) - (x - (x % b))
  BY Congruence
<1>2. x % b \in Int /\ a % b \in Int
  BY ModRange
<1>3. ASSUME NEW r \in Int, NEW s \in Int, b * q = (a - s) - (x - r)
      PROVE  r - s = b * q + (x - a)
  BY <1>3
<1>4. (x % b) - (a % b) = b * q + (x - a)
  BY <1>1, <1>2, <1>3
<1> QED
  BY <1>2, <1>4, Remainder

(* A remainder may be taken before a number is added.                      *)
LEMMA ModPlus ==
  ASSUME NEW a \in Int, NEW d \in Int, NEW b \in Nat \ {0}
  PROVE  ((a % b) + d) % b = (a + d) % b
<1>1. a \div b \in Int /\ a = b * (a \div b) + (a % b) /\ a % b \in Int
  BY DivMod, ModRange
<1>2. ASSUME NEW q \in Int, NEW r \in Int, a = b * q + r
      PROVE  (r + d) % b = (a + d) % b
  <2>1. PICK x \in Int : x = a + d
    OBVIOUS
  <2>2. PICK y \in Int : y = r + d
    OBVIOUS
  <2>3. PICK e \in Int, s \in 0 .. b - 1 : x = b * e + s /\ s = x % b
    BY DivMod, ModRange
  <2>4. PICK f \in Int : f = e - q
    OBVIOUS
  <2>5. y = b * f + s
    <3>1. x = b * e + s
      BY <2>3
    <3> QED
      BY <1>2, <2>1, <2>2, <2>4, <3>1
  <2>6. y % b = s
    BY <2>5, Remainder
  <2> QED
    BY <2>1, <2>2, <2>3, <2>6
<1> QED
  BY <1>1, <1>2

(* And the slot that is so far behind.                                     *)
LEMMA Behind ==
  ASSUME NEW a \in Int, NEW b \in Nat \ {0}, NEW p \in 0 .. b - 1
  PROVE  (a + ((p - (a % b)) % b)) % b = p
<1>1. PICK r \in Int : r = a % b
  BY ModRange
<1>2. a \div b \in Int /\ a = b * (a \div b) + r
  BY <1>1, DivMod
<1>3. ASSUME NEW q \in Int, a = b * q + r
      PROVE  (p - r) + a = b * q + p
  BY <1>3
<1>4. ((p - r) + a) % b = p
  <2>1. ASSUME NEW q \in Int, NEW z \in Int, z = b * q + p
        PROVE  z % b = p
    BY <2>1, Remainder
  <2> QED
    BY <1>2, <1>3, <2>1
<1>5. (((p - r) % b) + a) % b = ((p - r) + a) % b
  <2>1. p - r \in Int
    OBVIOUS
  <2> QED
    BY <2>1, ModPlus, Zenon
<1>6. (p - r) % b \in Int
  <2>1. ASSUME NEW z \in Int
        PROVE  z % b \in Int
    BY <2>1, ModRange
  <2> QED
    BY <2>1
<1>7. ASSUME NEW z \in Int
      PROVE  z + a = a + z
  BY <1>7
<1> QED
  BY <1>1, <1>4, <1>5, <1>6, <1>7

(* The size of the ring is added before the length of the buffer is taken  *)
(* away, and the remainder taken twice: that makes no difference.          *)
LEMMA PlaceIs ==
  ASSUME NEW end \in Int, NEW n \in Nat
  PROVE  Place(end, n) = (end - n) % RingSize
<1>1. RingSize \in Nat \ {0}
  BY RingAssumption
<1>2. PICK x \in Int, m \in 0 .. RingSize - 1 : end = RingSize * x + m /\ m = end % RingSize
  BY <1>1, DivMod, ModRange
<1>3. PICK u \in Int, v \in Int : u = m + RingSize - n /\ v = end - n
  BY <1>1, <1>2
<1>4. PICK y \in Int, r \in 0 .. RingSize - 1 : v = RingSize * y + r /\ r = v % RingSize
  BY <1>1, DivMod, ModRange
<1>5. PICK w \in Int : w = y + 1 - x
  OBVIOUS
<1>6. RingSize * w = RingSize * y + RingSize - RingSize * x
  BY <1>1, <1>5
<1>7. u = RingSize * w + r
  <2>1. v = RingSize * y + r /\ end = RingSize * x + m
    BY <1>2, <1>4
  <2>2. RingSize * y \in Int /\ RingSize * x \in Int /\ RingSize * w \in Int
    BY <1>1
  <2> QED
    BY <1>1, <1>3, <1>6, <2>1, <2>2
<1>8. u % RingSize = r
  BY <1>1, <1>7, Remainder
<1> QED
  BY <1>2, <1>3, <1>4, <1>8 DEF Place

LEMMA DivBelow ==
  ASSUME NEW a \in Nat, NEW d \in Nat \ {0}
  PROVE  a \div d \in 0 .. a
<1>1. a \div d \in Int /\ a = d * (a \div d) + (a % d) /\ a % d \in 0 .. d - 1
  BY DivMod, ModRange
<1>2. a \div d >= 0
  BY <1>1
<1>3. d * (a \div d) >= a \div d
  BY <1>1, <1>2
<1> QED
  BY <1>1, <1>2, <1>3

LEMMA AddLap ==
  ASSUME NEW a \in Int, NEW b \in Nat \ {0}
  PROVE  (a + b) % b = a % b
<1>1. PICK q \in Int, r \in 0 .. b - 1 : a = b * q + r /\ r = a % b
  BY DivMod, ModRange
<1>2. PICK f \in Int : f = q + 1
  OBVIOUS
<1>3. PICK x \in Int : x = a + b
  OBVIOUS
<1>4. x = b * f + r
  <2>1. a = b * q + r
    BY <1>1
  <2> QED
    BY <1>2, <1>3, <2>1
<1>5. x % b = r
  BY <1>4, Remainder
<1> QED
  BY <1>1, <1>3, <1>5

-----------------------------------------------------------------------------
(* The invariant                                                           *)

LEMMA ConstantTypes ==
  /\ RingSize \in Nat \ {0} /\ Decimation \in Nat \ {0} /\ Grain \in Nat \ {0}
  /\ MaxBack \in Nat /\ MaxLate \in Nat /\ MaxCallbacks \in Nat
BY RingAssumption, BoundsAssumption

LEMMA TopIsSlot ==
  ASSUME TypeOK
  PROVE  Top \in Slots
<1>1. ringPos - 1 \in Int
  BY ConstantTypes DEF TypeOK, Slots
<1> QED
  BY <1>1, ConstantTypes, ModRange DEF Top, Slots

LEMMA InitInv == Init => IndInv
<1> SUFFICES ASSUME Init PROVE IndInv
  OBVIOUS
<1>1. 0 \in Slots /\ 0 \in 0 .. MaxCallbacks
  BY ConstantTypes DEF Slots
<1>2. << >> \in Seq(Nat) /\ Len(<< >>) = 0
  OBVIOUS
<1>3. TypeOK
  BY <1>1, <1>2, ConstantTypes DEF Init, TypeOK
<1>4. AboutToWrite
  BY DEF Init, AboutToWrite
<1>5. Located
  <2>1. 0 \div Decimation \in 0 .. 0
    BY ConstantTypes, DivBelow
  <2> QED
    BY <2>1 DEF Init, Located
<1>6. InOrder
  BY <1>3, TopIsSlot DEF Init, InOrder
<1>7. FrameInOrder
  BY DEF Init, FrameInOrder
<1> QED
  BY <1>3, <1>4, <1>5, <1>6, <1>7 DEF IndInv

(* The samples of a buffer, and where the first one goes.                  *)
LEMMA ReadClockInv ==
  ASSUME IndInv, ReadClock
  PROVE  IndInv'
<1> USE DEF IndInv
<1>1. PICK len \in Lengths, skew \in -MaxBack .. MaxLate :
        LET n == len \div Decimation
            end == ClockAt((received + len) \div Decimation + skew)
        IN  /\ received' = received + len
            /\ down' = Decimate(len)
            /\ pos' = Place(end, n)
            /\ lastEnd' = end
            /\ steady' = (steady /\ lastEnd <= end)
  BY DEF ReadClock
<1> DEFINE n == len \div Decimation
           now == ((received + len) \div Decimation) + skew
           end == ClockAt(now)
           base == received \div Decimation
<1>2. /\ received \in Nat /\ len \in Nat /\ skew \in Int
      /\ RingSize \in Nat \ {0} /\ Decimation \in Nat \ {0} /\ Grain \in Nat \ {0}
      /\ MaxBack \in Nat /\ MaxLate \in Nat
  BY ConstantTypes, LengthsAssumption DEF TypeOK
<1>3. n \in 1 .. RingSize /\ base \in Nat
      /\ (received + len) \div Decimation \in base + n .. base + n + 1
  BY <1>2, FloorSum, LengthsAssumption
<1>4. now \in Int /\ end \in Int /\ end \in now - (Grain - 1) .. now
  <2>1. now \in Int
    BY <1>2, <1>3
  <2>2. now \div Grain \in Int /\ now = Grain * (now \div Grain) + (now % Grain)
        /\ now % Grain \in 0 .. Grain - 1
    BY <1>2, <2>1, DivMod, ModRange
  <2>3. end = Grain * (now \div Grain)
    BY <1>2, <2>2 DEF ClockAt
  <2> HIDE DEF now, end
  <2> QED
    BY <1>2, <2>1, <2>2, <2>3
<1>5. end - n - base \in Offsets
  BY <1>2, <1>3, <1>4 DEF Offsets
<1>6. down' = [k \in 1 .. n |-> base + k]
  <2>1. ASSUME NEW k \in 1 .. n
        PROVE  (received + k * Decimation) \div Decimation = base + k
    <3>1. k \in Nat
      BY <1>3
    <3> QED
      BY <1>2, <3>1, DivShift
  <2> QED
    BY <1>1, <2>1 DEF Decimate
<1>7. down' \in Seq(Nat) /\ Len(down') = n
  BY <1>3, <1>6
<1>8. pos' = (end - n) % RingSize /\ pos' \in Slots
  <2>1. pos' = Place(end, n)
    BY <1>1
  <2>2. end - n \in Int /\ n \in Nat
    BY <1>3, <1>4
  <2> HIDE DEF end, n
  <2>3. pos' = (end - n) % RingSize
    BY <1>4, <2>1, <2>2, PlaceIs
  <2> QED
    BY <1>2, <2>2, <2>3, ModRange DEF Slots
<1>9. base \in 0 .. received'
  BY <1>1, <1>2, DivBelow
<1>10. /\ received' \in Nat /\ lastEnd' = end
       /\ steady' = (steady /\ lastEnd <= end) /\ steady' \in BOOLEAN
       /\ base + n <= received' \div Decimation /\ received' \div Decimation \in Nat
  BY <1>1, <1>2, <1>3, <1>4 DEF TypeOK
<1>11. ring' = ring /\ ringPos' = ringPos /\ frame' = frame /\ at' = at /\ worker' = "write"
  BY DEF ReadClock
<1> HIDE DEF n, now, end, base
<1>12. TypeOK'
  <2>1. callbacks' \in 0 .. MaxCallbacks
    BY <1>2, BoundsAssumption DEF ReadClock, TypeOK
  <2>2. /\ pos' \in Slots /\ received' \in Nat /\ lastEnd' \in Int /\ steady' \in BOOLEAN
        /\ down' \in Seq(Nat) /\ Len(down') <= RingSize
    BY <1>3, <1>4, <1>7, <1>8, <1>10
  <2> QED
    BY <1>11, <2>1, <2>2 DEF TypeOK
<1>13. AboutToWrite'
  <2>1. down' = [k \in 1 .. Len(down') |-> base + k]
    BY <1>6, <1>7
  <2>2. \A p \in Slots : ring'[p] <= base
    BY <1>11 DEF Located, base
  <2>3. Len(down') > 0 /\ pos' = (lastEnd' - Len(down')) % RingSize
    BY <1>3, <1>7, <1>8, <1>10
  <2>4. lastEnd' - Len(down') - base \in Offsets /\ base + Len(down') <= received' \div Decimation
    BY <1>5, <1>7, <1>10
  <2> QED
    BY <1>9, <2>1, <2>2, <2>3, <2>4, Zenon DEF AboutToWrite, Consecutive, Offsets
<1>14. Located'
  <2>1. ASSUME NEW p \in Slots
        PROVE  ring[p] <= received' \div Decimation
    <3>1. ring[p] <= base /\ ring[p] \in Nat
      BY DEF Located, TypeOK, base
    <3> QED
      BY <1>3, <1>10, <3>1
  <2> QED
    BY <1>11, <2>1 DEF Located, Offsets
<1>15. steady' => InOrder'
  <2> SUFFICES ASSUME steady' PROVE InOrder'
    OBVIOUS
  <2>1. InOrder /\ lastEnd <= lastEnd'
    BY <1>10
  <2>2. Top' = Top /\ Top \in Slots
    BY <1>11, TopIsSlot DEF Top
  <2>3. at[Top] <= lastEnd => at[Top] <= lastEnd'
    BY <1>4, <1>10, <2>1, <2>2 DEF TypeOK
  <2> QED
    BY <1>11, <2>1, <2>2, <2>3 DEF InOrder
<1>16. FrameInOrder'
  BY <1>10, <1>11 DEF FrameInOrder
<1> QED
  BY <1>12, <1>13, <1>14, <1>15, <1>16

LEMMA IndexIn ==
  ASSUME TypeOK, NEW p \in Slots
  PROVE  Index(p) \in 1 .. RingSize
<1>1. p - pos \in Int
  BY ConstantTypes DEF TypeOK, Slots
<1>2. (p - pos) % RingSize \in 0 .. RingSize - 1
  BY <1>1, ConstantTypes, ModRange
<1> QED
  BY <1>2, ConstantTypes DEF Index

(* A slot that the buffer covers gets the sample that belongs there.       *)
LEMMA Covered ==
  ASSUME TypeOK, NEW base \in Int, Consecutive(base),
         NEW a \in Int, a = lastEnd - Len(down), pos = a % RingSize,
         NEW p \in Slots, Index(p) <= Len(down)
  PROVE  /\ Written[p] = base + Index(p)
         /\ PutAt[p] = lastEnd - Len(down) + Index(p)
         /\ p = (PutAt[p] - 1) % RingSize
<1>1. Index(p) \in 1 .. Len(down) /\ Len(down) \in Nat /\ lastEnd \in Int
  <2>1. Index(p) \in 1 .. RingSize
    BY IndexIn, Zenon
  <2>2. Len(down) \in Nat /\ lastEnd \in Int
    BY DEF TypeOK
  <2> QED
    BY <2>1, <2>2
<1>2. Written[p] = base + Index(p) /\ PutAt[p] = lastEnd - Len(down) + Index(p)
  BY <1>1 DEF Written, PutAt, Consecutive
<1>4. (a + ((p - (a % RingSize)) % RingSize)) % RingSize = p
  <2>1. p \in 0 .. RingSize - 1
    BY DEF Slots
  <2> QED
    BY <2>1, ConstantTypes, Behind
<1>5. (p - (a % RingSize)) % RingSize = Index(p) - 1
  <2>1. PICK d \in Int : d = (p - (a % RingSize)) % RingSize /\ Index(p) = d + 1
    <3>1. p - pos \in Int
      BY ConstantTypes DEF TypeOK, Slots
    <3>2. (p - pos) % RingSize \in Int
      BY <3>1, ConstantTypes, ModRange
    <3> QED
      BY <3>2 DEF Index
  <2> QED
    BY <2>1
<1>6. PutAt[p] - 1 = a + (Index(p) - 1)
  BY <1>1, <1>2
<1> QED
  BY <1>2, <1>4, <1>5, <1>6

LEMMA Kept ==
  ASSUME TypeOK, NEW p \in Slots, ~ (Index(p) <= Len(down))
  PROVE  Written[p] = ring[p] /\ PutAt[p] = at[p]
BY DEF Written, PutAt

(* A sample that was put where the buffer goes is overwritten: the slots   *)
(* that are kept lie before the buffer.                                    *)
LEMMA KeptIsBefore ==
  ASSUME TypeOK, NEW a \in Int, a = lastEnd - Len(down),
         NEW p \in Slots, ~ (Index(p) <= Len(down)),
         NEW x \in Int, x = at[p] - 1, at[p] <= lastEnd
  PROVE  pos = a % RingSize /\ p = x % RingSize => at[p] <= a
<1>1. Len(down) \in 0 .. RingSize /\ lastEnd \in Int /\ at[p] \in Int
  BY ConstantTypes DEF TypeOK
<1>2. SUFFICES ASSUME at[p] > a PROVE ~ (pos = a % RingSize /\ p = x % RingSize)
  BY <1>1
<1>3. x - a \in 0 .. Len(down) - 1 /\ x - a \in 0 .. RingSize - 1
  BY <1>1, <1>2, ConstantTypes
<1>4. ((x % RingSize) - (a % RingSize)) % RingSize = x - a
  BY <1>3, ConstantTypes, Distance
<1>5. pos = a % RingSize /\ p = x % RingSize => Index(p) = (x - a) + 1
  BY <1>4 DEF Index
<1> QED
  BY <1>1, <1>3, <1>5

LEMMA WriteInv ==
  ASSUME IndInv, Write
  PROVE  IndInv'
<1> USE DEF IndInv
<1> DEFINE n == Len(down)
<1>1. /\ n \in 1 .. RingSize /\ lastEnd \in Int /\ received \in Nat
      /\ ring \in [Slots -> Nat] /\ at \in [Slots -> Int]
  <2>1. n > 0
    BY DEF AboutToWrite, Write
  <2>2. n \in Nat /\ n <= RingSize
    BY DEF TypeOK
  <2> QED
    BY <2>1, <2>2, ConstantTypes DEF TypeOK
<1>a. PICK a \in Int : a = lastEnd - n
  BY <1>1
<1>p. pos = a % RingSize
  BY <1>a DEF AboutToWrite, Write
<1>2. PICK base \in 0 .. received :
        /\ Consecutive(base) /\ a - base \in Offsets
        /\ base + n <= received \div Decimation
        /\ \A p \in Slots : ring[p] <= base
  BY <1>a DEF Write, AboutToWrite
<1>3. base \in Nat
  BY <1>1, <1>2
<1>4. received \div Decimation \in Int
  BY <1>1, ConstantTypes, DivMod
<1>5. /\ ring' = Written /\ at' = PutAt /\ ringPos' = (pos + n) % RingSize
      /\ UNCHANGED <<received, down, pos, frame, callbacks, lastEnd, steady>>
  BY DEF Write
<1>6. ASSUME NEW p \in Slots, Index(p) <= n
      PROVE  /\ ring'[p] = base + Index(p) /\ at'[p] = a + Index(p)
             /\ Index(p) \in 1 .. n
  <2>1. Written[p] = base + Index(p) /\ PutAt[p] = lastEnd - n + Index(p)
    BY <1>2, <1>3, <1>6, <1>a, <1>p, Covered
  <2>2. Index(p) \in 1 .. RingSize
    BY IndexIn
  <2> QED
    BY <1>1, <1>5, <1>6, <1>a, <2>1, <2>2
<1>s. ASSUME NEW p \in Slots, Index(p) <= n
      PROVE  p = (at'[p] - 1) % RingSize
  BY <1>2, <1>3, <1>5, <1>s, <1>a, <1>p, Covered
<1>7. ASSUME NEW p \in Slots, ~ (Index(p) <= n)
      PROVE  ring'[p] = ring[p] /\ at'[p] = at[p] /\ ring[p] <= base
  BY <1>2, <1>5, <1>7, Kept
<1>8. TypeOK'
  <2>1. ASSUME NEW p \in Slots
        PROVE  ring'[p] \in Nat /\ at'[p] \in Int
    <3>1. CASE Index(p) <= n
      BY <1>1, <1>3, <1>6, <3>1
    <3>2. CASE ~ (Index(p) <= n)
      BY <1>1, <1>7, <3>2
    <3> QED
      BY <3>1, <3>2
  <2>2. ring' \in [Slots -> Nat] /\ at' \in [Slots -> Int]
    BY <1>5, <2>1 DEF Written, PutAt
  <2>3. ringPos' \in Slots
    <3>1. pos + n \in Int
      BY <1>1, ConstantTypes DEF TypeOK, Slots
    <3> QED
      BY <1>5, <3>1, ConstantTypes, ModRange DEF Slots
  <2> QED
    BY <2>2, <2>3 DEF Write, TypeOK
<1>9. AboutToWrite'
  BY DEF Write, AboutToWrite
<1>10. Located'
  <2>1. ASSUME NEW p \in Slots
        PROVE  /\ ring'[p] # 0 => p = (at'[p] - 1) % RingSize /\ at'[p] - ring'[p] \in Offsets
               /\ ring'[p] <= received \div Decimation
    <3>1. CASE Index(p) <= n
      <4>1. at'[p] - ring'[p] = a - base
        BY <1>1, <1>3, <1>6, <3>1
      <4>2. ring'[p] <= received \div Decimation
        BY <1>1, <1>2, <1>3, <1>4, <1>6, <3>1
      <4> QED
        BY <1>2, <1>s, <3>1, <4>1, <4>2
    <3>2. CASE ~ (Index(p) <= n)
      BY <1>7, <3>2 DEF Located
    <3> QED
      BY <3>1, <3>2
  <2> QED
    BY <1>5, <2>1 DEF Located, Offsets
<1>11. steady' => InOrder'
  <2> SUFFICES ASSUME steady PROVE InOrder'
    BY <1>5
  <2>1. ASSUME NEW p \in Slots, ring[p] # 0
        PROVE  at[p] <= lastEnd
    <3>1. Top \in Slots
      BY TopIsSlot
    <3>2. ring[Top] # 0 /\ at[Top] <= lastEnd /\ at[p] <= at[Top]
      BY <2>1 DEF InOrder
    <3> QED
      BY <1>1, <3>1, <3>2
  <2>2. ASSUME NEW p \in Slots, ~ (Index(p) <= n), ring[p] # 0
        PROVE  at[p] <= a
    <3>1. PICK x \in Int : x = at[p] - 1
      BY <1>1
    <3>2. p = x % RingSize
      BY <2>2, <3>1 DEF Located
    <3> QED
      BY <1>a, <1>p, <2>1, <2>2, <3>1, <3>2, KeptIsBefore
  <2>r. ringPos' = lastEnd % RingSize
    <3>1. n \in Int /\ a + n = lastEnd
      BY <1>1, <1>a
    <3>2. ((a % RingSize) + n) % RingSize = (a + n) % RingSize
      BY <3>1, ConstantTypes, ModPlus, Zenon
    <3> QED
      BY <1>5, <1>p, <3>1, <3>2, Zenon
  <2>3. Top' \in Slots /\ Index(Top') = n
    <3>1. PICK x \in Int, m \in Int : x = lastEnd - 1 /\ m = -1
      BY <1>1
    <3>3. Top' = x % RingSize
      <4>1. ((lastEnd % RingSize) + m) % RingSize = (lastEnd + m) % RingSize
        BY <1>1, ConstantTypes, ModPlus, Zenon
      <4>2. PICK e \in Int : e = lastEnd % RingSize
        <5>1. lastEnd % RingSize \in Int
          BY <1>1, ConstantTypes, ModRange
        <5> QED
          BY <5>1, Zenon
      <4>3. e - 1 = e + m /\ lastEnd + m = x
        BY <1>1, <3>1
      <4> QED
        BY <2>r, <4>1, <4>2, <4>3, Zenon DEF Top
    <3>4. Top' \in Slots
      BY <3>3, ConstantTypes, ModRange DEF Slots
    <3>5. x - a = n - 1 /\ x - a \in 0 .. RingSize - 1
      BY <1>1, <1>a, <3>1, ConstantTypes
    <3>6. ((x % RingSize) - (a % RingSize)) % RingSize = x - a
      BY <3>5, ConstantTypes, Distance
    <3>7. Index(Top') = (x - a) + 1
      BY <1>p, <3>3, <3>6 DEF Index
    <3> QED
      BY <1>1, <3>4, <3>5, <3>7
  <2>4. ring'[Top'] = base + n /\ at'[Top'] = lastEnd /\ ring'[Top'] # 0
    <3>1. PICK p \in Slots : p = Top' /\ Index(p) = n
      BY <2>3
    <3>2. Index(p) <= n
      BY <1>1, <3>1
    <3>3. ring'[p] = base + n /\ at'[p] = a + n
      BY <1>6, <3>1, <3>2
    <3> QED
      BY <1>1, <1>3, <1>a, <3>1, <3>3
  <2>5. ASSUME NEW p \in Slots, ring'[p] # 0
        PROVE  at'[p] <= lastEnd /\ ring'[p] <= base + n
    <3>1. CASE Index(p) <= n
      BY <1>1, <1>3, <1>6, <1>a, <3>1
    <3>2. CASE ~ (Index(p) <= n)
      BY <1>1, <1>3, <1>7, <2>1, <2>5, <3>2
    <3> QED
      BY <3>1, <3>2
  <2>6. ASSUME NEW p \in Slots, NEW q \in Slots, ring'[p] # 0, ring'[q] # 0, at'[p] < at'[q]
        PROVE  ring'[p] < ring'[q]
    <3>1. CASE Index(p) <= n /\ Index(q) <= n
      BY <1>1, <1>3, <1>6, <2>6, <3>1
    <3>2. CASE Index(p) <= n /\ ~ (Index(q) <= n)
      BY <1>1, <1>3, <1>6, <1>7, <2>2, <2>6, <3>2
    <3>3. CASE ~ (Index(p) <= n) /\ Index(q) <= n
      BY <1>1, <1>3, <1>6, <1>7, <3>3
    <3>4. CASE ~ (Index(p) <= n) /\ ~ (Index(q) <= n)
      BY <1>7, <2>6, <3>4 DEF InOrder
    <3> QED
      BY <3>1, <3>2, <3>3, <3>4
  <2>7. lastEnd' = lastEnd /\ lastEnd <= lastEnd
    BY <1>1, <1>5
  <2> QED
    BY <2>3, <2>4, <2>5, <2>6, <2>7, <2>r DEF InOrder
<1>12. FrameInOrder'
  BY <1>5 DEF FrameInOrder
<1> QED
  BY <1>8, <1>9, <1>10, <1>11, <1>12

(* What snapshot copies.                                                   *)
Copied == [i \in 1 .. RingSize |-> ring[(ringPos + i - 1) % RingSize]]

(* The slot of the i-th sample of a frame is the one for the place i after *)
(* the oldest that the ring can hold.                                      *)
LEMMA FrameSlot ==
  ASSUME NEW e \in Int, ringPos = e % RingSize, NEW i \in 1 .. RingSize
  PROVE  /\ (ringPos + i - 1) % RingSize = (e - RingSize + i - 1) % RingSize
         /\ (ringPos + i - 1) % RingSize \in Slots
<1>1. PICK d \in Int, x \in Int, y \in Int : d = i - 1 /\ x = e + d /\ y = x - RingSize
  BY ConstantTypes
<1>2. ((e % RingSize) + d) % RingSize = (e + d) % RingSize
  BY ConstantTypes, ModPlus
<1>3. (y + RingSize) % RingSize = y % RingSize
  BY ConstantTypes, AddLap
<1>4. e % RingSize \in Int /\ x % RingSize \in 0 .. RingSize - 1
  BY ConstantTypes, ModRange
<1>5. ringPos + i - 1 = (e % RingSize) + d
  BY <1>1, <1>4, ConstantTypes
<1>6. y + RingSize = x /\ y = e - RingSize + i - 1
  BY <1>1, ConstantTypes
<1> QED
  BY <1>1, <1>2, <1>3, <1>4, <1>5, <1>6 DEF Slots

(* The copy of a ring in order is in order.                                *)
LEMMA CopyInOrder ==
  ASSUME TypeOK, Located, InOrder,
         NEW f, f = Copied,
         NEW i \in 1 .. RingSize, NEW j \in 1 .. RingSize,
         i < j, f[j] # 0, Newest(f) - f[j] <= LapAgo
  PROVE  f[i] < f[j]
<1> DEFINE e == at[Top]
           slot(k) == (ringPos + k - 1) % RingSize
<1>1. Top \in Slots /\ e \in Int /\ ringPos \in Int
      /\ ring \in [Slots -> Nat] /\ at \in [Slots -> Int]
  <2>1. Top \in Slots
    BY TopIsSlot
  <2>2. ring \in [Slots -> Nat] /\ at \in [Slots -> Int]
    BY DEF TypeOK
  <2>3. ringPos \in Int
    BY ConstantTypes DEF TypeOK, Slots
  <2> QED
    BY <2>1, <2>2, <2>3
<1>2. ASSUME NEW k \in 1 .. RingSize
      PROVE  slot(k) \in Slots /\ f[k] = ring[slot(k)] /\ f[k] \in Nat
  <2>1. ringPos + k - 1 \in Int
    BY <1>1, ConstantTypes
  <2>2. slot(k) \in Slots
    BY <2>1, ConstantTypes, ModRange DEF Slots
  <2> QED
    BY <1>1, <2>2 DEF Copied
<1>3. ring[Top] # 0 /\ ringPos = e % RingSize
  BY <1>2 DEF InOrder
<1> HIDE DEF e
<1>4. ASSUME NEW k \in 1 .. RingSize
      PROVE  slot(k) = (e - RingSize + k - 1) % RingSize
  BY <1>1, <1>3, FrameSlot
<1>5. RingSize \in 1 .. RingSize /\ slot(RingSize) = Top
  <2>1. RingSize \in 1 .. RingSize
    BY ConstantTypes
  <2>2. PICK y \in Int : y = ringPos - 1
    BY <1>1
  <2>3. (y + RingSize) % RingSize = y % RingSize
    BY ConstantTypes, AddLap
  <2>4. y + RingSize = ringPos + RingSize - 1
    BY <1>1, <2>2, ConstantTypes
  <2> QED
    BY <2>1, <2>2, <2>3, <2>4 DEF Top
<1> HIDE DEF slot
<1>6. ASSUME NEW k \in 1 .. RingSize, f[k] # 0
      PROVE  /\ at[slot(k)] <= e /\ f[k] <= ring[Top] /\ at[slot(k)] \in Int
             /\ at[slot(k)] - f[k] \in Offsets
  BY <1>1, <1>2, <1>6 DEF InOrder, Located, e
<1>s. ASSUME NEW k \in 1 .. RingSize, f[k] # 0
      PROVE  slot(k) = (at[slot(k)] - 1) % RingSize
  BY <1>2, <1>s DEF Located
<1>7. Newest(f) = ring[Top]
  <2> DEFINE Max(t) == t \in {f[k] : k \in DOMAIN f} /\ \A k \in DOMAIN f : f[k] <= t
  <2>1. DOMAIN f = 1 .. RingSize
    BY DEF Copied
  <2>2. Max(ring[Top])
    <3>1. f[RingSize] = ring[Top]
      BY <1>2, <1>5
    <3>2. ASSUME NEW k \in 1 .. RingSize PROVE f[k] <= ring[Top]
      BY <1>1, <1>2, <1>6
    <3> QED
      BY <1>5, <2>1, <3>1, <3>2
  <2>3. ASSUME NEW t, Max(t) PROVE t = ring[Top]
    <3>1. t \in Nat /\ ring[Top] \in Nat
      BY <1>1, <1>2, <2>1, <2>3
    <3>2. t <= ring[Top] /\ ring[Top] <= t
      BY <2>1, <2>2, <2>3
    <3> QED
      BY <3>1, <3>2
  <2>4. Max(Newest(f))
    BY <2>2 DEF Newest
  <2> QED
    BY <2>3, <2>4
<1> DEFINE A(k) == e - RingSize + k
<1>8. ASSUME NEW k \in 1 .. RingSize, f[k] # 0
      PROVE  at[slot(k)] <= A(k)
  <2>1. PICK x \in Int, y \in Int : x = at[slot(k)] - 1 /\ y = e - RingSize + k - 1
    BY <1>1, <1>6, <1>8, ConstantTypes
  <2>2. x % RingSize = y % RingSize
    BY <1>4, <1>8, <1>s, <2>1
  <2>3. x < y + RingSize
    BY <1>1, <1>6, <1>8, <2>1, ConstantTypes
  <2>4. x <= y
    BY <2>2, <2>3, ConstantTypes, NoLap
  <2> QED
    BY <1>1, <1>6, <1>8, <2>1, <2>4, ConstantTypes
<1>9. at[slot(j)] >= e - RingSize
  <2>1. e - ring[Top] \in Offsets
    BY <1>1, <1>3 DEF Located, e
  <2>2. at[slot(j)] - f[j] \in Offsets /\ at[slot(j)] \in Int
    BY <1>6
  <2>3. ring[Top] - f[j] <= LapAgo /\ ring[Top] \in Nat /\ f[j] \in Nat /\ e \in Int
    BY <1>1, <1>2, <1>7
  <2> QED
    BY <2>1, <2>2, <2>3, ConstantTypes DEF Offsets, LapAgo
<1>10. A(j) <= at[slot(j)]
  <2>1. at[slot(j)] \in Int
    BY <1>6
  <2>2. CASE j = RingSize
    BY <1>1, <1>5, <2>1, <2>2, ConstantTypes DEF e
  <2>3. CASE j < RingSize
    <3>1. PICK x \in Int, y \in Int : x = at[slot(j)] - 1 /\ y = e - RingSize + j - 1
      BY <1>1, <2>1, ConstantTypes
    <3>2. y % RingSize = x % RingSize
      BY <1>4, <1>s, <3>1
    <3>3. y < x + RingSize
      BY <1>1, <1>9, <2>1, <2>3, <3>1, ConstantTypes
    <3>4. y <= x
      BY <3>2, <3>3, ConstantTypes, NoLap
    <3> QED
      BY <1>1, <2>1, <3>1, <3>4, ConstantTypes
  <2> QED
    BY <2>2, <2>3, ConstantTypes
<1>11. CASE f[i] = 0
  BY <1>2, <1>11
<1>12. CASE f[i] # 0
  <2>1. at[slot(i)] < at[slot(j)]
    BY <1>1, <1>6, <1>8, <1>10, <1>12, ConstantTypes
  <2> QED
    BY <1>2, <1>12, <2>1 DEF InOrder
<1> QED
  BY <1>11, <1>12

LEMMA SnapshotInv ==
  ASSUME IndInv, Snapshot
  PROVE  IndInv'
<1> USE DEF IndInv
<1>1. /\ frame' = Copied
      /\ UNCHANGED <<worker, received, down, pos, ring, ringPos, callbacks, at, lastEnd, steady>>
  BY DEF Snapshot, Copied
<1>2. ASSUME NEW i \in 1 .. RingSize
      PROVE  ring[(ringPos + i - 1) % RingSize] \in Nat
  <2>1. ringPos + i - 1 \in Int
    BY ConstantTypes DEF TypeOK, Slots
  <2>2. (ringPos + i - 1) % RingSize \in Slots
    BY <2>1, ConstantTypes, ModRange DEF Slots
  <2> QED
    BY <2>2 DEF TypeOK
<1>3. TypeOK'
  BY <1>1, <1>2 DEF TypeOK, Copied
<1>4. AboutToWrite' /\ Located' /\ (steady' => InOrder')
  BY <1>1 DEF AboutToWrite, Consecutive, Located, InOrder, Top, Offsets
<1>5. FrameInOrder'
  <2> SUFFICES ASSUME steady, NEW i \in DOMAIN frame', NEW j \in DOMAIN frame',
                      i < j, frame'[j] # 0, Newest(frame') - frame'[j] <= LapAgo
               PROVE  frame'[i] < frame'[j]
    BY <1>1 DEF FrameInOrder
  <2>1. i \in 1 .. RingSize /\ j \in 1 .. RingSize
    BY <1>1 DEF Copied
  <2> QED
    BY <1>1, <2>1, CopyInOrder
<1> QED
  BY <1>3, <1>4, <1>5

LEMMA NextInv == IndInv /\ [Next]_vars => IndInv'
<1> SUFFICES ASSUME IndInv, [Next]_vars
             PROVE  IndInv'
  OBVIOUS
<1>1. CASE ReadClock
  BY <1>1, ReadClockInv
<1>2. CASE Write
  BY <1>2, WriteInv
<1>3. CASE Lose
  BY <1>3 DEF Lose, IndInv, TypeOK, AboutToWrite, Consecutive, Located, InOrder, Top,
              FrameInOrder, Offsets
<1>4. CASE Snapshot
  BY <1>4, SnapshotInv
<1>5. CASE UNCHANGED vars
  BY <1>5 DEF vars, IndInv, TypeOK, AboutToWrite, Consecutive, Located, InOrder, Top,
              FrameInOrder, Offsets
<1> QED
  BY <1>1, <1>2, <1>3, <1>4, <1>5 DEF Next

(* The inductive invariant holds in every state.                           *)
THEOREM Inductive == Spec => []IndInv
<1> QED
  BY InitInv, NextInv, PTL DEF Spec

(* Type correctness: pos and ring_pos_ stay inside the ring, which the     *)
(* unsigned subtraction of handle_samples could leave.                     *)
THEOREM TypeCorrect == Spec => []TypeOK
<1>1. IndInv => TypeOK
  BY DEF IndInv
<1> QED
  BY <1>1, Inductive, PTL

(* Every sample in the ring is off its slot by the error of the clock, a   *)
(* millisecond and one sample at most, however long the receiver runs.     *)
THEOREM SamplesAligned == Spec => []Aligned
<1>1. IndInv => Aligned
  <2> SUFFICES ASSUME TypeOK, Located, NEW p \in Slots, ring[p] # 0
               PROVE  MayBeAt(ring[p], p)
    BY DEF IndInv, Aligned
  <2>1. p = (at[p] - 1) % RingSize /\ at[p] - ring[p] \in Offsets
    BY DEF Located
  <2>2. ring[p] - 1 + (at[p] - ring[p]) = at[p] - 1
    BY DEF TypeOK
  <2> QED
    BY <2>1, <2>2 DEF MayBeAt
<1> QED
  BY <1>1, Inductive, PTL

(* A frame handed to the decoder, or played, goes from its oldest sample   *)
(* to its newest one, unless the clock was stepped back or a skipped slot  *)
(* kept what was put there a lap of the ring ago.                          *)
THEOREM FramesOrdered == Spec => []FrameInOrder
<1>1. IndInv => FrameInOrder
  BY DEF IndInv
<1> QED
  BY <1>1, Inductive, PTL
=============================================================================
