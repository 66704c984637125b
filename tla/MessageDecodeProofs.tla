------------------------ MODULE MessageDecodeProofs ------------------------
(***************************************************************************)
(* Invariants of MessageDecode.tla: for every number and place of the      *)
(* synchronisation tones, every parity-check matrix and every number of    *)
(* iterations.  Then what the CRC, the parity checks and the encoder, all  *)
(* linear, do to every word, what the texts tell of a payload, and that    *)
(* decode ends.                                                            *)
(***************************************************************************)
EXTENDS MessageDecode, TLAPS, FiniteSetTheorems, SequenceTheorems, WellFoundedInduction

LEMMA SyncFinite == IsFiniteSet(Sync) /\ Cardinality(Sync) \in Nat
<1>1. IsFiniteSet(0 .. NumTones - 1)
  BY TonesAssumption, FS_Interval
<1> QED
  BY <1>1, TonesAssumption, FS_Subset, FS_CardinalityType

LEMMA NumberOfDataTones ==
  /\ IsFiniteSet(DataPlaces)
  /\ Cardinality(DataPlaces) = NumTones - Cardinality(Sync)
  /\ Cardinality(DataPlaces) \in Nat
<1>1. IsFiniteSet(0 .. NumTones - 1) /\ Cardinality(0 .. NumTones - 1) = NumTones
  BY TonesAssumption, FS_Interval
<1>2. (0 .. NumTones - 1) \intersect Sync = Sync
  BY TonesAssumption
<1> QED
  <2>1. /\ IsFiniteSet(DataPlaces)
        /\ Cardinality(DataPlaces) = NumTones - Cardinality((0 .. NumTones - 1) \intersect Sync)
    BY <1>1, FS_Difference, Zenon DEF DataPlaces
  <2>2. Cardinality(DataPlaces) \in Nat
    BY <2>1, FS_CardinalityType, Zenon
  <2> QED
    BY <1>2, <2>1, <2>2, Zenon

LEMMA NType == N \in Nat
BY NumberOfDataTones, SyncFinite, TonesAssumption DEF N

(* Later data tones have more data tones before them.                      *)
LEMMA DataTonesBound ==
  ASSUME NEW i \in DataPlaces
  PROVE  DataTones[i] \in Nat /\ DataTones[i] < NumTones - Cardinality(Sync)
<1> DEFINE Before == {j \in 0 .. i - 1 : j \notin Sync}
<1>1. Before \in SUBSET DataPlaces /\ Before # DataPlaces
  BY TonesAssumption DEF DataPlaces
<1>2. IsFiniteSet(Before) /\ Cardinality(Before) <= Cardinality(DataPlaces)
      /\ Cardinality(Before) # Cardinality(DataPlaces)
  BY <1>1, NumberOfDataTones, FS_Subset
<1>3. Cardinality(Before) \in Nat
  BY <1>2, FS_CardinalityType
<1>4. DataTones[i] = Cardinality(Before)
  BY TonesAssumption DEF DataTones, DataPlaces
<1> QED
  BY <1>2, <1>3, <1>4, NumberOfDataTones

LEMMA DataTonesIncrease ==
  ASSUME NEW i \in DataPlaces, NEW k \in DataPlaces, i < k
  PROVE  DataTones[i] < DataTones[k]
<1> DEFINE Before(t) == {j \in 0 .. t - 1 : j \notin Sync}
<1>1. i \in Nat /\ k \in Nat /\ i \notin Sync
  BY TonesAssumption DEF DataPlaces
<1>2. Before(i) \in SUBSET Before(k) /\ i \in Before(k) /\ i \notin Before(i)
  BY <1>1
<1>3. IsFiniteSet(Before(k))
  <2>1. IsFiniteSet(0 .. k - 1)
    BY <1>1, FS_Interval
  <2>2. Before(k) \in SUBSET (0 .. k - 1)
    OBVIOUS
  <2> QED
    BY <2>1, <2>2, FS_Subset
<1>4. Cardinality(Before(i)) <= Cardinality(Before(k))
      /\ Cardinality(Before(i)) # Cardinality(Before(k))
  <2>1. Before(i) # Before(k)
    BY <1>2
  <2> QED
    BY <2>1, <1>2, <1>3, FS_Subset
<1>5. DataTones[i] = Cardinality(Before(i)) /\ DataTones[k] = Cardinality(Before(k))
  BY TonesAssumption DEF DataTones, DataPlaces
<1> QED
  BY <1>4, <1>5, DataTonesBound

(* Each bit of each data tone has a place of its own.                      *)
LEMMA PlaceType ==
  ASSUME NEW i \in DataPlaces, NEW b \in 1 .. 3 PROVE Place(i, b) \in Bits
BY DataTonesBound, SyncFinite, TonesAssumption DEF Place, Bits, N

LEMMA PlaceInjective ==
  ASSUME NEW i \in DataPlaces, NEW k \in DataPlaces, NEW b \in 1 .. 3, NEW c \in 1 .. 3,
         Place(i, b) = Place(k, c)
  PROVE  i = k /\ b = c
<1>1. i \in Nat /\ k \in Nat
  BY TonesAssumption DEF DataPlaces
<1>2. DataTones[i] \in Nat /\ DataTones[k] \in Nat
  BY DataTonesBound
<1>3. DataTones[i] = DataTones[k] /\ b = c
  BY <1>2 DEF Place
<1>4. ~(i < k) /\ ~(k < i)
  BY <1>2, <1>3, DataTonesIncrease
<1> QED
  BY <1>1, <1>3, <1>4

(* Gray code: the receiver's table undoes the transmitter's.               *)
LEMMA GrayInverse ==
  ASSUME NEW x \in 0 .. 1, NEW y \in 0 .. 1, NEW z \in 0 .. 1
  PROVE  LET g == kFT8_Gray_map[1 + 4 * x + 2 * y + z]
         IN  /\ g \in 0 .. 7
             /\ SymbolBit(g, 1) = x /\ SymbolBit(g, 2) = y /\ SymbolBit(g, 3) = z
<1> USE DEF kFT8_Gray_map, kGrayDecode, SymbolBit
<1>1. CASE x = 0 /\ y = 0 /\ z = 0
  BY <1>1
<1>2. CASE x = 0 /\ y = 0 /\ z = 1
  BY <1>2
<1>3. CASE x = 0 /\ y = 1 /\ z = 0
  BY <1>3
<1>4. CASE x = 0 /\ y = 1 /\ z = 1
  BY <1>4
<1>5. CASE x = 1 /\ y = 0 /\ z = 0
  BY <1>5
<1>6. CASE x = 1 /\ y = 0 /\ z = 1
  BY <1>6
<1>7. CASE x = 1 /\ y = 1 /\ z = 0
  BY <1>7
<1>8. CASE x = 1 /\ y = 1 /\ z = 1
  BY <1>8
<1> QED
  BY <1>1, <1>2, <1>3, <1>4, <1>5, <1>6, <1>7, <1>8

-----------------------------------------------------------------------------
(* Demapping                                                               *)

LEMMA SentToneBits ==
  ASSUME NEW word, NEW i \in DataPlaces, NEW b \in 1 .. 3
  PROVE  /\ SentTone(word, i) \in 0 .. 7
         /\ SymbolBit(SentTone(word, i), b) = BitOf(word, Place(i, b))
<1> DEFINE x == BitOf(word, Place(i, 1))
           y == BitOf(word, Place(i, 2))
           z == BitOf(word, Place(i, 3))
<1>1. x \in 0 .. 1 /\ y \in 0 .. 1 /\ z \in 0 .. 1
  BY DEF BitOf
<1>2. SentTone(word, i) = kFT8_Gray_map[1 + 4 * x + 2 * y + z]
  BY DEF SentTone
<1> HIDE DEF x, y, z
<1>3. /\ SentTone(word, i) \in 0 .. 7
      /\ SymbolBit(SentTone(word, i), 1) = x
      /\ SymbolBit(SentTone(word, i), 2) = y
      /\ SymbolBit(SentTone(word, i), 3) = z
  BY <1>1, <1>2, GrayInverse
<1> QED
  BY <1>3 DEF x, y, z

(* Each place is read from the tone and bit that it belongs to.            *)
LEMMA ReadIntoPlace ==
  ASSUME NEW i \in DataPlaces, NEW b \in 1 .. 3
  PROVE  Place(i, b) \in Bits /\ ReadInto[Place(i, b)] = <<i, b>>
<1> DEFINE p == Place(i, b)
           x == CHOOSE x \in DataPlaces \X (1 .. 3) : Place(x[1], x[2]) = p
<1>1. p \in Bits
  BY PlaceType
<1>2. <<i, b>> \in DataPlaces \X (1 .. 3) /\ Place(<<i, b>>[1], <<i, b>>[2]) = p
  OBVIOUS
<1>3. x \in DataPlaces \X (1 .. 3) /\ Place(x[1], x[2]) = p
  BY <1>2
<1>4. ReadInto[p] = x
  BY <1>1 DEF ReadInto
<1> HIDE DEF x
<1>5. x[1] = i /\ x[2] = b /\ x = <<x[1], x[2]>>
  BY <1>3, PlaceInjective
<1> QED
  BY <1>1, <1>4, <1>5

(* A place that a tone was received for is read from that tone alone.      *)
LEMMA DemapAtTone ==
  ASSUME NEW t, NEW i \in DataPlaces, NEW b \in 1 .. 3, i \in DOMAIN t
  PROVE  Demap(t)[Place(i, b)] = 1 - 2 * SymbolBit(t[i], b)
BY ReadIntoPlace DEF Demap

(* A place whose tone was cut off is undecided.                            *)
LEMMA DemapWithoutTone ==
  ASSUME NEW t, NEW i \in DataPlaces, NEW b \in 1 .. 3, i \notin DOMAIN t
  PROVE  Demap(t)[Place(i, b)] = 0
BY ReadIntoPlace DEF Demap

LEMMA ThreeBits == IsFiniteSet(1 .. 3) /\ Cardinality(1 .. 3) = 3
<1>1. 1 \in Int /\ 3 \in Int /\ ~(1 > 3) /\ 3 - 1 + 1 = 3
  OBVIOUS
<1> QED
  BY <1>1, FS_Interval

(* Every place belongs to a bit of a tone: there are as many of the one as *)
(* of the other, and no two bits share a place.                            *)
LEMMA EveryPlaceIsRead ==
  ASSUME NEW p \in Bits
  PROVE  /\ ReadInto[p] \in DataPlaces \X (1 .. 3)
         /\ Place(ReadInto[p][1], ReadInto[p][2]) = p
<1> DEFINE D == DataPlaces \X (1 .. 3)
           f == [x \in D |-> Place(x[1], x[2])]
<1>1. IsFiniteSet(1 .. 3) /\ Cardinality(1 .. 3) = 3
  BY ThreeBits
<1>2. Cardinality(D) = N
  <2>1. Cardinality(D) = Cardinality(DataPlaces) * 3
    BY <1>1, NumberOfDataTones, FS_Product
  <2> QED
    BY <2>1, NumberOfDataTones DEF N
<1>3. IsFiniteSet(Bits) /\ Cardinality(Bits) = N
  BY NType, FS_Interval DEF Bits
<1>4. f \in [D -> Bits]
  BY PlaceType
<1>5. \A x, y \in D : f[x] = f[y] => x = y
  <2> SUFFICES ASSUME NEW x \in D, NEW y \in D, f[x] = f[y] PROVE x = y
    OBVIOUS
  <2>1. Place(x[1], x[2]) = Place(y[1], y[2])
    OBVIOUS
  <2>2. x[1] = y[1] /\ x[2] = y[2]
    BY <2>1, PlaceInjective
  <2> QED
    BY <2>2
<1>6. f \in Injection(D, Bits)
  BY <1>4, <1>5 DEF Injection, IsInjective
<1>7. f \in Surjection(D, Bits)
  BY <1>2, <1>3, <1>6, FS_Injection
<1>8. \E x \in D : Place(x[1], x[2]) = p
  BY <1>7 DEF Surjection
<1>9. ReadInto[p] = CHOOSE x \in D : Place(x[1], x[2]) = p
  BY DEF ReadInto
<1> HIDE DEF D
<1>10. ReadInto[p] \in D /\ Place(ReadInto[p][1], ReadInto[p][2]) = p
  BY <1>8, <1>9, Zenon
<1> QED
  BY <1>10 DEF D

LEMMA DemapType ==
  ASSUME NEW t, \A i \in DOMAIN t : t[i] \in 0 .. 7
  PROVE  Demap(t) \in [Bits -> {-1, 0, 1}]
<1>1. ASSUME NEW g \in 0 .. 7, NEW b \in 1 .. 3 PROVE SymbolBit(g, b) \in 0 .. 1
  <2>1. kGrayDecode[g + 1] \in 0 .. 7
    BY DEF kGrayDecode
  <2>2. <<4, 2, 1>>[b] \in 1 .. 4
    OBVIOUS
  <2>3. kGrayDecode[g + 1] \div <<4, 2, 1>>[b] \in Int
    BY <2>1, <2>2
  <2> QED
    BY <2>3 DEF SymbolBit
<1>2. ASSUME NEW p \in Bits PROVE Demap(t)[p] \in {-1, 0, 1}
  <2> DEFINE x == ReadInto[p]
  <2>1. x[2] \in 1 .. 3
    <3>1. x \in DataPlaces \X (1 .. 3)
      BY EveryPlaceIsRead, Zenon
    <3> HIDE DEF x
    <3> QED
      BY <3>1
  <2>2. Demap(t)[p] = IF x[1] \in DOMAIN t THEN 1 - 2 * SymbolBit(t[x[1]], x[2]) ELSE 0
    BY DEF Demap
  <2> HIDE DEF x
  <2>3. x[1] \in DOMAIN t => SymbolBit(t[x[1]], x[2]) \in 0 .. 1
    BY <2>1, <1>1
  <2> QED
    BY <2>2, <2>3
<1> QED
  BY <1>2 DEF Demap

-----------------------------------------------------------------------------
(* ldpc_check                                                              *)

LEMMA ErrorsType ==
  ASSUME NEW word PROVE ParityErrors(word) \in 0 .. Len(Rows)
<1>1. Len(Rows) \in Nat
  BY RowsAssumption
<1>2. IsFiniteSet(1 .. Len(Rows)) /\ Cardinality(1 .. Len(Rows)) = Len(Rows)
  <2>1. /\ IsFiniteSet(1 .. Len(Rows))
        /\ Cardinality(1 .. Len(Rows)) = IF 1 > Len(Rows) THEN 0 ELSE Len(Rows) - 1 + 1
    BY <1>1, FS_Interval, SMT
  <2> QED
    BY <1>1, <2>1, SMT
<1>3. OddRows(word) \in SUBSET (1 .. Len(Rows))
  BY DEF OddRows
<1>4. IsFiniteSet(OddRows(word)) /\ Cardinality(OddRows(word)) <= Len(Rows)
  BY <1>2, <1>3, FS_Subset
<1>5. Cardinality(OddRows(word)) \in Nat
  BY <1>4, FS_CardinalityType
<1> QED
  BY <1>1, <1>4, <1>5 DEF ParityErrors

LEMMA NoErrors ==
  ASSUME NEW word, ParityErrors(word) = 0 PROVE OddRows(word) = {}
<1>1. IsFiniteSet(1 .. Len(Rows))
  BY RowsAssumption, FS_Interval
<1>2. IsFiniteSet(OddRows(word))
  <2>1. OddRows(word) \in SUBSET (1 .. Len(Rows))
    BY DEF OddRows
  <2> QED
    BY <2>1, <1>1, FS_Subset
<1> QED
  BY <1>2, FS_EmptySet DEF ParityErrors

-----------------------------------------------------------------------------
(* The inductive invariant                                                 *)

LEMMA RowsCount == Len(Rows) \in Nat /\ Len(Rows) > 0
BY RowsAssumption

LEMMA ReceivedType ==
  ASSUME NEW word, NEW t \in Received(word)
  PROVE  \E n \in 0 .. NumTones : t \in [0 .. n - 1 -> 0 .. 7]
<1>1. \A i \in 0 .. NumTones - 1 : Transmission(word)[i] \in 0 .. 7
  BY SentToneBits DEF Transmission, DataPlaces
<1>2. CASE \E i \in Garbled, tone \in Misheard :
             t = [Transmission(word) EXCEPT ![i] = tone]
  <2>1. Transmission(word) \in [0 .. NumTones - 1 -> 0 .. 7]
    BY <1>1 DEF Transmission
  <2>2. t \in [0 .. NumTones - 1 -> 0 .. 7]
    BY <1>2, <2>1, TonesAssumption
  <2>3. NumTones \in 0 .. NumTones
    BY TonesAssumption
  <2> QED
    BY <2>2, <2>3
<1>3. CASE \E n \in Cuts : t = [i \in 0 .. n - 1 |-> Transmission(word)[i]]
  <2>1. PICK n \in 0 .. NumTones : t = [i \in 0 .. n - 1 |-> Transmission(word)[i]]
    BY <1>3, TonesAssumption
  <2>2. t \in [0 .. n - 1 -> 0 .. 7]
    BY <2>1, <1>1, TonesAssumption
  <2> QED
    BY <2>2
<1> QED
  BY <1>2, <1>3 DEF Received

LEMMA InitInductive == Init => IndInv
<1> SUFFICES ASSUME Init PROVE IndInv
  OBVIOUS
<1>1. \E n \in 0 .. NumTones : tones \in [0 .. n - 1 -> 0 .. 7]
  BY ReceivedType DEF Init
<1>2. TypeOK
  <2>1. llr \in [Bits -> {-1, 0, 1}]
    BY DEF Init
  <2>2. positive \in Words /\ plain \in Words /\ sent \in Words
    BY WordsAssumption DEF Init, Words
  <2>3. /\ minErrors \in 0 .. Len(Rows) /\ iter \in 0 .. MaxIters
        /\ reach \in 0 .. Large /\ counts \subseteq 0 .. Len(Rows)
    BY RowsCount, ItersAssumption DEF Init, Large
  <2>4. pc = "demap" /\ allowJs8 \in BOOLEAN /\ crcOk = FALSE /\ text = "none"
    BY DEF Init
  <2> QED
    BY <1>1, <2>1, <2>2, <2>3, <2>4 DEF TypeOK
<1>3. ErrorsIsLeast
  BY DEF Init, ErrorsIsLeast
<1>4. Turns /\ Perfect /\ Outcome /\ Mapped
  BY RowsCount DEF Init, Turns, Perfect, Outcome, Mapped
<1> QED
  BY <1>2, <1>3, <1>4 DEF IndInv

LEMMA DemapInductive == ASSUME IndInv, DemapTones PROVE IndInv'
<1>1. llr' \in [Bits -> {-1, 0, 1}]
  <2>1. \A i \in DOMAIN tones : tones[i] \in 0 .. 7
    BY DEF IndInv, TypeOK
  <2> QED
    BY <2>1, DemapType DEF DemapTones
<1>2. TypeOK'
  BY <1>1 DEF IndInv, TypeOK, DemapTones, InDecode, NoResult, Words
<1>3. ErrorsIsLeast'
  BY DEF IndInv, ErrorsIsLeast, DemapTones
<1>4. Turns' /\ Perfect' /\ Outcome' /\ Mapped'
  BY DEF IndInv, Turns, Perfect, Outcome, Mapped, DemapTones, InDecode, NoResult
<1> QED
  BY <1>2, <1>3, <1>4 DEF IndInv

LEMMA GuessInductive == ASSUME IndInv, Guess PROVE IndInv'
<1>1. TypeOK'
  BY DEF IndInv, TypeOK, Guess, InDecode, NoResult
<1>2. ErrorsIsLeast'
  BY DEF IndInv, ErrorsIsLeast, Guess
<1>3. Perfect'
  BY DEF IndInv, TypeOK, Perfect, Guess
<1>4. Turns' /\ Outcome' /\ Mapped'
  BY ItersAssumption
     DEF IndInv, TypeOK, Turns, Perfect, Outcome, Mapped, Guess, InDecode, NoResult
<1> QED
  BY <1>1, <1>2, <1>3, <1>4 DEF IndInv

LEMMA GiveUpInductive == ASSUME IndInv, GiveUp PROVE IndInv'
<1>1. TypeOK'
  BY DEF IndInv, TypeOK, GiveUp, InDecode, NoResult
<1>2. ErrorsIsLeast' /\ Perfect'
  BY DEF IndInv, ErrorsIsLeast, Perfect, GiveUp
<1>3. Turns' /\ Outcome' /\ Mapped'
  BY DEF IndInv, Turns, Outcome, Mapped, GiveUp, InDecode, NoResult
<1> QED
  BY <1>1, <1>2, <1>3 DEF IndInv

LEMMA BetterInductive == ASSUME IndInv, Better PROVE IndInv'
<1>1. /\ pc = "check" /\ counts' = counts \union {ParityErrors(plain)} /\ plain' = plain
      /\ minErrors' = ParityErrors(plain) /\ minErrors' < minErrors
      /\ minErrors' \in 0 .. Len(Rows)
  BY ErrorsType DEF Better
<1>2. counts \subseteq 0 .. Len(Rows) /\ minErrors \in 0 .. Len(Rows) /\ Len(Rows) \in Nat
  BY RowsCount DEF IndInv, TypeOK
<1>3. TypeOK'
  BY <1>1, <1>2 DEF IndInv, TypeOK, Better, InDecode, NoResult
<1>4. ErrorsIsLeast'
  <2>1. \A errors \in counts' : minErrors' <= errors
    BY <1>1, <1>2 DEF IndInv, ErrorsIsLeast
  <2>2. 0 \in counts' => pc' \in {"verdict", "done"}
    <3>1. 0 \notin counts
      BY <1>1 DEF IndInv, ErrorsIsLeast
    <3> QED
      BY <1>1, <3>1 DEF Better
  <2> QED
    BY <1>1, <2>1, <2>2 DEF ErrorsIsLeast
<1>5. Perfect' /\ Turns'
  BY <1>1, <1>2 DEF IndInv, Turns, Perfect, Better
<1>6. Outcome' /\ Mapped'
  BY <1>1 DEF IndInv, Outcome, Mapped, Better, InDecode, NoResult
<1> QED
  BY <1>3, <1>4, <1>5, <1>6 DEF IndInv

LEMMA NotBetterInductive == ASSUME IndInv, NotBetter PROVE IndInv'
<1>1. /\ pc = "check" /\ pc' = "pass" /\ counts' = counts \union {ParityErrors(plain)}
      /\ minErrors' = minErrors /\ ParityErrors(plain) >= minErrors
      /\ ParityErrors(plain) \in 0 .. Len(Rows)
  BY ErrorsType DEF NotBetter
<1>2. /\ counts \subseteq 0 .. Len(Rows) /\ minErrors \in 0 .. Len(Rows) /\ minErrors > 0
      /\ Len(Rows) \in Nat
  BY <1>1, RowsCount DEF IndInv, TypeOK, Perfect
<1>3. TypeOK'
  BY <1>1, <1>2 DEF IndInv, TypeOK, NotBetter, InDecode, NoResult
<1>4. ErrorsIsLeast'
  <2>1. \A errors \in counts' : minErrors' <= errors
    BY <1>1, <1>2 DEF IndInv, ErrorsIsLeast
  <2>2. 0 \notin counts'
    BY <1>1, <1>2 DEF IndInv, ErrorsIsLeast
  <2> QED
    BY <1>1, <2>1, <2>2 DEF IndInv, ErrorsIsLeast
<1>5. Perfect' /\ Turns'
  BY <1>1, <1>2 DEF IndInv, Turns, Perfect, NotBetter
<1>6. Outcome' /\ Mapped'
  BY <1>1 DEF IndInv, Outcome, Mapped, NotBetter, InDecode, NoResult
<1> QED
  BY <1>3, <1>4, <1>5, <1>6 DEF IndInv

LEMMA PassInductive == ASSUME IndInv, PassMessages PROVE IndInv'
<1>1. iter < MaxIters /\ iter \in 0 .. MaxIters
  BY DEF IndInv, TypeOK, Turns, PassMessages
<1>2. positive' \in Words /\ reach' \in 0 .. Large
  BY WordsAssumption DEF PassMessages, Words, Large
<1>3. TypeOK'
  BY <1>1, <1>2, ItersAssumption DEF IndInv, TypeOK, PassMessages, InDecode, NoResult
<1>4. ErrorsIsLeast' /\ Perfect'
  BY DEF IndInv, ErrorsIsLeast, Perfect, PassMessages
<1>5. Turns' /\ Outcome' /\ Mapped'
  BY DEF IndInv, Turns, Outcome, Mapped, PassMessages, InDecode, NoResult
<1> QED
  BY <1>3, <1>4, <1>5 DEF IndInv

LEMMA VerdictInductive == ASSUME IndInv, Reject \/ Verify PROVE IndInv'
<1>1. CASE Reject
  <2>1. TypeOK'
    BY <1>1 DEF IndInv, TypeOK, Reject, InDecode, NoResult
  <2>2. ErrorsIsLeast' /\ Perfect'
    BY <1>1 DEF IndInv, ErrorsIsLeast, Perfect, Reject
  <2>3. Turns' /\ Outcome' /\ Mapped'
    BY <1>1 DEF IndInv, Turns, Outcome, Mapped, Reject, InDecode, NoResult
  <2> QED
    BY <2>1, <2>2, <2>3 DEF IndInv
<1>2. CASE Verify
  <2>1. crcOk' \in BOOLEAN /\ text' \in {"none", "FT8", "JS8"}
    BY <1>2 DEF Verify, CrcRight, Unpack
  <2>4. TypeOK'
    BY <1>2, <2>1 DEF IndInv, TypeOK, Verify, InDecode
  <2>2. ErrorsIsLeast' /\ Perfect'
    <3>1. pc' = "done" /\ UNCHANGED <<minErrors, counts, plain>>
      BY <1>2 DEF Verify
    <3> QED
      BY <3>1 DEF IndInv, ErrorsIsLeast, Perfect
  <2>3. Turns' /\ Outcome' /\ Mapped'
    BY <1>2 DEF IndInv, Turns, Outcome, Mapped, Verify, InDecode
  <2> QED
    BY <2>2, <2>3, <2>4 DEF IndInv
<1> QED
  BY <1>1, <1>2

LEMMA StutterInductive == ASSUME IndInv, UNCHANGED vars PROVE IndInv'
BY DEF vars, IndInv, TypeOK, Turns, Perfect, ErrorsIsLeast, Outcome, Mapped

(* The inductive invariant of decode, whatever bp_decode guesses.          *)
THEOREM Inductive == Spec => []IndInv
<1>1. Init => IndInv
  BY InitInductive
<1>2. IndInv /\ [Next]_vars => IndInv'
  BY DemapInductive, GuessInductive, GiveUpInductive, BetterInductive, NotBetterInductive,
     PassInductive, VerdictInductive, StutterInductive DEF Next, Check
<1> QED
  BY <1>1, <1>2, PTL DEF Spec

(* Type correctness of decode.                                             *)
THEOREM TypeCorrect == Spec => []TypeOK
<1>1. IndInv => TypeOK
  BY DEF IndInv
<1> QED
  BY <1>1, Inductive, PTL

(* A word that is accepted, or unpacked, satisfies every parity check and  *)
(* the CRC and is not the word of zeros: the number of errors that         *)
(* bp_decode returns is of the word that it returns whenever it is zero.   *)
THEOREM AcceptsOnlyCodeWords == Spec => []AcceptedIsValid
<1>1. IndInv => AcceptedIsValid
  BY NoErrors DEF IndInv, Perfect, Outcome, AcceptedIsValid, IsCodeWord
<1> QED
  BY <1>1, Inductive, PTL

(* The number of errors of a result is the least of all guesses.           *)
THEOREM LeastErrors == Spec => []ErrorsIsLeast
<1>1. IndInv => ErrorsIsLeast
  BY DEF IndInv
<1> QED
  BY <1>1, Inductive, PTL

(* Demapping inverts the mapping of the transmitter, tone by tone, however *)
(* the synchronisation tones lie among the others.                         *)
THEOREM DemapsSurvivors == Spec => []SurvivorsAreRight
<1>1. IndInv => SurvivorsAreRight
  <2> SUFFICES ASSUME IndInv, pc # "demap", NEW i \in DataPlaces, NEW b \in 1 .. 3
               PROVE  /\ i \in DOMAIN tones /\ tones[i] = SentTone(sent, i) =>
                           llr[Place(i, b)] = IF Place(i, b) \in sent THEN -1 ELSE 1
                      /\ i \notin DOMAIN tones => llr[Place(i, b)] = 0
    BY DEF SurvivorsAreRight, DataPlaces
  <2>1. llr = Demap(tones)
    BY DEF IndInv, Mapped
  <2>2. DOMAIN tones \subseteq 0 .. NumTones - 1
    BY TonesAssumption DEF IndInv, TypeOK
  <2>3. ASSUME i \in DOMAIN tones, tones[i] = SentTone(sent, i)
        PROVE  llr[Place(i, b)] = IF Place(i, b) \in sent THEN -1 ELSE 1
    <3>1. llr[Place(i, b)] = 1 - 2 * SymbolBit(tones[i], b)
      BY <2>1, <2>2, <2>3, DemapAtTone
    <3>2. SymbolBit(tones[i], b) = BitOf(sent, Place(i, b))
      BY <2>3, SentToneBits
    <3> QED
      BY <3>1, <3>2 DEF BitOf
  <2>4. ASSUME i \notin DOMAIN tones PROVE llr[Place(i, b)] = 0
    BY <2>1, <2>2, <2>4, DemapWithoutTone
  <2> QED
    BY <2>3, <2>4
<1> QED
  BY <1>1, Inductive, PTL
-----------------------------------------------------------------------------
(* Functions that are defined by recursion                                 *)

(* The least-number principle and induction, for sets of numbers.          *)
LEMMA LeastNumber ==
  ASSUME NEW S, S \subseteq Nat, S # {}
  PROVE  \E n \in S : \A m \in S : n <= m
<1>1. PICK n \in S : \A m \in S : ~(<<m, n>> \in OpToRel(<, Nat))
  BY NatLessThanWellFounded, WFMin
<1>2. \A m \in S : ~(m < n)
  BY <1>1 DEF OpToRel
<1> QED
  BY <1>2

LEMMA SetInduction ==
  ASSUME NEW S, 0 \in S, \A n \in Nat : n \in S => n + 1 \in S
  PROVE  Nat \subseteq S
<1> SUFFICES ASSUME Nat \ S # {} PROVE FALSE
  OBVIOUS
<1>1. PICK n \in Nat \ S : \A m \in Nat \ S : n <= m
  BY LeastNumber
<1>2. n # 0 /\ n - 1 \in Nat /\ n = (n - 1) + 1
  BY <1>1
<1>3. n - 1 \in S
  BY <1>1, <1>2
<1> QED
  BY <1>2, <1>3

(* A function that is defined by recursion over the first numbers exists.  *)
Steps(h, S) == h \in [Nat \ {0} -> [S -> S]]
Recursion(f, S, a, h, K) ==
  f \in [0 .. K -> S] /\ f[0] = a /\ \A n \in 1 .. K : f[n] = h[n][f[n - 1]]

LEMMA RecursionExists ==
  ASSUME NEW S, NEW a \in S, NEW h, Steps(h, S), NEW K \in Nat
  PROVE  \E f : Recursion(f, S, a, h, K)
<1> DEFINE Solves(f, k) == f = [n \in 0 .. k |-> IF n = 0 THEN a ELSE h[n][f[n - 1]]]
           Good == {k \in Nat : \E f \in [0 .. k -> S] : Solves(f, k)}
<1>0. h \in [Nat \ {0} -> [S -> S]]
  BY DEF Steps
<1>1. 0 \in Good
  <2> DEFINE f == [n \in 0 .. 0 |-> a]
  <2>1. f \in [0 .. 0 -> S] /\ Solves(f, 0)
    OBVIOUS
  <2> QED
    BY <2>1
<1>2. ASSUME NEW k \in Nat, k \in Good PROVE k + 1 \in Good
  <2>1. PICK f \in [0 .. k -> S] : Solves(f, k)
    BY <1>2
  <2> DEFINE g == [n \in 0 .. k + 1 |-> IF n <= k THEN f[n] ELSE h[k + 1][f[k]]]
  <2>2. g \in [0 .. k + 1 -> S]
    <3>1. h[k + 1][f[k]] \in S
      BY <1>0
    <3>2. \A n \in 0 .. k + 1 : n <= k => n \in 0 .. k
      OBVIOUS
    <3> QED
      BY <3>1, <3>2
  <2>3. ASSUME NEW n \in 0 .. k + 1
        PROVE  g[n] = IF n = 0 THEN a ELSE h[n][g[n - 1]]
    <3>1. CASE n <= k
      <4>1. n \in 0 .. k /\ (n # 0 => n - 1 \in 0 .. k /\ n - 1 <= k /\ n - 1 \in 0 .. k + 1)
        BY <3>1
      <4>2. g[n] = f[n] /\ (n # 0 => g[n - 1] = f[n - 1])
        BY <3>1, <4>1
      <4>3. f[n] = IF n = 0 THEN a ELSE h[n][f[n - 1]]
        BY <2>1, <4>1
      <4> QED
        BY <4>2, <4>3
    <3>2. CASE ~(n <= k)
      <4>1. n = k + 1 /\ n # 0 /\ n - 1 = k /\ k \in 0 .. k + 1 /\ k <= k
        BY <3>2
      <4>2. g[n] = h[k + 1][f[k]] /\ g[k] = f[k]
        BY <3>2, <4>1
      <4> QED
        BY <4>1, <4>2
    <3> QED
      BY <3>1, <3>2
  <2>4. Solves(g, k + 1)
    BY <2>3
  <2> HIDE DEF g, Solves
  <2>5. k + 1 \in Nat
    OBVIOUS
  <2> QED
    BY <2>2, <2>4, <2>5
<1> HIDE DEF Good
<1>3. Nat \subseteq Good
  BY <1>1, <1>2, SetInduction
<1>4. PICK f \in [0 .. K -> S] : Solves(f, K)
  BY <1>3 DEF Good
<1> QED
  BY <1>4 DEF Recursion
-----------------------------------------------------------------------------

(* Product is what its recursion says.                                     *)
IsProduct(f, toc) ==
  f[0] = 1000 /\ \A n \in 1 .. FewestOthers : f[n] = 1 + (toc * f[n - 1]) \div 1000

LEMMA ProductIs ==
  ASSUME NEW toc \in Int, FewestOthers \in Nat
  PROVE  \E f : IsProduct(f, toc) /\ Product(toc) = f[FewestOthers]
<1> DEFINE Turn(x) == 1 + (toc * x) \div 1000
           Body(f) == [n \in 0 .. FewestOthers |-> IF n = 0 THEN 1000 ELSE Turn(f[n - 1])]
           h == [n \in Nat \ {0} |-> [x \in Int |-> Turn(x)]]
           product == CHOOSE f : f = Body(f)
<1>1. Product(toc) = product[FewestOthers]
  BY DEF Product
<1>2. \A x \in Int : Turn(x) \in Int
  OBVIOUS
<1> HIDE DEF Turn
<1>3. Steps(h, Int)
  BY <1>2 DEF Steps
<1>4. \A n \in Nat \ {0}, x \in Int : h[n][x] = Turn(x)
  OBVIOUS
<1> HIDE DEF h
<1>5. PICK one \in Int : one = 1000
  OBVIOUS
<1>6. PICK f : Recursion(f, Int, one, h, FewestOthers)
  BY <1>3, RecursionExists
<1>7. f \in [0 .. FewestOthers -> Int]
  BY <1>6 DEF Recursion
<1>8. ASSUME NEW n \in 0 .. FewestOthers
      PROVE  f[n] = IF n = 0 THEN 1000 ELSE Turn(f[n - 1])
  <2>1. CASE n = 0
    BY <1>5, <1>6, <2>1 DEF Recursion
  <2>2. CASE n # 0
    <3>1. n \in 1 .. FewestOthers /\ n \in Nat \ {0} /\ f[n - 1] \in Int
      BY <1>7, <2>2
    <3>2. f[n] = h[n][f[n - 1]]
      BY <1>6, <3>1 DEF Recursion
    <3> QED
      BY <1>4, <2>2, <3>1, <3>2
  <2> QED
    BY <2>1, <2>2
<1>9. f = Body(f)
  BY <1>7, <1>8
<1> HIDE DEF Body
<1>10. product = Body(product)
  BY <1>9
<1> HIDE DEF product
<1>11. \A n \in 0 .. FewestOthers : product[n] = Body(product)[n]
  BY <1>10
<1>12. ASSUME NEW n \in 0 .. FewestOthers
       PROVE  product[n] = IF n = 0 THEN 1000 ELSE Turn(product[n - 1])
  BY <1>11 DEF Body
<1> WITNESS product
<1> QED
  BY <1>1, <1>12 DEF Turn, IsProduct

-----------------------------------------------------------------------------
(* The size of the messages                                                *)

LEMMA SmallerFactors ==
  ASSUME NEW x \in Nat, NEW y \in Nat, NEW b \in Nat, NEW c \in Nat, x <= b, y <= c
  PROVE  x * y \in Nat /\ x * y <= b * c
<1>1. x * y <= b * y
  OBVIOUS
<1>2. b * y <= b * c
  OBVIOUS
<1> QED
  BY <1>1, <1>2

LEMMA Quotient ==
  ASSUME NEW a \in Nat, NEW d \in Nat \ {0}
  PROVE  a \div d \in Nat /\ d * (a \div d) <= a /\ a < d * (a \div d) + d
BY SMT

LEMMA QuotientBound ==
  ASSUME NEW a \in Nat, NEW d \in Nat \ {0}, NEW k \in Nat, a < d * (k + 1)
  PROVE  a \div d \in Nat /\ a \div d <= k
<1>1. a \div d \in Nat /\ d * (a \div d) <= a
  BY Quotient
<1>2. PICK q \in Nat : q = a \div d /\ d * q <= a
  BY <1>1
<1>3. q <= k
  <2>1. SUFFICES ASSUME q >= k + 1 PROVE FALSE
    OBVIOUS
  <2>2. d * q >= d * (k + 1)
    BY <2>1
  <2> QED
    BY <1>2, <2>2
<1> QED
  BY <1>2, <1>3

(* fast_tanh on an interval below b whose squares lie between s and t.     *)
TanhPiece(x, b, s, t, u) ==
  /\ x <= b /\ 1000 * s <= x * x /\ x * x < 1000 * (t + 1) /\ t * t < 1000 * (u + 1)
  /\ b * (945001 + 105 * t + u) < 557 * (945000 + 420 * s)

LEMMA TanhBelow ==
  ASSUME NEW x \in Nat, NEW b \in Nat, NEW s \in Nat, NEW t \in Nat, NEW u \in Nat,
         TanhPiece(x, b, s, t, u)
  PROVE  FastTanh(x) \in Nat /\ FastTanh(x) <= 557
<1> DEFINE x2 == (x * x) \div 1000
           y == (x2 * x2) \div 1000
           z == (15 * x2 * x2) \div 1000
<1>1. /\ x * x \in Nat
      /\ x <= b /\ 1000 * s <= x * x /\ x * x < 1000 * (t + 1) /\ t * t < 1000 * (u + 1)
      /\ b * (945001 + 105 * t + u) < 557 * (945000 + 420 * s)
  BY SMT DEF TanhPiece
<1>2. x2 \in 0 .. t /\ x2 >= s
  BY <1>1, Quotient, QuotientBound, SMT
<1> HIDE DEF x2
<1>3. x2 * x2 \in Nat /\ x2 * x2 < 1000 * (u + 1) /\ 15 * x2 * x2 \in Nat
  BY <1>1, <1>2, SmallerFactors, SMT
<1>4. y \in 0 .. u /\ z \in Nat
  BY <1>3, Quotient, QuotientBound, SMT
<1> HIDE DEF y, z
<1> DEFINE a == 945001 + 105 * x2 + y
           d == 945000 + 420 * x2 + z
<1>5. a \in Nat /\ a <= 945001 + 105 * t + u /\ d \in Nat \ {0} /\ d >= 945000 + 420 * s
  BY <1>2, <1>4, SMT
<1>6. FastTanh(x) = 1 + ((x * a) \div d)
  BY DEF FastTanh, x2, y, z, SMT
<1> HIDE DEF a, d
<1>7. x * a \in Nat /\ x * a <= b * (945001 + 105 * t + u)
  BY <1>1, <1>5, SmallerFactors, SMT
<1>8. 557 * (945000 + 420 * s) <= 557 * d
  BY <1>5, SMT
<1>9. x * a < d * (556 + 1)
  BY <1>1, <1>5, <1>7, <1>8, SMT
<1>10. (x * a) \div d \in Nat /\ (x * a) \div d <= 556
  BY <1>5, <1>7, <1>9, QuotientBound, SMT
<1> QED
  BY <1>6, <1>10, SMT

LEMMA TanhBound ==
  ASSUME NEW x \in Nat, x >= 500, x <= 612
  PROVE  FastTanh(x) \in Nat /\ FastTanh(x) <= 557
<1>1. CASE x <= 560
  <2>1. PICK b \in Nat, s \in Nat, t \in Nat, u \in Nat : b = 560 /\ s = 250 /\ t = 313 /\ u = 97
    BY SMT
  <2>2. 500 * 500 <= x * x /\ x * x <= 560 * 560
    BY <1>1, SmallerFactors, SMT
  <2>3. t * t < 1000 * (u + 1) /\ b * (945001 + 105 * t + u) < 557 * (945000 + 420 * s)
    BY <2>1, SMT
  <2>4. x \in Nat /\ x <= b /\ 1000 * s <= x * x /\ x * x < 1000 * (t + 1)
    BY <1>1, <2>1, <2>2, SMT
  <2>5. TanhPiece(x, b, s, t, u)
    BY <2>3, <2>4, SMT DEF TanhPiece
  <2>6. x \in Nat
    BY SMT
  <2> QED
    BY <2>5, <2>6, TanhBelow, SMT
<1>2. CASE x > 560 /\ x <= 600
  <2>1. PICK b \in Nat, s \in Nat, t \in Nat, u \in Nat : b = 600 /\ s = 313 /\ t = 360 /\ u = 129
    BY SMT
  <2>2. 560 * 560 <= x * x /\ x * x <= 600 * 600
    BY <1>2, SmallerFactors, SMT
  <2>3. t * t < 1000 * (u + 1) /\ b * (945001 + 105 * t + u) < 557 * (945000 + 420 * s)
    BY <2>1, SMT
  <2>4. x \in Nat /\ x <= b /\ 1000 * s <= x * x /\ x * x < 1000 * (t + 1)
    BY <1>2, <2>1, <2>2, SMT
  <2>5. TanhPiece(x, b, s, t, u)
    BY <2>3, <2>4, SMT DEF TanhPiece
  <2>6. x \in Nat
    BY SMT
  <2> QED
    BY <2>5, <2>6, TanhBelow, SMT
<1>3. CASE x > 600
  <2>1. PICK b \in Nat, s \in Nat, t \in Nat, u \in Nat : b = 612 /\ s = 360 /\ t = 374 /\ u = 139
    BY SMT
  <2>2. 600 * 600 <= x * x /\ x * x <= 612 * 612
    BY <1>3, SmallerFactors, SMT
  <2>3. t * t < 1000 * (u + 1) /\ b * (945001 + 105 * t + u) < 557 * (945000 + 420 * s)
    BY <2>1, SMT
  <2>4. x \in Nat /\ x <= b /\ 1000 * s <= x * x /\ x * x < 1000 * (t + 1)
    BY <1>3, <2>1, <2>2, SMT
  <2>5. TanhPiece(x, b, s, t, u)
    BY <2>3, <2>4, SMT DEF TanhPiece
  <2>6. x \in Nat
    BY SMT
  <2> QED
    BY <2>5, <2>6, TanhBelow, SMT
<1> QED
  BY <1>1, <1>2, <1>3, SMT

LEMMA AtanhBound ==
  ASSUME NEW x \in Nat, x <= 55
  PROVE  FastAtanh(x) \in Nat /\ FastAtanh(x) <= 56
<1> DEFINE x2 == 1 + (x * x) \div 1000
           y == (64 * x2 * x2) \div 1000
           z == (225 * x2 * x2) \div 1000
<1>1. x * x \in Nat /\ x * x < 1000 * (3 + 1)
  BY SmallerFactors, SMT
<1>2. x2 \in 1 .. 4
  BY <1>1, QuotientBound, SMT
<1> HIDE DEF x2
<1>3. /\ x2 * x2 \in 1 .. 16 /\ 64 * x2 * x2 \in Nat /\ 64 * x2 * x2 < 1000 * (1 + 1)
      /\ 225 * x2 * x2 \in Nat
  BY <1>2, SMT
<1>4. y \in 0 .. 1 /\ z \in Nat
  BY <1>3, Quotient, QuotientBound, SMT
<1> HIDE DEF y, z
<1> DEFINE a == 945001 - 735 * x2 + y
           d == 945000 - 1050 * x2 + z
<1>5. a \in Nat /\ a <= 944267 /\ d \in Nat \ {0} /\ d >= 940800
  BY <1>2, <1>4, SMT
<1>6. FastAtanh(x) = 1 + ((x * a) \div d)
  BY DEF FastAtanh, x2, y, z, SMT
<1> HIDE DEF a, d
<1>7. x * a \in Nat /\ x * a <= 55 * 944267
  BY <1>5, SmallerFactors, SMT
<1>8. x * a < d * (55 + 1)
  BY <1>5, <1>7, SMT
<1>9. (x * a) \div d \in Nat /\ (x * a) \div d <= 55
  BY <1>5, <1>7, <1>8, QuotientBound, SMT
<1> QED
  BY <1>6, <1>9, SMT

(* Checks of six places or more multiply five messages or more.            *)
SixPlaces == \A m \in DOMAIN Rows : Cardinality(Rows[m]) >= 6

LEMMA RowSizes ==
  ASSUME NEW m \in DOMAIN Rows
  PROVE  Cardinality(Rows[m]) \in 0 .. N
<1>1. Rows[m] \subseteq Bits
  BY RowsAssumption DEF Words
<1>2. IsFiniteSet(Bits) /\ Cardinality(Bits) = N
  BY NType, FS_Interval DEF Bits
<1>3. Cardinality(Rows[m]) <= N /\ IsFiniteSet(Rows[m])
  BY <1>1, <1>2, FS_Subset
<1>4. Cardinality(Rows[m]) \in Nat
  BY <1>3, FS_CardinalityType
<1> QED
  BY <1>3, <1>4, NType

LEMMA FiveOthers ==
  ASSUME SixPlaces
  PROVE  FewestOthers \in Nat /\ FewestOthers >= 5
<1> DEFINE Fewest(n) == /\ \A m \in DOMAIN Rows : n <= Cardinality(Rows[m])
                        /\ \E m \in DOMAIN Rows : n = Cardinality(Rows[m])
           sizes == {Cardinality(Rows[m]) : m \in DOMAIN Rows}
           least == CHOOSE n \in 0 .. N : Fewest(n)
<1>1. sizes \subseteq Nat /\ sizes # {}
  <2>1. 1 \in DOMAIN Rows
    BY RowsCount, RowsAssumption
  <2> QED
    BY <2>1, RowSizes
<1>2. PICK n \in sizes : \A k \in sizes : n <= k
  <2> HIDE DEF sizes
  <2> QED
    BY <1>1, LeastNumber
<1>3. n \in 0 .. N /\ Fewest(n)
  BY <1>2, RowSizes
<1>4. least \in 0 .. N /\ Fewest(least)
  BY <1>3
<1>5. least >= 6
  BY <1>4 DEF SixPlaces
<1>6. FewestOthers = least - 1
  BY DEF FewestOthers
<1> QED
  BY <1>4, <1>5, <1>6, NType

LEMMA NextFactor ==
  ASSUME NEW toc \in Nat, NEW x \in Nat, NEW k \in Nat, toc <= 557, x <= k
  PROVE  1 + (toc * x) \div 1000 \in Nat /\ 1000 * (1 + (toc * x) \div 1000) <= 1000 + 557 * k
<1>1. toc * x \in Nat /\ toc * x <= 557 * k
  BY SmallerFactors, SMT
<1>2. PICK p \in Nat : p = toc * x /\ p <= 557 * k
  BY <1>1, SMT
<1>3. p \div 1000 \in Nat /\ 1000 * (p \div 1000) <= p
  BY Quotient, SMT
<1>4. 1 + p \div 1000 \in Nat /\ 1000 * (1 + p \div 1000) <= 1000 + 557 * k
  BY <1>2, <1>3, SMT
<1> QED
  BY <1>2, <1>4, SMT

LEMMA ProductBound ==
  ASSUME NEW toc \in Nat, toc <= 557, SixPlaces
  PROVE  Product(toc) \in Nat /\ Product(toc) <= 55
<1>1. FewestOthers \in Nat /\ FewestOthers >= 5
  BY FiveOthers
<1>2. PICK f : IsProduct(f, toc) /\ Product(toc) = f[FewestOthers]
  <2>1. toc \in Int
    OBVIOUS
  <2> QED
    BY <1>1, <2>1, ProductIs, Zenon
<1> DEFINE Below(n, k) == f[n] \in Nat /\ f[n] <= k
<1>3. ASSUME NEW n \in Nat, n + 1 <= FewestOthers, NEW k \in Nat, Below(n, k)
      PROVE  f[n + 1] \in Nat /\ 1000 * f[n + 1] <= 1000 + 557 * k
  <2>1. n + 1 \in 1 .. FewestOthers /\ (n + 1) - 1 = n
    BY <1>1, <1>3
  <2>2. f[n + 1] = 1 + (toc * f[n]) \div 1000
    BY <1>2, <2>1, SMT DEF IsProduct
  <2> QED
    BY <1>3, <2>2, NextFactor, SMT
<1>4. Below(0, 1000)
  BY <1>2, SMT DEF IsProduct
<1>5. Below(1, 558)
  BY <1>1, <1>3, <1>4, SMT
<1>6. Below(2, 311)
  BY <1>1, <1>3, <1>5, SMT
<1>7. Below(3, 174)
  BY <1>1, <1>3, <1>6, SMT
<1>8. Below(4, 97)
  BY <1>1, <1>3, <1>7, SMT
<1>9. Below(5, 55)
  BY <1>1, <1>3, <1>8, SMT
<1> DEFINE Good == {n \in Nat : n + 5 <= FewestOthers => Below(n + 5, 55)}
<1>10. 0 \in Good
  BY <1>9, SMT
<1>11. ASSUME NEW n \in Nat, n \in Good
       PROVE  n + 1 \in Good
  <2> SUFFICES ASSUME n + 6 <= FewestOthers PROVE Below(n + 6, 55)
    BY SMT
  <2>1. Below(n + 5, 55) /\ n + 5 \in Nat /\ (n + 5) + 1 <= FewestOthers /\ (n + 5) + 1 = n + 6
    BY <1>1, <1>11, SMT
  <2> QED
    BY <1>3, <2>1, SMT
<1> HIDE DEF Good
<1>12. Nat \subseteq Good
  BY <1>10, <1>11, SetInduction
<1>13. FewestOthers - 5 \in Good
  BY <1>1, <1>12
<1> QED
  BY <1>1, <1>2, <1>13, SMT DEF Good

(* The bound on the messages is one that the loop keeps.                   *)
LEMMA ReachBound ==
  ASSUME NEW r \in Nat, r <= 112, SixPlaces
  PROVE  NextReach(r) \in Nat /\ NextReach(r) <= 112
<1>1. PICK x \in Nat : x = (1000 + 2 * r) \div 2
  BY SMT
<1>2. x >= 500 /\ x <= 612
  BY <1>1, SMT
<1>3. FastTanh(x) \in Nat /\ FastTanh(x) <= 557
  BY <1>2, TanhBound, SMT
<1>4. Product(FastTanh(x)) \in Nat /\ Product(FastTanh(x)) <= 55
  BY <1>3, ProductBound, SMT
<1>5. FastAtanh(Product(FastTanh(x))) \in Nat /\ FastAtanh(Product(FastTanh(x))) <= 56
  BY <1>4, AtanhBound, SMT
<1> QED
  BY <1>1, <1>5, SMT DEF NextReach

-----------------------------------------------------------------------------
(* What is heard is kept                                                   *)

(* The messages stay small, so that positive has the signs of the LLRs     *)
(* from the beginning on, and so has every guess.                          *)
Kept(word) == \A p \in Bits : llr[p] # 0 => (p \in word <=> llr[p] > 0)

KeepInv ==
  /\ reach \in Nat /\ reach <= 112
  /\ pc = "demap" => iter = 0
  /\ pc # "demap" => Kept(positive)
  /\ pc \notin {"demap", "guess"} \/ iter # 0 => Kept(plain)

LEMMA KeepDemap ==
  ASSUME KeepInv, IndInv', DemapTones
  PROVE  KeepInv'
<1>1. /\ pc = "demap" /\ pc' = "guess" /\ iter = 0 /\ iter' = 0
      /\ reach' \in Nat /\ reach' <= 112
      /\ positive' = {p \in Bits : llr'[p] > 0}
  BY DEF DemapTones, KeepInv
<1>2. Kept(positive)'
  BY <1>1 DEF Kept
<1> QED
  BY <1>1, <1>2 DEF KeepInv

LEMMA KeepGuess ==
  ASSUME KeepInv, Guess
  PROVE  KeepInv'
BY DEF KeepInv, Guess, Kept

(* The guess of the last turn stays, if there was one.                     *)
LEMMA KeepGiveUp ==
  ASSUME KeepInv, MaxIters # 0, GiveUp
  PROVE  KeepInv'
BY DEF KeepInv, GiveUp, Kept

LEMMA KeepCheck ==
  ASSUME KeepInv, Check
  PROVE  KeepInv'
BY DEF KeepInv, Check, Better, NotBetter, Kept

LEMMA KeepPass ==
  ASSUME KeepInv, SixPlaces, IndInv, PassMessages
  PROVE  KeepInv'
<1>1. reach' = NextReach(reach) /\ reach' \in Nat /\ reach' <= 112
  <2>1. NextReach(reach) \in Nat /\ NextReach(reach) <= 112
    BY ReachBound, SMT DEF KeepInv
  <2>2. reach' = IF reach < Large /\ NextReach(reach) \in 0 .. Large - 1
                 THEN NextReach(reach) ELSE Large
    BY DEF PassMessages
  <2>3. reach < Large
    BY SMT DEF KeepInv, Large
  <2>4. NextReach(reach) \in 0 .. Large - 1
    BY <2>1, SMT DEF Large
  <2> QED
    BY <2>1, <2>2, <2>3, <2>4, Zenon
<1>2. 3 * reach' < 1000
  BY <1>1, SMT
<1>3. /\ pc = "pass" /\ pc' = "guess" /\ plain' = plain /\ llr' = llr
      /\ \E belief \in Beliefs :
           positive' = {p \in Bits : IF llr[p] # 0 /\ 3 * reach' < 1000 THEN llr[p] > 0
                                     ELSE p \in belief}
  BY DEF PassMessages
<1>4. Kept(positive)'
  BY <1>2, <1>3, SMT DEF Kept
<1>5. Kept(plain)'
  BY <1>3 DEF KeepInv, Kept
<1> QED
  BY <1>1, <1>3, <1>4, <1>5, SMT DEF KeepInv

LEMMA KeepVerdict ==
  ASSUME KeepInv, Reject \/ Verify
  PROVE  KeepInv'
BY DEF KeepInv, Reject, Verify, Kept, InDecode, NoResult

(* A tone that was heard is never corrected, if there is a turn at all and *)
(* every check has six places or more, as those of the program have.       *)
THEOREM HeardIsNeverCorrected ==
  ASSUME MaxIters # 0, SixPlaces
  PROVE  Spec => []HeardIsKept
<1>1. Init => KeepInv
  BY SMT DEF Init, KeepInv, Kept
<1>2. IndInv /\ IndInv' /\ KeepInv /\ [Next]_vars => KeepInv'
  <2> SUFFICES ASSUME IndInv, IndInv', KeepInv, [Next]_vars PROVE KeepInv'
    OBVIOUS
  <2>1. CASE UNCHANGED vars
    BY <2>1 DEF vars, KeepInv, Kept
  <2>2. CASE Next
    BY <2>2, KeepDemap, KeepGuess, KeepGiveUp, KeepCheck, KeepPass, KeepVerdict DEF Next
  <2> QED
    BY <2>1, <2>2
<1>3. KeepInv => HeardIsKept
  BY DEF KeepInv, Kept, HeardIsKept
<1> QED
  BY <1>1, <1>2, <1>3, Inductive, PTL DEF Spec

-----------------------------------------------------------------------------
(* The CRC is linear                                                       *)

Registers == SUBSET Int

LEMMA BoundedInduction ==
  ASSUME NEW K \in Nat, NEW S, 0 \in S, \A n \in Nat : n < K /\ n \in S => n + 1 \in S
  PROVE  0 .. K \subseteq S
<1> DEFINE Good == {n \in Nat : n <= K => n \in S}
<1>1. 0 \in Good
  OBVIOUS
<1>2. ASSUME NEW n \in Nat, n \in Good PROVE n + 1 \in Good
  BY <1>2
<1> HIDE DEF Good
<1>3. Nat \subseteq Good
  BY <1>1, <1>2, SetInduction
<1> QED
  BY <1>3 DEF Good

(* Two functions that start alike and go on alike are alike.               *)
LEMMA SameSequence ==
  ASSUME NEW K \in Nat, NEW f, NEW g, f[0] = g[0],
         \A n \in 1 .. K : f[n - 1] = g[n - 1] => f[n] = g[n]
  PROVE  \A n \in 0 .. K : f[n] = g[n]
<1> DEFINE Same == {n \in Nat : f[n] = g[n]}
<1>1. ASSUME NEW n \in Nat, n < K, n \in Same PROVE n + 1 \in Same
  <2>1. n + 1 \in 1 .. K /\ (n + 1) - 1 = n
    BY <1>1
  <2> QED
    BY <1>1, <2>1
<1>2. 0 \in Same
  OBVIOUS
<1> HIDE DEF Same
<1>3. 0 .. K \subseteq Same
  BY <1>1, <1>2, BoundedInduction
<1> QED
  BY <1>3 DEF Same

LEMMA InSymDiff ==
  ASSUME NEW a, NEW b, NEW x
  PROVE  x \in SymDiff(a, b) <=> ~(x \in a <=> x \in b)
BY DEF SymDiff

(* Two sets are the sum of two others if they are so at every place.       *)
LEMMA SumOfSets ==
  ASSUME NEW a \in Registers, NEW b \in Registers, NEW c \in Registers,
         \A x \in Int : x \in c <=> ~(x \in a <=> x \in b)
  PROVE  c = SymDiff(a, b)
BY DEF SymDiff, Registers

LEMMA SumsOfSums ==
  ASSUME NEW a, NEW b, NEW c, NEW d
  PROVE  SymDiff(SymDiff(a, b), SymDiff(c, d)) = SymDiff(SymDiff(a, c), SymDiff(b, d))
<1>1. ASSUME NEW x
      PROVE  x \in SymDiff(SymDiff(a, b), SymDiff(c, d))
               <=> x \in SymDiff(SymDiff(a, c), SymDiff(b, d))
  BY Zenon DEF SymDiff
<1> QED
  BY <1>1

LEMMA InDivideBit ==
  ASSUME NEW r \in Registers, NEW k \in Int
  PROVE  k \in DivideBit(r)
           <=> ~(k - 1 \in r /\ k \in 0 .. 15 <=> 13 \in r /\ k \in FT8_CRC_POLYNOMIAL)
<1> DEFINE shifted == {j + 1 : j \in r} \intersect 0 .. 15
<1>1. k \in shifted <=> k - 1 \in r /\ k \in 0 .. 15
  BY DEF Registers
<1>2. DivideBit(r) = IF 13 \in r THEN SymDiff(shifted, FT8_CRC_POLYNOMIAL) ELSE shifted
  BY DEF DivideBit
<1> HIDE DEF shifted
<1>3. k \in SymDiff(shifted, FT8_CRC_POLYNOMIAL)
        <=> ~(k \in shifted <=> k \in FT8_CRC_POLYNOMIAL)
  BY InSymDiff
<1> QED
  BY <1>1, <1>2, <1>3, Zenon

LEMMA DivideBitType ==
  ASSUME NEW r \in Registers
  PROVE  DivideBit(r) \in Registers
BY DEF DivideBit, SymDiff, Registers, FT8_CRC_POLYNOMIAL

LEMMA SymDiffType ==
  ASSUME NEW a \in Registers, NEW b \in Registers
  PROVE  SymDiff(a, b) \in Registers
BY DEF SymDiff, Registers

LEMMA DivideBitLinear ==
  ASSUME NEW a \in Registers, NEW b \in Registers
  PROVE  DivideBit(SymDiff(a, b)) = SymDiff(DivideBit(a), DivideBit(b))
<1>1. SymDiff(a, b) \in Registers
  BY SymDiffType
<1>2. ASSUME NEW k \in Int
      PROVE  k \in DivideBit(SymDiff(a, b)) <=> ~(k \in DivideBit(a) <=> k \in DivideBit(b))
  <2>1. /\ k - 1 \in SymDiff(a, b) <=> ~(k - 1 \in a <=> k - 1 \in b)
        /\ 13 \in SymDiff(a, b) <=> ~(13 \in a <=> 13 \in b)
    BY InSymDiff
  <2> QED
    BY <1>1, <2>1, InDivideBit, Zenon
<1> QED
  BY <1>1, <1>2, DivideBitType, SumOfSets

LEMMA InNextByte ==
  ASSUME NEW bits, NEW k \in Int, NEW x \in Int
  PROVE  x \in NextByte(bits, k) <=> 13 - x \in 0 .. 7 /\ 8 * k + (13 - x) + 1 \in bits
BY DEF NextByte

LEMMA NextByteType ==
  ASSUME NEW bits, NEW k \in Int
  PROVE  NextByte(bits, k) \in Registers
BY DEF NextByte, Registers

LEMMA NextByteLinear ==
  ASSUME NEW a, NEW b, NEW k \in Int
  PROVE  NextByte(SymDiff(a, b), k) = SymDiff(NextByte(a, k), NextByte(b, k))
<1>1. ASSUME NEW x \in Int
      PROVE  x \in NextByte(SymDiff(a, b), k) <=> ~(x \in NextByte(a, k) <=> x \in NextByte(b, k))
  <2>1. PICK y : y = 8 * k + (13 - x) + 1
    OBVIOUS
  <2>2. /\ x \in NextByte(SymDiff(a, b), k) <=> 13 - x \in 0 .. 7 /\ y \in SymDiff(a, b)
        /\ x \in NextByte(a, k) <=> 13 - x \in 0 .. 7 /\ y \in a
        /\ x \in NextByte(b, k) <=> 13 - x \in 0 .. 7 /\ y \in b
    BY <2>1, InNextByte
  <2> QED
    BY <2>2, InSymDiff, Zenon
<1> QED
  BY <1>1, NextByteType, SumOfSets

(* The turns of the loop for one byte.                                     *)
Division(c, first) ==
  c \in [0 .. 8 -> Registers] /\ c[0] = first /\ \A i \in 1 .. 8 : c[i] = DivideBit(c[i - 1])

BitsOfByte(n, k) == IF n - 8 * k < 8 THEN n - 8 * k ELSE 8

LEMMA DivisionExists ==
  ASSUME NEW first \in Registers
  PROVE  \E c : Division(c, first)
<1> DEFINE h == [n \in Nat \ {0} |-> [x \in Registers |-> DivideBit(x)]]
<1>1. Steps(h, Registers)
  BY DivideBitType DEF Steps
<1>2. \A n \in Nat \ {0}, x \in Registers : h[n][x] = DivideBit(x)
  OBVIOUS
<1> HIDE DEF h
<1>3. PICK f : Recursion(f, Registers, first, h, 8)
  BY <1>1, RecursionExists
<1>4. ASSUME NEW i \in 1 .. 8 PROVE f[i] = DivideBit(f[i - 1])
  <2>1. i \in Nat \ {0} /\ f[i - 1] \in Registers
    BY <1>3 DEF Recursion
  <2> QED
    BY <1>2, <1>3, <2>1 DEF Recursion
<1> QED
  BY <1>3, <1>4 DEF Recursion, Division

LEMMA DivisionLinear ==
  ASSUME NEW p, NEW q, NEW s, NEW a \in Registers, NEW b \in Registers,
         Division(p, a), Division(q, b), Division(s, SymDiff(a, b))
  PROVE  \A i \in 0 .. 8 : s[i] = SymDiff(p[i], q[i])
<1> DEFINE sum == [i \in 0 .. 8 |-> SymDiff(p[i], q[i])]
<1>1. s[0] = sum[0]
  BY DEF Division
<1>2. ASSUME NEW i \in 1 .. 8, s[i - 1] = sum[i - 1] PROVE s[i] = sum[i]
  <2>1. i - 1 \in 0 .. 8 /\ i \in 0 .. 8
    OBVIOUS
  <2>2. p[i - 1] \in Registers /\ q[i - 1] \in Registers
    BY <2>1 DEF Division
  <2>3. s[i] = DivideBit(SymDiff(p[i - 1], q[i - 1]))
    BY <1>2, <2>1 DEF Division
  <2> QED
    BY <2>1, <2>2, <2>3, DivideBitLinear DEF Division
<1> HIDE DEF sum
<1>3. \A i \in 0 .. 8 : s[i] = sum[i]
  BY <1>1, <1>2, SameSequence
<1> QED
  BY <1>3 DEF sum

(* A remainder of zero stays zero: the shortcut is the division.           *)
LEMMA DivisionOfZero ==
  ASSUME NEW c, Division(c, {})
  PROVE  \A i \in 0 .. 8 : c[i] = {}
<1> DEFINE zero == [i \in 0 .. 8 |-> {}]
<1>1. DivideBit({}) = {}
  BY DEF DivideBit
<1>2. c[0] = zero[0] /\ \A i \in 1 .. 8 : c[i - 1] = zero[i - 1] => c[i] = zero[i]
  BY <1>1 DEF Division
<1> HIDE DEF zero
<1>3. \A i \in 0 .. 8 : c[i] = zero[i]
  BY <1>2, SameSequence
<1> QED
  BY <1>3 DEF zero

LEMMA DivideByteIs ==
  ASSUME NEW bits, NEW r \in Registers, NEW n \in Nat, NEW k \in Nat, 8 * k < n
  PROVE  \E c : /\ Division(c, SymDiff(r, NextByte(bits, k)))
                /\ DivideByte(bits, n, r, k) = c[BitsOfByte(n, k)]
<1> DEFINE first == SymDiff(r, NextByte(bits, k))
           Body(f) == [i \in 0 .. 8 |-> IF i = 0 THEN first ELSE DivideBit(f[i - 1])]
           turn == CHOOSE f : f = Body(f)
<1>1. DivideByte(bits, n, r, k) = IF first = {} THEN {} ELSE turn[BitsOfByte(n, k)]
  BY DEF DivideByte, BitsOfByte
<1>2. first \in Registers
  BY SymDiffType, NextByteType
<1> HIDE DEF first
<1>3. PICK c : Division(c, first)
  BY <1>2, DivisionExists
<1>4. c = Body(c)
  <2>1. ASSUME NEW i \in 0 .. 8
        PROVE  c[i] = IF i = 0 THEN first ELSE DivideBit(c[i - 1])
    BY <1>3 DEF Division
  <2>2. c \in [0 .. 8 -> Registers]
    BY <1>3 DEF Division
  <2> QED
    BY <2>1, <2>2
<1> HIDE DEF Body
<1>5. turn = Body(turn)
  BY <1>4
<1> HIDE DEF turn
<1>6. turn[0] = c[0] /\ \A i \in 1 .. 8 : turn[i - 1] = c[i - 1] => turn[i] = c[i]
  BY <1>3, <1>5 DEF Body, Division
<1>7. \A i \in 0 .. 8 : turn[i] = c[i]
  BY <1>6, SameSequence
<1>8. BitsOfByte(n, k) \in 0 .. 8
  BY DEF BitsOfByte
<1>9. first = {} => c[BitsOfByte(n, k)] = {}
  BY <1>3, <1>8, DivisionOfZero
<1> WITNESS c
<1> QED
  BY <1>1, <1>3, <1>7, <1>8, <1>9 DEF first

LEMMA DivideByteType ==
  ASSUME NEW bits, NEW r \in Registers, NEW n \in Nat, NEW k \in Nat, 8 * k < n
  PROVE  DivideByte(bits, n, r, k) \in Registers
<1>1. BitsOfByte(n, k) \in 0 .. 8
  BY DEF BitsOfByte
<1> QED
  BY <1>1, DivideByteIs DEF Division

LEMMA DivideByteLinear ==
  ASSUME NEW a, NEW b, NEW r \in Registers, NEW s \in Registers,
         NEW n \in Nat, NEW k \in Nat, 8 * k < n
  PROVE  DivideByte(SymDiff(a, b), n, SymDiff(r, s), k)
           = SymDiff(DivideByte(a, n, r, k), DivideByte(b, n, s, k))
<1> DEFINE c == SymDiff(r, NextByte(a, k))
           d == SymDiff(s, NextByte(b, k))
<1>1. c \in Registers /\ d \in Registers /\ SymDiff(r, s) \in Registers
  BY SymDiffType, NextByteType
<1>2. SymDiff(SymDiff(r, s), NextByte(SymDiff(a, b), k)) = SymDiff(c, d)
  BY NextByteLinear, SumsOfSums
<1> HIDE DEF c, d
<1>3. PICK p : Division(p, c) /\ DivideByte(a, n, r, k) = p[BitsOfByte(n, k)]
  BY DivideByteIs DEF c
<1>4. PICK q : Division(q, d) /\ DivideByte(b, n, s, k) = q[BitsOfByte(n, k)]
  BY DivideByteIs DEF d
<1>5. PICK t : /\ Division(t, SymDiff(c, d))
               /\ DivideByte(SymDiff(a, b), n, SymDiff(r, s), k) = t[BitsOfByte(n, k)]
  BY <1>1, <1>2, DivideByteIs
<1>6. BitsOfByte(n, k) \in 0 .. 8
  BY DEF BitsOfByte
<1> QED
  BY <1>1, <1>3, <1>4, <1>5, <1>6, DivisionLinear

(* The remainders after each byte.                                         *)
Bytes(n) == (n + 7) \div 8
Remainders(c, bits, n) ==
  /\ c \in [0 .. Bytes(n) -> Registers] /\ c[0] = {}
  /\ \A k \in 1 .. Bytes(n) : c[k] = DivideByte(bits, n, c[k - 1], k - 1)

LEMMA BytesOfBits ==
  ASSUME NEW n \in Nat
  PROVE  Bytes(n) \in Nat /\ \A k \in 1 .. Bytes(n) : k - 1 \in Nat /\ 8 * (k - 1) < n
<1>1. Bytes(n) \in Nat /\ 8 * Bytes(n) <= n + 7
  BY SMT DEF Bytes
<1> QED
  BY <1>1

LEMMA RemaindersExist ==
  ASSUME NEW bits, NEW n \in Nat
  PROVE  \E c : Remainders(c, bits, n)
<1> DEFINE h == [k \in Nat \ {0} |-> [x \in Registers |->
                  IF k <= Bytes(n) THEN DivideByte(bits, n, x, k - 1) ELSE x]]
<1>1. Bytes(n) \in Nat
  BY BytesOfBits
<1>2. Steps(h, Registers)
  <2>1. ASSUME NEW k \in Nat \ {0}, NEW x \in Registers, k <= Bytes(n)
        PROVE  DivideByte(bits, n, x, k - 1) \in Registers
    BY <1>1, <2>1, BytesOfBits, DivideByteType
  <2> QED
    BY <2>1 DEF Steps
<1>3. \A k \in 1 .. Bytes(n), x \in Registers : h[k][x] = DivideByte(bits, n, x, k - 1)
  BY <1>1
<1> HIDE DEF h
<1>4. {} \in Registers
  BY DEF Registers
<1>5. PICK c : Recursion(c, Registers, {}, h, Bytes(n))
  BY <1>1, <1>2, <1>4, RecursionExists
<1>6. ASSUME NEW k \in 1 .. Bytes(n) PROVE c[k] = DivideByte(bits, n, c[k - 1], k - 1)
  <2>1. c[k - 1] \in Registers
    BY <1>1, <1>5 DEF Recursion
  <2> QED
    BY <1>3, <1>5, <2>1 DEF Recursion
<1> QED
  BY <1>5, <1>6 DEF Recursion, Remainders

LEMMA ComputeCrcIs ==
  ASSUME NEW bits, NEW n \in Nat
  PROVE  \E c : Remainders(c, bits, n) /\ ComputeCrc(bits, n) = c[Bytes(n)] \intersect 0 .. 13
<1> DEFINE Body(f) == [k \in 0 .. Bytes(n) |->
                        IF k = 0 THEN {} ELSE DivideByte(bits, n, f[k - 1], k - 1)]
           remainder == CHOOSE f : f = Body(f)
<1>1. ComputeCrc(bits, n) = remainder[Bytes(n)] \intersect 0 .. 13
  BY DEF ComputeCrc, Bytes
<1>2. PICK c : Remainders(c, bits, n)
  BY RemaindersExist
<1>3. Bytes(n) \in Nat
  BY BytesOfBits
<1>4. c = Body(c)
  <2>1. ASSUME NEW k \in 0 .. Bytes(n)
        PROVE  c[k] = IF k = 0 THEN {} ELSE DivideByte(bits, n, c[k - 1], k - 1)
    BY <1>2, <1>3 DEF Remainders
  <2>2. c \in [0 .. Bytes(n) -> Registers]
    BY <1>2 DEF Remainders
  <2> QED
    BY <2>1, <2>2
<1> HIDE DEF Body
<1>5. remainder = Body(remainder)
  BY <1>4
<1> HIDE DEF remainder
<1>6. ASSUME NEW k \in 0 .. Bytes(n)
      PROVE  remainder[k] = IF k = 0 THEN {} ELSE DivideByte(bits, n, remainder[k - 1], k - 1)
  BY <1>5 DEF Body
<1>7. remainder[0] = c[0]
  BY <1>2, <1>3, <1>6 DEF Remainders
<1>8. ASSUME NEW k \in 1 .. Bytes(n), remainder[k - 1] = c[k - 1] PROVE remainder[k] = c[k]
  BY <1>2, <1>3, <1>6, <1>8 DEF Remainders
<1>9. \A k \in 0 .. Bytes(n) : remainder[k] = c[k]
  BY <1>3, <1>7, <1>8, SameSequence
<1> QED
  BY <1>1, <1>2, <1>3, <1>9

(* The CRC of a sum is the sum of the CRCs, for every number of bits.      *)
LEMMA CrcLinear ==
  ASSUME NEW a, NEW b, NEW n \in Nat
  PROVE  ComputeCrc(SymDiff(a, b), n) = SymDiff(ComputeCrc(a, n), ComputeCrc(b, n))
<1>1. PICK p : Remainders(p, a, n) /\ ComputeCrc(a, n) = p[Bytes(n)] \intersect 0 .. 13
  BY ComputeCrcIs
<1>2. PICK q : Remainders(q, b, n) /\ ComputeCrc(b, n) = q[Bytes(n)] \intersect 0 .. 13
  BY ComputeCrcIs
<1>3. PICK t : /\ Remainders(t, SymDiff(a, b), n)
               /\ ComputeCrc(SymDiff(a, b), n) = t[Bytes(n)] \intersect 0 .. 13
  BY ComputeCrcIs
<1> DEFINE sum == [k \in 0 .. Bytes(n) |-> SymDiff(p[k], q[k])]
<1>4. Bytes(n) \in Nat
  BY BytesOfBits
<1>5. t[0] = sum[0]
  BY <1>1, <1>2, <1>3, <1>4 DEF Remainders, SymDiff
<1>6. ASSUME NEW k \in 1 .. Bytes(n), t[k - 1] = sum[k - 1] PROVE t[k] = sum[k]
  <2>1. k - 1 \in 0 .. Bytes(n) /\ k \in 0 .. Bytes(n)
    BY <1>4
  <2>2. p[k - 1] \in Registers /\ q[k - 1] \in Registers
    BY <1>1, <1>2, <2>1 DEF Remainders
  <2>3. t[k] = DivideByte(SymDiff(a, b), n, SymDiff(p[k - 1], q[k - 1]), k - 1)
    BY <1>3, <1>6, <2>1 DEF Remainders
  <2>4. k - 1 \in Nat /\ 8 * (k - 1) < n
    BY BytesOfBits
  <2>5. t[k] = SymDiff(DivideByte(a, n, p[k - 1], k - 1), DivideByte(b, n, q[k - 1], k - 1))
    BY <2>2, <2>3, <2>4, DivideByteLinear
  <2> QED
    BY <1>1, <1>2, <2>1, <2>5 DEF Remainders
<1> HIDE DEF sum
<1>7. \A k \in 0 .. Bytes(n) : t[k] = sum[k]
  BY <1>4, <1>5, <1>6, SameSequence
<1>8. t[Bytes(n)] = SymDiff(p[Bytes(n)], q[Bytes(n)])
  BY <1>4, <1>7 DEF sum
<1> QED
  BY <1>1, <1>2, <1>3, <1>8, Zenon DEF SymDiff

LEMMA Cancel ==
  ASSUME NEW u, NEW x, NEW y
  PROVE  SymDiff(u, x) = SymDiff(u, y) <=> x = y
<1> SUFFICES ASSUME SymDiff(u, x) = SymDiff(u, y), NEW e PROVE e \in x <=> e \in y
  OBVIOUS
<1>1. e \in SymDiff(u, x) <=> e \in SymDiff(u, y)
  OBVIOUS
<1> QED
  BY <1>1, InSymDiff, Zenon

LEMMA ExtractLinear ==
  ASSUME NEW a, NEW b
  PROVE  ExtractCrc(SymDiff(a, b)) = SymDiff(ExtractCrc(a), ExtractCrc(b))
<1>1. ASSUME NEW info, NEW x \in Int
      PROVE  x \in ExtractCrc(info) <=> 91 - x \in 78 .. 91 /\ 91 - x \in info
  BY DEF ExtractCrc
<1>2. \A info : ExtractCrc(info) \in Registers
  BY DEF ExtractCrc, Registers
<1>3. ASSUME NEW x \in Int
      PROVE  x \in ExtractCrc(SymDiff(a, b)) <=> ~(x \in ExtractCrc(a) <=> x \in ExtractCrc(b))
  <2>1. PICK y : y = 91 - x
    OBVIOUS
  <2>2. /\ x \in ExtractCrc(SymDiff(a, b)) <=> y \in 78 .. 91 /\ y \in SymDiff(a, b)
        /\ x \in ExtractCrc(a) <=> y \in 78 .. 91 /\ y \in a
        /\ x \in ExtractCrc(b) <=> y \in 78 .. 91 /\ y \in b
    BY <1>1, <2>1
  <2> QED
    BY <2>2, InSymDiff, Zenon
<1> QED
  BY <1>2, <1>3, SumOfSets

(* A right word and damage have a right CRC if the damage alone has one.   *)
LEMMA CrcOfDamage ==
  ASSUME NEW a, NEW b, CrcRight(a)
  PROVE  CrcRight(SymDiff(a, b)) <=> CrcRight(b)
<1>1. Payload77(SymDiff(a, b)) = SymDiff(Payload77(a), Payload77(b))
  BY Zenon DEF Payload77, SymDiff
<1>2. ComputeCrc(Payload77(SymDiff(a, b)), 82)
        = SymDiff(ComputeCrc(Payload77(a), 82), ComputeCrc(Payload77(b), 82))
  BY <1>1, CrcLinear
<1>3. ExtractCrc(a) = ComputeCrc(Payload77(a), 82)
  BY DEF CrcRight
<1> QED
  BY <1>2, <1>3, ExtractLinear, Cancel DEF CrcRight

(* Whether the CRC notices damage depends on the damage alone and not on   *)
(* the word that it was done to: what CrcSeesTwoFlips says of one word is  *)
(* so of every word with a right CRC.                                      *)
THEOREM DamageIsSeenAlike ==
  ASSUME NEW word, NEW other, CrcRight(Info(word)), CrcRight(Info(other)), NEW damage
  PROVE  CrcRight(SymDiff(Info(word), damage)) <=> CrcRight(SymDiff(Info(other), damage))
BY CrcOfDamage

LEMMA SumIsBack ==
  ASSUME NEW a, NEW b
  PROVE  SymDiff(a, SymDiff(a, b)) = b
<1>1. ASSUME NEW e PROVE e \in SymDiff(a, SymDiff(a, b)) <=> e \in b
  BY Zenon DEF SymDiff
<1> QED
  BY <1>1

(* If the CRC notices any two flips in one word, then any two words with a *)
(* right CRC differ in three places or more.                               *)
THEOREM RightWordsDiffer ==
  ASSUME NEW word, CrcRight(Info(word)),
         \A p, q \in 1 .. FTX_LDPC_K : ~CrcRight(SymDiff(Info(word), {p} \union {q})),
         NEW a, NEW b, CrcRight(a), CrcRight(b)
  PROVE  \A p, q \in 1 .. FTX_LDPC_K : SymDiff(a, b) # {p} \union {q}
<1> SUFFICES ASSUME NEW p \in 1 .. FTX_LDPC_K, NEW q \in 1 .. FTX_LDPC_K,
                    SymDiff(a, b) = {p} \union {q}
             PROVE  FALSE
  OBVIOUS
<1>1. CrcRight(SymDiff(a, b))
  BY SumIsBack, CrcOfDamage
<1> QED
  BY <1>1, CrcOfDamage

-----------------------------------------------------------------------------
(* The parity checks are linear                                            *)

LEMMA ParityOfSum ==
  ASSUME NEW a, NEW b, IsFiniteSet(a), IsFiniteSet(b)
  PROVE  Cardinality(SymDiff(a, b)) % 2 = 1
           <=> ~(Cardinality(a) % 2 = 1 <=> Cardinality(b) % 2 = 1)
<1> DEFINE k == Cardinality(a)
           l == Cardinality(b)
           both == Cardinality(a \intersect b)
<1>1. /\ IsFiniteSet(a \ b) /\ Cardinality(a \ b) = k - both
      /\ IsFiniteSet(b \ a) /\ Cardinality(b \ a) = l - Cardinality(b \intersect a)
  BY FS_Difference, Zenon
<1>2. b \intersect a = a \intersect b /\ (a \ b) \intersect (b \ a) = {}
  OBVIOUS
<1>3. Cardinality(SymDiff(a, b)) = Cardinality(a \ b) + Cardinality(b \ a) - Cardinality({})
  <2>1. Cardinality((a \ b) \union (b \ a))
          = Cardinality(a \ b) + Cardinality(b \ a) - Cardinality((a \ b) \intersect (b \ a))
    BY <1>1, FS_Union, Zenon
  <2> QED
    BY <1>2, <2>1, Zenon DEF SymDiff
<1>4. k \in Nat /\ l \in Nat /\ both \in Nat /\ Cardinality({}) = 0
  BY FS_CardinalityType, FS_Intersection, FS_EmptySet
<1>5. Cardinality(SymDiff(a, b)) = k + l - 2 * both
  <2>1. Cardinality(SymDiff(a, b)) = (k - both) + (l - both) - 0
    BY <1>1, <1>2, <1>3, <1>4, Zenon
  <2> HIDE DEF k, l, both
  <2> QED
    BY <1>4, <2>1
<1> HIDE DEF k, l, both
<1>6. (k + l - 2 * both) % 2 = 1 <=> ~(k % 2 = 1 <=> l % 2 = 1)
  BY <1>4
<1> QED
  BY <1>5, <1>6 DEF k, l

LEMMA RowsFinite ==
  ASSUME NEW m \in 1 .. Len(Rows), NEW word
  PROVE  IsFiniteSet(Rows[m] \intersect word)
<1>1. Rows[m] \subseteq Bits
  BY RowsAssumption DEF Words
<1>2. IsFiniteSet(Bits)
  BY NType, FS_Interval DEF Bits
<1> QED
  BY <1>1, <1>2, FS_Subset, FS_Intersection

LEMMA OddRowsLinear ==
  ASSUME NEW a, NEW b
  PROVE  OddRows(SymDiff(a, b)) = SymDiff(OddRows(a), OddRows(b))
<1>1. ASSUME NEW m \in 1 .. Len(Rows)
      PROVE  m \in OddRows(SymDiff(a, b)) <=> ~(m \in OddRows(a) <=> m \in OddRows(b))
  <2>1. Rows[m] \intersect SymDiff(a, b) = SymDiff(Rows[m] \intersect a, Rows[m] \intersect b)
    BY DEF SymDiff
  <2>2. \A word : m \in OddRows(word) <=> Cardinality(Rows[m] \intersect word) % 2 = 1
    BY DEF OddRows
  <2>3. IsFiniteSet(Rows[m] \intersect a) /\ IsFiniteSet(Rows[m] \intersect b)
    BY RowsFinite
  <2>4. Cardinality(SymDiff(Rows[m] \intersect a, Rows[m] \intersect b)) % 2 = 1
          <=> ~(Cardinality(Rows[m] \intersect a) % 2 = 1
                <=> Cardinality(Rows[m] \intersect b) % 2 = 1)
    BY <2>3, ParityOfSum
  <2> QED
    BY <2>1, <2>2, <2>4, Zenon
<1>2. \A word : OddRows(word) \subseteq 1 .. Len(Rows)
  BY DEF OddRows
<1> QED
  BY <1>1, <1>2 DEF SymDiff

(* How many checks a damaged code word fails depends on the damage alone.  *)
THEOREM ErrorsOfDamage ==
  ASSUME NEW word, OddRows(word) = {}, NEW damage
  PROVE  ParityErrors(SymDiff(word, damage)) = ParityErrors(damage)
<1>1. OddRows(SymDiff(word, damage)) = OddRows(damage)
  BY OddRowsLinear DEF SymDiff
<1> QED
  BY <1>1 DEF ParityErrors

(* A transmission of a code word that is heard without a fault is never    *)
(* accepted, if a check has an odd number of places, as some of the        *)
(* program have: the guesses are the complement of what was sent           *)
(* (CleanFirstGuess), belief propagation keeps them (HeardIsKept), and     *)
(* they fail that check.                                                   *)
Clean == tones = Transmission(sent) /\ OddRows(sent) = {}

THEOREM CleanIsRejected ==
  ASSUME MaxIters # 0, SixPlaces, NEW m \in DOMAIN Rows, Cardinality(Rows[m]) % 2 = 1
  PROVE  Spec => [](Clean /\ pc = "done" => minErrors > 0 /\ ~crcOk /\ text = "none")
<1> DEFINE Rejected == Clean /\ pc = "done" => minErrors > 0 /\ ~crcOk /\ text = "none"
<1>1. IndInv /\ SurvivorsAreRight /\ HeardIsKept => Rejected
  <2> SUFFICES ASSUME IndInv, SurvivorsAreRight, HeardIsKept, Clean, pc = "done",
                      minErrors = 0 \/ crcOk \/ text # "none"
               PROVE  FALSE
    BY DEF IndInv, TypeOK
  <2>1. minErrors = 0 /\ OddRows(plain) = {}
    BY NoErrors DEF IndInv, Outcome, Perfect, TypeOK
  <2>2. ASSUME NEW p \in Bits PROVE p \in plain <=> p \notin sent
    <3>1. PICK i \in DataPlaces, b \in 1 .. 3 : Place(i, b) = p
      BY EveryPlaceIsRead
    <3>2. i \in DOMAIN tones /\ tones[i] = SentTone(sent, i)
      BY DEF Clean, Transmission, DataPlaces
    <3>3. llr[p] = IF p \in sent THEN -1 ELSE 1
      BY <3>1, <3>2 DEF SurvivorsAreRight, DataPlaces
    <3> QED
      BY <3>3 DEF HeardIsKept
  <2>3. plain = SymDiff(Bits, sent)
    BY <2>2 DEF SymDiff, IndInv, TypeOK, Words
  <2>4. m \in 1 .. Len(Rows) /\ Rows[m] \intersect Bits = Rows[m]
    BY RowsAssumption DEF Words
  <2>5. m \in OddRows(Bits)
    BY <2>4 DEF OddRows
  <2> QED
    BY <2>1, <2>3, <2>5, OddRowsLinear DEF Clean, SymDiff
<1> QED
  BY <1>1, Inductive, DemapsSurvivors, HeardIsNeverCorrected, PTL

-----------------------------------------------------------------------------
(* The encoder                                                             *)

InfoBits == SUBSET (1 .. FTX_LDPC_K)

LEMMA EncoderLinear ==
  ASSUME NEW table, table \in Seq(InfoBits), NEW a \in InfoBits, NEW b \in InfoBits
  PROVE  /\ SymDiff(a, b) \in InfoBits
         /\ WithParity(table, SymDiff(a, b)) = SymDiff(WithParity(table, a), WithParity(table, b))
<1> DEFINE Odd(info) == {m \in DOMAIN table : Cardinality(table[m] \intersect info) % 2 = 1}
           Parity(info) == {FTX_LDPC_K + m : m \in Odd(info)}
<1>1. SymDiff(a, b) \in InfoBits
  BY DEF SymDiff, InfoBits
<1>2. Odd(SymDiff(a, b)) = SymDiff(Odd(a), Odd(b))
  <2>1. ASSUME NEW m \in DOMAIN table
        PROVE  m \in Odd(SymDiff(a, b)) <=> ~(m \in Odd(a) <=> m \in Odd(b))
    <3>1. table[m] \intersect SymDiff(a, b)
            = SymDiff(table[m] \intersect a, table[m] \intersect b)
      BY DEF SymDiff
    <3>2. IsFiniteSet(1 .. FTX_LDPC_K)
      <4>1. FTX_LDPC_K \in Int
        BY DEF FTX_LDPC_K
      <4> QED
        BY <4>1, FS_Interval
    <3>3. IsFiniteSet(a) /\ IsFiniteSet(b)
      BY <3>2, FS_Subset DEF InfoBits
    <3>4. IsFiniteSet(table[m] \intersect a) /\ IsFiniteSet(table[m] \intersect b)
      BY <3>3, FS_Intersection
    <3>5. \A info : m \in Odd(info) <=> Cardinality(table[m] \intersect info) % 2 = 1
      OBVIOUS
    <3> HIDE DEF Odd
    <3>6. Cardinality(SymDiff(table[m] \intersect a, table[m] \intersect b)) % 2 = 1
            <=> ~(Cardinality(table[m] \intersect a) % 2 = 1
                  <=> Cardinality(table[m] \intersect b) % 2 = 1)
      BY <3>4, ParityOfSum
    <3> QED
      BY <3>1, <3>5, <3>6, Zenon
  <2>2. \A info : Odd(info) \subseteq DOMAIN table
    OBVIOUS
  <2> HIDE DEF Odd
  <2> QED
    BY <2>1, <2>2 DEF SymDiff
<1>3. \A info : WithParity(table, info) = info \union Parity(info)
  BY DEF WithParity
<1>4. \A info : Odd(info) \subseteq Nat \ {0}
  OBVIOUS
<1> HIDE DEF Odd
<1>5. Parity(SymDiff(a, b)) = SymDiff(Parity(a), Parity(b))
  <2>1. \A info : Parity(info) \subseteq Int
    BY <1>4 DEF FTX_LDPC_K
  <2>2. ASSUME NEW info, NEW x \in Int PROVE x \in Parity(info) <=> x - FTX_LDPC_K \in Odd(info)
    BY <1>4 DEF FTX_LDPC_K
  <2> HIDE DEF Parity
  <2>3. ASSUME NEW x \in Int
        PROVE  x \in Parity(SymDiff(a, b)) <=> ~(x \in Parity(a) <=> x \in Parity(b))
    <3>1. PICK y : y = x - FTX_LDPC_K
      OBVIOUS
    <3>2. /\ x \in Parity(SymDiff(a, b)) <=> y \in SymDiff(Odd(a), Odd(b))
          /\ x \in Parity(a) <=> y \in Odd(a)
          /\ x \in Parity(b) <=> y \in Odd(b)
      BY <1>2, <2>2, <3>1
    <3>3. y \in SymDiff(Odd(a), Odd(b)) <=> ~(y \in Odd(a) <=> y \in Odd(b))
      BY InSymDiff
    <3> QED
      BY <3>2, <3>3, Zenon
  <2> QED
    BY <2>1, <2>3, SumOfSets DEF Registers
<1>6. ASSUME NEW info, NEW x \in Parity(info) PROVE x \notin 1 .. FTX_LDPC_K
  <2> SUFFICES ASSUME x \in 1 .. FTX_LDPC_K PROVE FALSE
    OBVIOUS
  <2>1. PICK m \in Nat \ {0} : x = FTX_LDPC_K + m
    BY <1>4
  <2> QED
    BY <2>1 DEF FTX_LDPC_K
<1> HIDE DEF Parity
<1>7. ASSUME NEW x
      PROVE  x \in WithParity(table, SymDiff(a, b))
               <=> x \in SymDiff(WithParity(table, a), WithParity(table, b))
  <2>0. /\ x \in SymDiff(WithParity(table, a), WithParity(table, b))
             <=> ~(x \in WithParity(table, a) <=> x \in WithParity(table, b))
        /\ x \in SymDiff(a, b) <=> ~(x \in a <=> x \in b)
        /\ x \in SymDiff(Parity(a), Parity(b)) <=> ~(x \in Parity(a) <=> x \in Parity(b))
    BY InSymDiff
  <2>1. CASE x \in 1 .. FTX_LDPC_K
    <3>1. \A info : x \notin Parity(info)
      BY <1>6, <2>1, Zenon
    <3>2. x \in WithParity(table, SymDiff(a, b)) <=> x \in SymDiff(a, b)
      BY <1>1, <1>3, <3>1
    <3>3. x \in WithParity(table, a) <=> x \in a
      BY <1>3, <3>1
    <3>4. x \in WithParity(table, b) <=> x \in b
      BY <1>3, <3>1
    <3> QED
      BY <2>0, <3>2, <3>3, <3>4, Zenon
  <2>2. CASE x \notin 1 .. FTX_LDPC_K
    <3>1. \A info \in InfoBits : x \notin info
      BY <2>2 DEF InfoBits
    <3>2. x \in WithParity(table, SymDiff(a, b)) <=> x \in Parity(SymDiff(a, b))
      BY <1>1, <1>3, <3>1
    <3>3. x \in WithParity(table, a) <=> x \in Parity(a)
      BY <1>3, <3>1
    <3>4. x \in WithParity(table, b) <=> x \in Parity(b)
      BY <1>3, <3>1
    <3> QED
      BY <1>5, <2>0, <3>2, <3>3, <3>4, Zenon
  <2> QED
    BY <2>1, <2>2, Zenon
<1> QED
  BY <1>1, <1>7

LEMMA NoOddRows ==
  ASSUME NEW word PROVE ParityErrors(word) = 0 <=> OddRows(word) = {}
BY NoErrors, FS_EmptySet DEF ParityErrors

(* If a table encodes each single bit to a word that passes all checks, as *)
(* TablesAgree says of the program's, it does so for every payload: one    *)
(* run over 91 words speaks of all of them.                                *)
THEOREM EncoderPassesChecks ==
  ASSUME NEW table \in Seq(InfoBits),
         \A p \in 1 .. FTX_LDPC_K : ParityErrors(WithParity(table, {p})) = 0,
         NEW info \in InfoBits
  PROVE  ParityErrors(WithParity(table, info)) = 0
<1> DEFINE Passes(i) == OddRows(WithParity(table, i)) = {}
           Good == {n \in Nat : n <= FTX_LDPC_K => \A i \in SUBSET (1 .. n) : Passes(i)}
<1>1. 0 \in Good
  <2>1. ASSUME NEW m \in DOMAIN table PROVE Cardinality(table[m] \intersect {}) % 2 # 1
    BY FS_EmptySet
  <2>2. WithParity(table, {}) = {}
    BY <2>1 DEF WithParity
  <2>3. ASSUME NEW m \in 1 .. Len(Rows) PROVE Cardinality(Rows[m] \intersect {}) % 2 # 1
    BY FS_EmptySet
  <2>4. Passes({})
    BY <2>2, <2>3 DEF OddRows
  <2>5. \A i \in SUBSET (1 .. 0) : i = {}
    OBVIOUS
  <2> HIDE DEF Passes
  <2> QED
    BY <2>4, <2>5
<1>2. ASSUME NEW n \in Nat, n \in Good PROVE n + 1 \in Good
  <2> SUFFICES ASSUME n + 1 <= FTX_LDPC_K, NEW i \in SUBSET (1 .. n + 1) PROVE Passes(i)
    BY DEF Good
  <2>1. n + 1 \in 1 .. FTX_LDPC_K /\ FTX_LDPC_K \in Nat /\ n <= FTX_LDPC_K
    BY DEF FTX_LDPC_K
  <2>2. \A j \in SUBSET (1 .. n) : Passes(j)
    BY <1>2, <2>1
  <2>3. CASE n + 1 \notin i
    <3>1. i \in SUBSET (1 .. n)
      BY <2>3
    <3> QED
      BY <2>2, <3>1
  <2>4. CASE n + 1 \in i
    <3>1. i \ {n + 1} \in SUBSET (1 .. n)
      OBVIOUS
    <3>2. i \ {n + 1} \in InfoBits /\ {n + 1} \in InfoBits
      BY <2>1, <3>1 DEF InfoBits
    <3>3. i = SymDiff(i \ {n + 1}, {n + 1})
      BY <2>4 DEF SymDiff
    <3>4. OddRows(WithParity(table, i \ {n + 1})) = {}
      BY <2>2, <3>1
    <3>5. OddRows(WithParity(table, {n + 1})) = {}
      BY <2>1, NoOddRows
    <3>6. WithParity(table, i)
            = SymDiff(WithParity(table, i \ {n + 1}), WithParity(table, {n + 1}))
      BY <3>2, <3>3, EncoderLinear
    <3>7. OddRows(WithParity(table, i))
            = SymDiff(OddRows(WithParity(table, i \ {n + 1})), OddRows(WithParity(table, {n + 1})))
      BY <3>6, OddRowsLinear
    <3> QED
      BY <3>4, <3>5, <3>7 DEF SymDiff
  <2> QED
    BY <2>3, <2>4
<1> HIDE DEF Good
<1>3. Nat \subseteq Good
  BY <1>1, <1>2, SetInduction
<1>4. FTX_LDPC_K \in Nat /\ info \in SUBSET (1 .. FTX_LDPC_K)
  BY DEF FTX_LDPC_K, InfoBits
<1>5. Passes(info)
  BY <1>3, <1>4 DEF Good
<1> QED
  BY <1>5, NoOddRows

-----------------------------------------------------------------------------
(* Unpacking                                                               *)

(* Dividing by one radix after another is dividing by their product.       *)
LEMMA DividedByLetters ==
  ASSUME NEW n \in Nat
  PROVE  /\ n = (n % 27) + 27 * (n \div 27)
         /\ n \div 27 = ((n \div 27) % 27) + 27 * (n \div 729)
         /\ n \div 729 = ((n \div 729) % 27) + 27 * (n \div 19683)
<1>1. n = (n % 27) + 27 * (n \div 27)
  BY SMT
<1>2. n \div 27 = ((n \div 27) % 27) + 27 * (n \div 729)
  BY SMT
<1>3. n \div 729 = ((n \div 729) % 27) + 27 * (n \div 19683)
  BY SMT
<1> QED
  BY <1>1, <1>2, <1>3

LEMMA DividedByDigits ==
  ASSUME NEW n \in Nat
  PROVE  /\ n \div 19683 = ((n \div 19683) % 10) + 10 * (n \div 196830)
         /\ n \div 196830 = ((n \div 196830) % 36) + 36 * (n \div 7085880)
<1>1. n \div 19683 = ((n \div 19683) % 10) + 10 * (n \div 196830)
  BY SMT
<1>2. n \div 196830 = ((n \div 196830) % 36) + 36 * (n \div 7085880)
  BY SMT
<1> QED
  BY <1>1, <1>2, SMT

CallOf(a, b, c, d, e, f) == a + 27 * b + 729 * c + 19683 * d + 196830 * e + 7085880 * f
GridOf(a, b, c, d) == a + 10 * b + 100 * c + 1800 * d

(* The numbers that stand for a call and for a grid.                      *)
CallRange == {n \in Nat : n < 255091680}
GridRange == {n \in Nat : n < 32400}

(* The number back from its digits.                                        *)
CallBack(n) == CallOf(n % 27, (n \div 27) % 27, (n \div 729) % 27, (n \div 19683) % 10,
                      (n \div 196830) % 36, (n \div 7085880) % 36)
GridBack(n) == GridOf(n % 10, (n \div 10) % 10, (n \div 100) % 18, (n \div 1800) % 18)

LEMMA Ranges ==
  /\ \A n \in CallRange : n \in Nat /\ n < 255091680
  /\ \A n \in GridRange : n \in Nat /\ n < 32400
BY SMT DEF CallRange, GridRange

LEMMA CallRoundTrip ==
  ASSUME NEW n \in CallRange PROVE n = CallBack(n)
<1>0. n \in Nat /\ n < 255091680
  BY Ranges, SMT
<1>1. n \div 7085880 < 36
  BY <1>0, SMT
<1>2. (n \div 7085880) % 36 = n \div 7085880
  BY <1>0, <1>1, SMT
<1>3. /\ n % 27 \in Nat /\ (n \div 27) % 27 \in Nat /\ (n \div 729) % 27 \in Nat
      /\ (n \div 19683) % 10 \in Nat /\ (n \div 196830) % 36 \in Nat /\ n \div 7085880 \in Nat
      /\ n \div 27 \in Nat /\ n \div 729 \in Nat /\ n \div 19683 \in Nat /\ n \div 196830 \in Nat
  BY <1>0, SMT
<1>4. n = (n % 27) + 27 * ((n \div 27) % 27) + 729 * ((n \div 729) % 27)
          + 19683 * ((n \div 19683) % 10) + 196830 * ((n \div 196830) % 36)
          + 7085880 * ((n \div 7085880) % 36)
  BY <1>0, <1>2, <1>3, DividedByLetters, DividedByDigits, SMT
<1> QED
  BY <1>4, SMT DEF CallBack, CallOf

LEMMA GridRoundTrip ==
  ASSUME NEW n \in GridRange PROVE n = GridBack(n)
<1>0. n \in Nat /\ n < 32400
  BY Ranges, SMT
<1>1. n = (n % 10) + 10 * (n \div 10)
  BY <1>0, SMT
<1>2. n \div 10 = ((n \div 10) % 10) + 10 * (n \div 100)
  BY <1>0, SMT
<1>3. n \div 100 = ((n \div 100) % 18) + 18 * (n \div 1800)
  BY <1>0, SMT
<1>4. n \div 1800 < 18
  BY <1>0, SMT
<1>5. (n \div 1800) % 18 = n \div 1800
  BY <1>0, <1>4, SMT
<1>6. /\ n \div 10 \in Nat /\ n \div 100 \in Nat /\ n \div 1800 \in Nat
      /\ n % 10 \in Nat /\ (n \div 10) % 10 \in Nat /\ (n \div 100) % 18 \in Nat
  BY <1>0, SMT
<1>7. n = (n % 10) + 10 * ((n \div 10) % 10) + 100 * ((n \div 100) % 18)
          + 1800 * ((n \div 1800) % 18)
  BY <1>1, <1>2, <1>3, <1>5, <1>6, SMT
<1> QED
  BY <1>7, SMT DEF GridBack, GridOf

LEMMA SameCallDigits ==
  ASSUME NEW n \in Nat, NEW m \in Nat, UnpackCall(n) = UnpackCall(m)
  PROVE  /\ n % 27 = m % 27
         /\ (n \div 27) % 27 = (m \div 27) % 27
         /\ (n \div 729) % 27 = (m \div 729) % 27
         /\ (n \div 19683) % 10 = (m \div 19683) % 10
         /\ (n \div 196830) % 36 = (m \div 196830) % 36
         /\ (n \div 7085880) % 36 = (m \div 7085880) % 36
<1>1. ASSUME NEW k \in 1 .. 6
      PROVE  (n \div CallWeight[k]) % CallRadix[k] = (m \div CallWeight[k]) % CallRadix[k]
  <2>1. UnpackCall(n)[k] = (n \div CallWeight[k]) % CallRadix[k]
    BY SMT DEF UnpackCall
  <2>2. UnpackCall(m)[k] = (m \div CallWeight[k]) % CallRadix[k]
    BY SMT DEF UnpackCall
  <2> QED
    BY <2>1, <2>2
<1>2. /\ CallWeight[1] = 1 /\ CallWeight[2] = 27 /\ CallWeight[3] = 729
      /\ CallWeight[4] = 19683 /\ CallWeight[5] = 196830 /\ CallWeight[6] = 7085880
  BY SMT DEF CallWeight
<1>3. /\ CallRadix[1] = 27 /\ CallRadix[2] = 27 /\ CallRadix[3] = 27
      /\ CallRadix[4] = 10 /\ CallRadix[5] = 36 /\ CallRadix[6] = 36
  BY SMT DEF CallRadix
<1>4. n \div 1 = n /\ m \div 1 = m
  BY SMT
<1> QED
  BY <1>1, <1>2, <1>3, <1>4, SMT

LEMMA CallUnique ==
  ASSUME NEW n \in CallRange, NEW m \in CallRange, UnpackCall(n) = UnpackCall(m)
  PROVE  n = m
<1>1. n \in Nat /\ m \in Nat
  BY Ranges
<1>2. /\ n % 27 = m % 27
      /\ (n \div 27) % 27 = (m \div 27) % 27
      /\ (n \div 729) % 27 = (m \div 729) % 27
      /\ (n \div 19683) % 10 = (m \div 19683) % 10
      /\ (n \div 196830) % 36 = (m \div 196830) % 36
      /\ (n \div 7085880) % 36 = (m \div 7085880) % 36
  BY <1>1, SameCallDigits, SMT
<1>3. CallBack(n) = CallBack(m)
  BY <1>2, SMT DEF CallBack
<1> QED
  BY <1>3, CallRoundTrip

LEMMA SameGridDigits ==
  ASSUME NEW n \in Nat, NEW m \in Nat, UnpackGrid(n) = UnpackGrid(m)
  PROVE  /\ n % 10 = m % 10
         /\ (n \div 10) % 10 = (m \div 10) % 10
         /\ (n \div 100) % 18 = (m \div 100) % 18
         /\ (n \div 1800) % 18 = (m \div 1800) % 18
<1>1. ASSUME NEW k \in 1 .. 4
      PROVE  (n \div GridWeight[k]) % GridRadix[k] = (m \div GridWeight[k]) % GridRadix[k]
  <2>1. UnpackGrid(n)[k] = (n \div GridWeight[k]) % GridRadix[k]
    BY SMT DEF UnpackGrid
  <2>2. UnpackGrid(m)[k] = (m \div GridWeight[k]) % GridRadix[k]
    BY SMT DEF UnpackGrid
  <2> QED
    BY <2>1, <2>2
<1>2. GridWeight[1] = 1 /\ GridWeight[2] = 10 /\ GridWeight[3] = 100 /\ GridWeight[4] = 1800
  BY SMT DEF GridWeight
<1>3. GridRadix[1] = 10 /\ GridRadix[2] = 10 /\ GridRadix[3] = 18 /\ GridRadix[4] = 18
  BY SMT DEF GridRadix
<1>4. n \div 1 = n /\ m \div 1 = m
  BY SMT
<1> QED
  BY <1>1, <1>2, <1>3, <1>4, SMT

LEMMA GridUnique ==
  ASSUME NEW n \in GridRange, NEW m \in GridRange, UnpackGrid(n) = UnpackGrid(m)
  PROVE  n = m
<1>1. n \in Nat /\ m \in Nat
  BY Ranges
<1>2. /\ n % 10 = m % 10
      /\ (n \div 10) % 10 = (m \div 10) % 10
      /\ (n \div 100) % 18 = (m \div 100) % 18
      /\ (n \div 1800) % 18 = (m \div 1800) % 18
  BY <1>1, SameGridDigits, SMT
<1>3. GridBack(n) = GridBack(m)
  BY <1>2, SMT DEF GridBack
<1> QED
  BY <1>3, GridRoundTrip

(* No two of the numbers below the radices' product are unpacked to the    *)
(* same call, and no two below 32400 to the same grid: what a payload says *)
(* of a station is not lost in the text.                                   *)
THEOREM UnpackingLosesNothing ==
  /\ \A n, m \in CallRange : UnpackCall(n) = UnpackCall(m) => n = m
  /\ \A n, m \in GridRange : UnpackGrid(n) = UnpackGrid(m) => n = m
BY CallUnique, GridUnique

-----------------------------------------------------------------------------
(* The bits of a payload                                                   *)

Reading(v, payload, pos, n) ==
  v \in [0 .. n -> Nat] /\ v[0] = 0 /\ \A i \in 1 .. n : v[i] = 2 * v[i - 1] + BitOf(payload, pos + i)

LEMMA BitType ==
  ASSUME NEW word, NEW p
  PROVE  BitOf(word, p) \in {0, 1} /\ (BitOf(word, p) = 1 <=> p \in word)
BY DEF BitOf

LEMMA GetBitsIs ==
  ASSUME NEW payload, NEW pos \in Nat, NEW n \in Nat
  PROVE  \E v : Reading(v, payload, pos, n) /\ GetBits(payload, pos, n) = v[n]
<1> DEFINE h == [k \in Nat \ {0} |-> [x \in Nat |-> 2 * x + BitOf(payload, pos + k)]]
           Body(f) == [i \in 0 .. n |-> IF i = 0 THEN 0 ELSE 2 * f[i - 1] + BitOf(payload, pos + i)]
           read == CHOOSE f : f = Body(f)
<1>1. GetBits(payload, pos, n) = read[n]
  BY DEF GetBits
<1>2. Steps(h, Nat)
  BY BitType DEF Steps
<1>3. \A k \in Nat \ {0}, x \in Nat : h[k][x] = 2 * x + BitOf(payload, pos + k)
  OBVIOUS
<1> HIDE DEF h
<1>4. PICK v : Recursion(v, Nat, 0, h, n)
  BY <1>2, RecursionExists
<1>5. v \in [0 .. n -> Nat] /\ v[0] = 0
  BY <1>4 DEF Recursion
<1>6. ASSUME NEW i \in 1 .. n PROVE v[i] = 2 * v[i - 1] + BitOf(payload, pos + i)
  <2>1. i \in Nat \ {0} /\ v[i - 1] \in Nat
    BY <1>5
  <2> QED
    BY <1>3, <1>4, <2>1 DEF Recursion
<1>7. v = Body(v)
  <2>1. ASSUME NEW i \in 0 .. n
        PROVE  v[i] = IF i = 0 THEN 0 ELSE 2 * v[i - 1] + BitOf(payload, pos + i)
    BY <1>5, <1>6
  <2> QED
    BY <1>5, <2>1
<1> HIDE DEF Body
<1>8. read = Body(read)
  BY <1>7
<1> HIDE DEF read
<1>9. ASSUME NEW i \in 0 .. n
      PROVE  read[i] = IF i = 0 THEN 0 ELSE 2 * read[i - 1] + BitOf(payload, pos + i)
  BY <1>8 DEF Body
<1>10. read[0] = v[0]
  BY <1>5, <1>9
<1>11. ASSUME NEW i \in 1 .. n, read[i - 1] = v[i - 1] PROVE read[i] = v[i]
  BY <1>6, <1>9, <1>11
<1>12. \A i \in 0 .. n : read[i] = v[i]
  BY <1>10, <1>11, SameSequence
<1>13. read[n] = v[n]
  BY <1>12
<1>14. Reading(v, payload, pos, n)
  BY <1>5, <1>6 DEF Reading
<1> QED
  BY <1>1, <1>13, <1>14

LEMMA TwiceAndBit ==
  ASSUME NEW x \in Nat, NEW y \in Nat, NEW c \in {0, 1}, NEW d \in {0, 1}, 2 * x + c = 2 * y + d
  PROVE  x = y /\ c = d
OBVIOUS

(* Two payloads of which the same number is read have the same bits there. *)
LEMMA GetBitsUnique ==
  ASSUME NEW a, NEW b, NEW pos \in Nat, NEW n \in Nat,
         GetBits(a, pos, n) = GetBits(b, pos, n)
  PROVE  \A i \in 1 .. n : pos + i \in a <=> pos + i \in b
<1>1. PICK v : Reading(v, a, pos, n) /\ GetBits(a, pos, n) = v[n]
  BY GetBitsIs
<1>2. PICK w : Reading(w, b, pos, n) /\ GetBits(b, pos, n) = w[n]
  BY GetBitsIs
<1> DEFINE Alike(k) == \A i \in 1 .. k : pos + i \in a <=> pos + i \in b
           Good == {k \in Nat : k <= n /\ v[k] = w[k] => Alike(k)}
<1>3. 0 \in Good
  OBVIOUS
<1>4. ASSUME NEW k \in Nat, k \in Good PROVE k + 1 \in Good
  <2> SUFFICES ASSUME k + 1 <= n, v[k + 1] = w[k + 1] PROVE Alike(k + 1)
    BY DEF Good
  <2>1. k + 1 \in 1 .. n /\ (k + 1) - 1 = k /\ k \in 0 .. n /\ k <= n
    OBVIOUS
  <2>2. /\ v[k] \in Nat /\ w[k] \in Nat
        /\ v[k + 1] = 2 * v[k] + BitOf(a, pos + (k + 1))
        /\ w[k + 1] = 2 * w[k] + BitOf(b, pos + (k + 1))
    BY <1>1, <1>2, <2>1 DEF Reading
  <2>3. BitOf(a, pos + (k + 1)) \in {0, 1} /\ BitOf(b, pos + (k + 1)) \in {0, 1}
    BY BitType
  <2>4. v[k] = w[k] /\ BitOf(a, pos + (k + 1)) = BitOf(b, pos + (k + 1))
    <3>1. PICK c \in {0, 1}, d \in {0, 1} :
            c = BitOf(a, pos + (k + 1)) /\ d = BitOf(b, pos + (k + 1))
      BY <2>3
    <3>2. PICK x \in Nat, y \in Nat : x = v[k] /\ y = w[k]
      BY <2>2
    <3>3. 2 * x + c = 2 * y + d
      BY <2>2, <3>1, <3>2
    <3>4. x = y /\ c = d
      BY <3>3, TwiceAndBit
    <3> QED
      BY <3>1, <3>2, <3>4
  <2>5. pos + (k + 1) \in a <=> pos + (k + 1) \in b
    BY <2>4, BitType
  <2>6. Alike(k)
    BY <1>4, <2>1, <2>4
  <2> QED
    BY <2>5, <2>6
<1> HIDE DEF Good
<1>5. Nat \subseteq Good
  BY <1>3, <1>4, SetInduction
<1>6. v[n] = w[n]
  BY <1>1, <1>2
<1> QED
  BY <1>5, <1>6 DEF Good

LEMMA SameBitAt ==
  ASSUME NEW a, NEW b, NEW pos \in Nat, NEW n \in Nat, GetBits(a, pos, n) = GetBits(b, pos, n),
         NEW p \in Nat, pos < p, p <= pos + n
  PROVE  p \in a <=> p \in b
<1>1. PICK i \in 1 .. n : pos + i = p
  <2>1. p - pos \in 1 .. n /\ pos + (p - pos) = p
    OBVIOUS
  <2> QED
    BY <2>1
<1> QED
  BY <1>1, GetBitsUnique

LEMMA GetNoBits ==
  ASSUME NEW payload, NEW pos \in Nat, NEW n \in Nat,
         \A i \in 1 .. n : pos + i \notin payload
  PROVE  GetBits(payload, pos, n) = 0
<1>1. PICK v : Reading(v, payload, pos, n) /\ GetBits(payload, pos, n) = v[n]
  BY GetBitsIs
<1> DEFINE zero == [i \in 0 .. n |-> 0]
<1>2. v[0] = zero[0]
  BY <1>1 DEF Reading
<1>3. ASSUME NEW i \in 1 .. n, v[i - 1] = zero[i - 1] PROVE v[i] = zero[i]
  <2>1. v[i] = 2 * 0 + BitOf(payload, pos + i)
    BY <1>1, <1>3 DEF Reading
  <2> QED
    BY <2>1 DEF BitOf
<1> HIDE DEF zero
<1>4. \A i \in 0 .. n : v[i] = zero[i]
  BY <1>2, <1>3, SameSequence
<1> QED
  BY <1>1, <1>4 DEF zero

(* A text of JS8 that leaves the last seven bits zero, as one of ten       *)
(* characters or fewer does, is taken for a message of FT8.                *)
LEMMA ShortTextIsFt8 ==
  ASSUME NEW payload, GetBits(payload, 70, 7) = 0
  PROVE  Ft8Text(payload) # NoText
<1>1. GetBits({}, 70, 7) = 0
  BY GetNoBits
<1>2. ASSUME NEW p \in Nat, 70 < p, p <= 70 + 7 PROVE p \notin payload
  <2>1. p \in payload <=> p \in {}
    BY <1>1, <1>2, SameBitAt
  <2> QED
    BY <2>1
<1>3. ASSUME NEW i \in 1 .. 6 PROVE 71 + i \notin payload
  BY <1>2
<1>4. GetBits(payload, 71, 6) = 0
  BY <1>3, GetNoBits
<1> DEFINE n3 == GetBits(payload, 56, 15)
           calls == <<UnpackCall(GetBits(payload, 0, 28)), UnpackCall(GetBits(payload, 28, 28))>>
           grid == IF n3 < 32400 THEN <<UnpackGrid(n3)>> ELSE << >>
<1>5. Ft8Text(payload) = calls \o grid
  BY <1>4, SMT DEF Ft8Text
<1>6. Len(calls) = 2 /\ calls \in Seq({calls[1], calls[2]})
  OBVIOUS
<1>7. grid = << >> \/ grid = <<UnpackGrid(n3)>>
  OBVIOUS
<1> HIDE DEF calls, grid
<1>8. (calls \o grid) # << >>
  BY <1>6, <1>7
<1> QED
  BY <1>5, <1>8 DEF NoText

(* So an accepted payload whose eleventh field of seven bits is zero, as   *)
(* it is behind a text of ten characters or fewer that zeros fill up, is   *)
(* reported as FT8, whatever stands in the other fields and whether JS8 is *)
(* on or not (decode.cpp:152 asks for a text of FT8 first; Js8IsReported). *)
(* A payload with zeros before its last field is not one of these.         *)
THEOREM PaddedIsFt8 ==
  Spec => [](pc = "done" /\ crcOk /\ GetBits(Payload77(Info(plain)), 70, 7) = 0 => text = "FT8")
<1> DEFINE HasFt8Text == Ft8Text(Payload77(Info(plain))) # NoText
           Tried == pc = "done" /\ crcOk /\ HasFt8Text => text = "FT8"
<1>1. Init => Tried
  BY DEF Init
<1>2. IndInv /\ Tried /\ [Next]_vars => Tried'
  <2> SUFFICES ASSUME IndInv, Tried, [Next]_vars PROVE Tried'
    OBVIOUS
  <2>1. pc # "done" => ~crcOk
    BY DEF IndInv, Outcome
  <2>2. CASE UNCHANGED vars
    BY <2>2 DEF vars
  <2>3. CASE Verify
    BY <2>3 DEF Verify, Unpack
  <2>4. CASE Reject
    BY <2>1, <2>4 DEF Reject, NoResult
  <2>5. CASE DemapTones \/ Guess \/ GiveUp \/ Check \/ PassMessages
    BY <2>5 DEF DemapTones, Guess, GiveUp, Check, Better, NotBetter, PassMessages
  <2> QED
    BY <2>2, <2>3, <2>4, <2>5 DEF Next
<1>3. Tried => (pc = "done" /\ crcOk /\ GetBits(Payload77(Info(plain)), 70, 7) = 0 => text = "FT8")
  BY ShortTextIsFt8
<1> QED
  BY <1>1, <1>2, <1>3, Inductive, PTL DEF Spec

(* A standard message: two calls and a grid, each a number that stands for *)
(* one.                                                                    *)
Standard(payload) ==
  /\ payload \subseteq 1 .. PayloadBits
  /\ GetBits(payload, 71, 6) = 0
  /\ GetBits(payload, 0, 28) \in CallRange /\ GetBits(payload, 28, 28) \in CallRange
  /\ GetBits(payload, 56, 15) \in GridRange

LEMMA StandardText ==
  ASSUME NEW payload, Standard(payload)
  PROVE  /\ Ft8Text(payload)[1] = UnpackCall(GetBits(payload, 0, 28))
         /\ Ft8Text(payload)[2] = UnpackCall(GetBits(payload, 28, 28))
         /\ Ft8Text(payload)[3] = UnpackGrid(GetBits(payload, 56, 15))
<1> DEFINE n1 == UnpackCall(GetBits(payload, 0, 28))
           n2 == UnpackCall(GetBits(payload, 28, 28))
           n3 == UnpackGrid(GetBits(payload, 56, 15))
<1>1. GetBits(payload, 56, 15) < 32400
  BY Ranges, SMT DEF Standard
<1>2. Ft8Text(payload) = <<n1, n2>> \o <<n3>>
  BY <1>1, SMT DEF Ft8Text, Standard
<1> HIDE DEF n1, n2, n3
<1>3. <<n1, n2>> \in Seq({n1, n2, n3}) /\ <<n3>> \in Seq({n1, n2, n3})
  OBVIOUS
<1>4. /\ (<<n1, n2>> \o <<n3>>)[1] = <<n1, n2>>[1]
      /\ (<<n1, n2>> \o <<n3>>)[2] = <<n1, n2>>[2]
      /\ (<<n1, n2>> \o <<n3>>)[3] = <<n3>>[1]
  BY <1>3, ConcatProperties
<1> QED
  BY <1>2, <1>4 DEF n1, n2, n3

(* The digits of a standard message's text tell all 77 bits of the payload:*)
(* the fields of a payload leave no bit out.                               *)
THEOREM TextTellsPayload ==
  ASSUME NEW a, NEW b, Standard(a), Standard(b), Ft8Text(a) = Ft8Text(b)
  PROVE  a = b
<1>1. /\ UnpackCall(GetBits(a, 0, 28)) = UnpackCall(GetBits(b, 0, 28))
      /\ UnpackCall(GetBits(a, 28, 28)) = UnpackCall(GetBits(b, 28, 28))
      /\ UnpackGrid(GetBits(a, 56, 15)) = UnpackGrid(GetBits(b, 56, 15))
  BY StandardText
<1>2. GetBits(a, 0, 28) = GetBits(b, 0, 28)
  BY <1>1, CallUnique DEF Standard
<1>3. GetBits(a, 28, 28) = GetBits(b, 28, 28)
  BY <1>1, CallUnique DEF Standard
<1>4. GetBits(a, 56, 15) = GetBits(b, 56, 15)
  BY <1>1, GridUnique DEF Standard
<1>5. GetBits(a, 71, 6) = GetBits(b, 71, 6)
  BY DEF Standard
<1>6. ASSUME NEW p \in 1 .. PayloadBits PROVE p \in a <=> p \in b
  <2>0. p \in Nat /\ 0 < p /\ p <= 77
    BY DEF PayloadBits
  <2>1. CASE p <= 0 + 28
    BY <1>2, <2>0, <2>1, SameBitAt
  <2>2. CASE 28 < p /\ p <= 28 + 28
    BY <1>3, <2>2, <2>0, SameBitAt
  <2>3. CASE 56 < p /\ p <= 56 + 15
    BY <1>4, <2>3, <2>0, SameBitAt
  <2>4. CASE 71 < p /\ p <= 71 + 6
    BY <1>5, <2>4, <2>0, SameBitAt
  <2> QED
    BY <2>0, <2>1, <2>2, <2>3, <2>4
<1> QED
  BY <1>6 DEF Standard

-----------------------------------------------------------------------------
(* decode ends                                                             *)

(* Each step of decode leaves it fewer to do, and none are left only when  *)
(* it has returned: from any tones it returns after at most                *)
(* 3 * MaxIters + 5 steps, the loop of bp_decode included.                 *)
THEOREM DecodeEnds == Spec => DecodeShrinks /\ []LeftUntilDone
<1> DEFINE Types == /\ MaxIters \in Nat /\ iter \in Nat /\ iter <= MaxIters
                    /\ pc \in {"demap", "guess", "check", "pass", "verdict", "done"}
<1>1. IndInv => Types /\ (pc \in {"check", "pass"} => iter < MaxIters)
  BY ItersAssumption DEF IndInv, TypeOK, Turns
<1>2. IndInv => LeftUntilDone
  <2> SUFFICES ASSUME IndInv PROVE LeftUntilDone
    OBVIOUS
  <2>1. Types
    BY <1>1
  <2> QED
    BY <2>1 DEF LeftUntilDone, DecodeLeft, AfterTurn
<1>3. IndInv /\ [Next]_vars => [DecodeLeft' < DecodeLeft]_vars
  <2> SUFFICES ASSUME IndInv, Next PROVE DecodeLeft' < DecodeLeft
    OBVIOUS
  <2>1. Types /\ (pc \in {"check", "pass"} => iter < MaxIters)
    BY <1>1
  <2>2. \/ pc = "demap" /\ pc' = "guess" /\ iter' = iter
        \/ pc = "guess" /\ pc' \in {"check", "verdict"} /\ iter' = iter
        \/ pc = "check" /\ pc' \in {"pass", "verdict"} /\ iter' = iter
        \/ pc = "pass" /\ pc' = "guess" /\ iter' = iter + 1
        \/ pc = "verdict" /\ pc' = "done" /\ iter' = iter
    BY DEF Next, DemapTones, Guess, GiveUp, Check, Better, NotBetter, PassMessages, Reject, Verify
  <2> QED
    BY <2>1, <2>2 DEF DecodeLeft, AfterTurn
<1> QED
  BY <1>2, <1>3, Inductive, PTL DEF Spec, DecodeShrinks
=============================================================================
