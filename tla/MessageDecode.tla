---------------------------- MODULE MessageDecode ----------------------------
(***************************************************************************)
(* LDPCDecoder::decode (src/dsp/decode.cpp) and bp_decode, ldpc_check      *)
(* (src/ft8/ldpc.c): from the tones of one candidate to a checked word.    *)
(*                                                                         *)
(* A word is the set of the places of its ones, 1 .. N.  The messages of   *)
(* belief propagation are real numbers, of which the model keeps a bound:  *)
(* reach, in thousandths, on the size of every message to a place.  A      *)
(* place whose LLR three such messages cannot outweigh is decided by its   *)
(* LLR; any other is what some word of Beliefs has there.                  *)
(***************************************************************************)
EXTENDS Payload

CONSTANTS
  NumTones,   \* tones of a transmission
  Sync,       \* the Costas tones among 0 .. NumTones - 1
  Rows,       \* the places of each parity check
  MaxIters,   \* max_iters
  Messages,   \* words that are transmitted
  Garbled,    \* the tones that may be misheard
  Misheard,   \* and what they are taken for
  Cuts,       \* numbers of tones that decode may be called with
  Beliefs     \* words that undecided places may be taken from

N == 3 * (NumTones - Cardinality(Sync))  \* FTX_LDPC_N
Bits == 1 .. N
Words == SUBSET Bits

ASSUME TonesAssumption ==
  /\ NumTones \in Nat \ {0} /\ Sync \subseteq 0 .. NumTones - 1
  /\ Misheard \subseteq 0 .. 7 /\ Garbled \subseteq 0 .. NumTones - 1
  /\ Cuts \subseteq 0 .. NumTones
ASSUME RowsAssumption == Rows \in Seq(Words) /\ Rows # << >>
ASSUME ItersAssumption == MaxIters \in Nat
ASSUME WordsAssumption ==
  (\A w \in Messages : w \subseteq Bits) /\ (\A w \in Beliefs : w \subseteq Bits)

VARIABLES
  pc,         \* where decode and bp_decode are
  tones,      \* the arguments of decode
  allowJs8,
  llr,        \* llr of decode, codeword of bp_decode
  reach,      \* a bound on |tov|, in thousandths
  positive,   \* the places whose sum of llr and messages is above 0
  plain,
  iter,
  minErrors,  \* min_errors, then *ok
  crcOk,      \* the result: crc_ok
  text,       \* and which unpacker gave its text
  sent,       \* history: the word that was transmitted
  counts      \* history: the errors of every word that was checked

vars == <<pc, tones, allowJs8, llr, reach, positive, plain, iter, minErrors, crcOk, text, sent,
          counts>>

Large == 334  \* three messages of this size outweigh an LLR of 1

TypeOK ==
  /\ pc \in {"demap", "guess", "check", "pass", "verdict", "done"}
  /\ \E n \in 0 .. NumTones : tones \in [0 .. n - 1 -> 0 .. 7]
  /\ allowJs8 \in BOOLEAN
  /\ llr \in [Bits -> {-1, 0, 1}]
  /\ reach \in 0 .. Large
  /\ positive \in Words /\ plain \in Words /\ sent \in Words
  /\ iter \in 0 .. MaxIters
  /\ minErrors \in 0 .. Len(Rows)
  /\ crcOk \in BOOLEAN /\ text \in {"none", "FT8", "JS8"}
  /\ counts \subseteq 0 .. Len(Rows)

-----------------------------------------------------------------------------
(* ldpc_check                                                              *)

OddRows(word) == {m \in 1 .. Len(Rows) : Cardinality(Rows[m] \intersect word) % 2 = 1}

ParityErrors(word) == Cardinality(OddRows(word))

Info(word) == word \intersect 1 .. FTX_LDPC_K

-----------------------------------------------------------------------------
(* Tones and bits                                                          *)

(* How many data tones come before tone i, and the place of its bit b, the *)
(* first of its three bits being the most significant one.                 *)
DataTones == [i \in 0 .. NumTones |-> Cardinality({j \in 0 .. i - 1 : j \notin Sync})]
Place(i, b) == 3 * DataTones[i] + b

kFT8_Gray_map == <<0, 1, 3, 2, 5, 6, 4, 7>>

(* The tone that a transmitter sends for its three bits.                   *)
SentTone(word, i) ==
  kFT8_Gray_map[1 + 4 * BitOf(word, Place(i, 1)) + 2 * BitOf(word, Place(i, 2))
                  + BitOf(word, Place(i, 3))]

kGrayDecode == <<0, 1, 3, 2, 6, 4, 5, 7>>

SymbolBit(symbol, b) == (kGrayDecode[symbol + 1] \div <<4, 2, 1>>[b]) % 2

(* The tone and bit that is read into each place.  The demodulator yields  *)
(* tones 0 .. 7 and no more than NumTones of them, so that the tests for   *)
(* other symbols and for a full llr never fail.                            *)
DataPlaces == (0 .. NumTones - 1) \ Sync
ReadInto == [p \in Bits |-> CHOOSE x \in DataPlaces \X (1 .. 3) : Place(x[1], x[2]) = p]

(* Fault: the bits of a tone are read from the last to the first.          *)
DemapBackwards(t) ==
  [p \in Bits |->
     LET x == ReadInto[p]
     IN  IF x[1] \in DOMAIN t THEN 1 - 2 * SymbolBit(t[x[1]], 4 - x[2]) ELSE 0]

(* -1 for a one, 1 for a zero, 0 for a tone that is not there.             *)
Demap(t) ==
  [p \in Bits |->
     LET x == ReadInto[p]
     IN  IF x[1] \in DOMAIN t THEN 1 - 2 * SymbolBit(t[x[1]], x[2]) ELSE 0]

-----------------------------------------------------------------------------
(* decode is called with the tones of a transmission, one of which may     *)
(* have been misheard, with those of its complement, which noise may give  *)
(* as well, or with fewer of them.                                         *)

(* The word of the encoder, with the parity bits that a table sums.        *)
WithParity(table, info) ==
  info \union {FTX_LDPC_K + m : m \in {m \in DOMAIN table :
                                       Cardinality(table[m] \intersect info) % 2 = 1}}

Transmission(word) == [i \in 0 .. NumTones - 1 |-> IF i \in Sync THEN 0 ELSE SentTone(word, i)]

Received(word) ==
  {[Transmission(word) EXCEPT ![i] = tone] : i \in Garbled, tone \in Misheard}
  \union {[i \in 0 .. n - 1 |-> Transmission(word)[i]] : n \in Cuts}

Init ==
  /\ sent \in Messages
  /\ tones \in Received(sent) \union Received(Bits \ sent)
  /\ allowJs8 \in BOOLEAN
  /\ pc = "demap" /\ iter = 0 /\ reach = 0
  /\ llr = [p \in Bits |-> 0] /\ positive = {} /\ plain = {}
  /\ minErrors = Len(Rows)
  /\ crcOk = FALSE /\ text = "none" /\ counts = {}

InDecode == UNCHANGED <<tones, allowJs8, sent>>
NoResult == UNCHANGED <<crcOk, text>>

DemapTones ==
  /\ pc = "demap" /\ pc' = "guess"
  /\ llr' = Demap(tones)
  /\ positive' = {p \in Bits : llr'[p] > 0}
  /\ UNCHANGED <<reach, plain, iter, minErrors, counts>> /\ InDecode /\ NoResult

-----------------------------------------------------------------------------
(* bp_decode                                                               *)

(* Faults of Guess: a turn too many, and no test for the word of zeros.     *)
GuessOnceMore ==
  /\ pc = "guess" /\ iter <= MaxIters
  /\ plain' = positive
  /\ pc' = IF positive = {} THEN "verdict" ELSE "check"
  /\ UNCHANGED <<llr, reach, positive, iter, minErrors, counts>> /\ InDecode /\ NoResult
GuessZeros ==
  /\ pc = "guess" /\ iter < MaxIters /\ pc' = "check"
  /\ plain' = positive
  /\ UNCHANGED <<llr, reach, positive, iter, minErrors, counts>> /\ InDecode /\ NoResult

(* The hard decision; the word of zeros is prohibited.                     *)
Guess ==
  /\ pc = "guess" /\ iter < MaxIters
  /\ plain' = positive
  /\ pc' = IF positive = {} THEN "verdict" ELSE "check"
  /\ UNCHANGED <<llr, reach, positive, iter, minErrors, counts>> /\ InDecode /\ NoResult

GiveUp ==
  /\ pc = "guess" /\ iter = MaxIters /\ pc' = "verdict"
  /\ UNCHANGED <<llr, reach, positive, plain, iter, minErrors, counts>> /\ InDecode /\ NoResult

(* Fault: min_errors is the last guess's number of errors, not the least.  *)
CheckLast ==
  /\ pc = "check"
  /\ minErrors' = ParityErrors(plain)
  /\ pc' = IF minErrors' = 0 THEN "verdict" ELSE "pass"
  /\ counts' = counts \union {ParityErrors(plain)}
  /\ UNCHANGED <<llr, reach, positive, plain, iter>> /\ InDecode /\ NoResult

Better ==
  /\ pc = "check"
  /\ LET errors == ParityErrors(plain)
     IN  /\ errors < minErrors
         /\ minErrors' = errors
         /\ pc' = IF errors = 0 THEN "verdict" ELSE "pass"
  /\ counts' = counts \union {ParityErrors(plain)}
  /\ UNCHANGED <<llr, reach, positive, plain, iter>> /\ InDecode /\ NoResult

NotBetter ==
  /\ pc = "check" /\ pc' = "pass"
  /\ ParityErrors(plain) >= minErrors
  /\ counts' = counts \union {ParityErrors(plain)}
  /\ UNCHANGED <<llr, reach, positive, plain, iter, minErrors>> /\ InDecode /\ NoResult

Check == Better \/ NotBetter

(* fast_tanh and fast_atanh of x, in thousandths and rounded up: the code's*)
(* fractions, of which the first falls and the second rises with x * x.    *)
FastTanh(x) ==
  LET x2 == (x * x) \div 1000
  IN  1 + ((x * (945001 + 105 * x2 + (x2 * x2) \div 1000))
           \div (945000 + 420 * x2 + (15 * x2 * x2) \div 1000))
FastAtanh(x) ==
  LET x2 == 1 + (x * x) \div 1000
  IN  1 + ((x * (945001 - 735 * x2 + (64 * x2 * x2) \div 1000))
           \div (945000 - 1050 * x2 + (225 * x2 * x2) \div 1000))

(* Each check multiplies the messages of its other places, at least these. *)
FewestOthers ==
  (CHOOSE n \in 0 .. N : /\ \A m \in DOMAIN Rows : n <= Cardinality(Rows[m])
                         /\ \E m \in DOMAIN Rows : n = Cardinality(Rows[m])) - 1

(* No product of messages is larger than one with fewer factors.           *)
Product(toc) ==
  LET product[n \in 0 .. FewestOthers] ==
        IF n = 0 THEN 1000 ELSE 1 + (toc * product[n - 1]) \div 1000
  IN  product[FewestOthers]

(* Fault: tanh of the whole sum, not of its half.                          *)
NextReachUnhalved(r) == 2 * FastAtanh(Product(FastTanh(1000 + 2 * r)))

(* A message to a check is at most the LLR and two messages to its place,  *)
(* halved.                                                                 *)
NextReach(r) == 2 * FastAtanh(Product(FastTanh((1000 + 2 * r) \div 2)))

(* Messages to the checks and back, and the next turn of the loop.         *)
PassMessages ==
  /\ pc = "pass" /\ pc' = "guess"
  /\ reach' = IF reach < Large /\ NextReach(reach) \in 0 .. Large - 1
              THEN NextReach(reach) ELSE Large
  /\ \E belief \in Beliefs :
       positive' = {p \in Bits : IF llr[p] # 0 /\ 3 * reach' < 1000 THEN llr[p] > 0
                                 ELSE p \in belief}
  /\ iter' = iter + 1
  /\ UNCHANGED <<llr, plain, minErrors, counts>> /\ InDecode /\ NoResult

-----------------------------------------------------------------------------
(* decode, after bp_decode                                                 *)

Reject ==
  /\ pc = "verdict" /\ pc' = "done"
  /\ minErrors > 0
  /\ UNCHANGED <<llr, reach, positive, plain, iter, minErrors, counts>> /\ InDecode /\ NoResult

(* JS8 is tried when it is on and the payload gave no FT8 text.            *)
Unpack(info) ==
  IF Ft8Text(Payload77(info)) # NoText THEN "FT8"
  ELSE IF allowJs8 /\ Js8Text(Payload77(info)) # NoText THEN "JS8"
  ELSE "none"

Verify ==
  /\ pc = "verdict" /\ pc' = "done"
  /\ minErrors = 0
  /\ crcOk' = CrcRight(Info(plain))
  /\ text' = IF crcOk' THEN Unpack(Info(plain)) ELSE "none"
  /\ UNCHANGED <<llr, reach, positive, plain, iter, minErrors, counts>> /\ InDecode

Next ==
  DemapTones \/ Guess \/ GiveUp \/ Check \/ PassMessages \/ Reject \/ Verify

Spec == Init /\ [][Next]_vars

-----------------------------------------------------------------------------
(* Properties                                                              *)

IsCodeWord(word) == word # {} /\ OddRows(word) = {}

(* "Only messages with a valid CRC are accepted": plain and *ok come out   *)
(* of bp_decode separately, *ok from its best guess and plain from its     *)
(* last one, and still the word that is accepted, or unpacked to a text,   *)
(* satisfies every parity check and the CRC, and is not the prohibited     *)
(* word of zeros, whatever belief propagation makes of the tones.          *)
AcceptedIsValid ==
  pc = "done" /\ (crcOk \/ text # "none") =>
    crcOk /\ IsCodeWord(plain) /\ CrcRight(Info(plain))

(* ldpc_errors of a result is the least number of parity errors of any     *)
(* guess, all of them if nothing was checked: with a perfect guess the     *)
(* loop is left at once, so that only the last guess can be one.           *)
ErrorsIsLeast ==
  /\ minErrors \in counts \union {Len(Rows)}
  /\ \A errors \in counts : minErrors <= errors
  /\ 0 \in counts => pc \in {"verdict", "done"}

(* A data tone that arrived as it was sent gives its own three places the  *)
(* right sign, wherever tones beside it were misheard; what was cut off    *)
(* stays undecided.                                                        *)
SurvivorsAreRight ==
  pc # "demap" =>
    \A i \in (0 .. NumTones - 1) \ Sync, b \in 1 .. 3 :
      /\ i \in DOMAIN tones /\ tones[i] = SentTone(sent, i) =>
           llr[Place(i, b)] = IF Place(i, b) \in sent THEN -1 ELSE 1
      /\ i \notin DOMAIN tones => llr[Place(i, b)] = 0

(* A tone that was heard is never corrected: every guess, and so the word  *)
(* that is accepted, has the bits that the tones of the frame gave; only   *)
(* places without a tone are filled in.  The LLRs are 1 and the messages   *)
(* of belief propagation stay so small that three of them are less.        *)
HeardIsKept ==
  pc \notin {"demap", "guess"} =>
    \A p \in Bits : llr[p] # 0 => (p \in plain <=> llr[p] > 0)

(* Where the loop is, and that a guess is never the word of zeros.         *)
Turns ==
  /\ pc \in {"check", "pass"} => iter < MaxIters
  /\ pc = "check" => plain # {}

(* In the loop no guess was perfect; after it, if one was, it is plain.    *)
Perfect ==
  /\ pc \in {"demap", "guess", "check", "pass"} => minErrors > 0
  /\ minErrors = 0 => plain # {} /\ ParityErrors(plain) = 0

Outcome ==
  /\ pc # "done" => ~crcOk
  /\ crcOk => minErrors = 0 /\ CrcRight(Info(plain))
  /\ text # "none" => crcOk

Mapped == pc # "demap" => llr = Demap(tones)

(* The inductive invariant.                                                *)
IndInv == TypeOK /\ Turns /\ Perfect /\ ErrorsIsLeast /\ Outcome /\ Mapped

(* "codeword[i] = log ( P(x=0) / P(x=1) )" (ldpc.c:10): the first guess at *)
(* a transmission that was heard without a fault is the word that was sent.*)
CleanFirstGuess ==
  tones = Transmission(sent) /\ pc = "check" /\ iter = 0 => plain = sent

(* How many steps decode has left at most: three for each turn of the loop,*)
(* and those around it.                                                    *)
AfterTurn ==
  CASE pc = "demap" -> 5 [] pc = "guess" -> 4 [] pc = "check" -> 3
    [] pc = "pass" -> 2 [] pc = "verdict" -> 1 [] pc = "done" -> 0
DecodeLeft == IF pc \in {"verdict", "done"} THEN AfterTurn ELSE 3 * (MaxIters - iter) + AfterTurn

(* decode ends on every input, whatever belief propagation makes of it:    *)
(* each step leaves fewer to do, and none are left only when it has        *)
(* returned.                                                               *)
DecodeShrinks == [][DecodeLeft' < DecodeLeft]_vars
LeftUntilDone == DecodeLeft \in Nat /\ (DecodeLeft = 0 <=> pc = "done")
=============================================================================
