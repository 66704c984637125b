------------------------------- MODULE Payload -------------------------------
(***************************************************************************)
(* The 91 bits that belief propagation recovers: 77 bits of payload, whose *)
(* CRC (src/ft8/crc.c) follows them, and what src/dsp/decode.cpp unpacks   *)
(* from the payload.  Bits are the set of the places, from 1, of the ones; *)
(* a register is the set of the powers of two in it.  A text is made of    *)
(* the digits that are printed, not of characters.                         *)
(***************************************************************************)
EXTENDS Integers, Sequences, FiniteSets

FTX_LDPC_K == 91
PayloadBits == 77

SymDiff(a, b) == (a \ b) \union (b \ a)

BitOf(word, p) == IF p \in word THEN 1 ELSE 0

-----------------------------------------------------------------------------
(* crc.c                                                                   *)

FT8_CRC_POLYNOMIAL == {0, 1, 2, 4, 6, 8, 9, 10, 13}

(* Byte k of the message, in the upper 8 of the register's 14 bits.        *)
NextByte(bits, k) == {13 - j : j \in {j \in 0 .. 7 : 8 * k + j + 1 \in bits}}

(* One turn of the loop; the remainder is a uint16_t.                      *)
DivideBit(r) ==
  LET shifted == {j + 1 : j \in r} \intersect 0 .. 15
  IN  IF 13 \in r THEN SymDiff(shifted, FT8_CRC_POLYNOMIAL) ELSE shifted

(* The turns for byte k; a remainder of zero stays zero.                   *)
DivideByte(bits, n, r, k) ==
  LET first == SymDiff(r, NextByte(bits, k))
      turn[i \in 0 .. 8] == IF i = 0 THEN first ELSE DivideBit(turn[i - 1])
  IN  IF first = {} THEN {} ELSE turn[IF n - 8 * k < 8 THEN n - 8 * k ELSE 8]

ComputeCrc(bits, n) ==
  LET remainder[k \in 0 .. (n + 7) \div 8] ==
        IF k = 0 THEN {} ELSE DivideByte(bits, n, remainder[k - 1], k - 1)
  IN  remainder[(n + 7) \div 8] \intersect 0 .. 13

(* Fault: the bits of the CRC in a91[9] are not read.                      *)
ExtractTwoBytes(info) == {91 - p : p \in info \intersect 81 .. 91}

ExtractCrc(info) == {91 - p : p \in info \intersect 78 .. 91}

Payload77(info) == info \intersect 1 .. PayloadBits

(* decode cuts the payload out before it calculates: 82 bits, five of zero.*)
CrcRight(info) == ExtractCrc(info) = ComputeCrc(Payload77(info), 82)

AddCrc(payload) ==
  Payload77(payload) \union {91 - j : j \in ComputeCrc(Payload77(payload), 82)}

-----------------------------------------------------------------------------
(* decode.cpp                                                              *)

GetBits(payload, pos, n) ==
  LET v[i \in 0 .. n] == IF i = 0 THEN 0 ELSE 2 * v[i - 1] + BitOf(payload, pos + i)
  IN  v[n]

(* The digits of a number, last one first: what successive divisions by    *)
(* the radices leave, each weight the product of the radices before.       *)
CallRadix == <<27, 27, 27, 10, 36, 36>>
CallWeight == <<1, 27, 729, 19683, 196830, 7085880>>
UnpackCall(n) == [k \in 1 .. 6 |-> (n \div CallWeight[k]) % CallRadix[k]]

GridRadix == <<10, 10, 18, 18>>
GridWeight == <<1, 10, 100, 1800>>
UnpackGrid(n) == [k \in 1 .. 4 |-> (n \div GridWeight[k]) % GridRadix[k]]

NoText == << >>

(* A standard message: two calls, and a grid if there is one.              *)
Ft8Text(payload) ==
  IF GetBits(payload, 71, 6) # 0 THEN NoText
  ELSE LET n3 == GetBits(payload, 56, 15)
       IN  <<UnpackCall(GetBits(payload, 0, 28)), UnpackCall(GetBits(payload, 28, 28))>>
           \o (IF n3 < 32400 THEN <<UnpackGrid(n3)>> ELSE << >>)

(* Up to eleven characters of seven bits, ended by a zero; one that cannot *)
(* be printed spoils the text.                                             *)
Js8Text(payload) ==
  LET c == [i \in 1 .. 11 |-> GetBits(payload, 7 * (i - 1), 7)]
      text == {i \in 1 .. 11 : \A j \in 1 .. i : c[j] # 0}
  IN  IF \E i \in text : c[i] \notin 32 .. 126 THEN NoText
      ELSE SubSeq(c, 1, Cardinality(text))
=============================================================================
