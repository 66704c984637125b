--------------------------- MODULE MCMessageDecode ---------------------------
(***************************************************************************)
(* MessageDecode.tla with the tables of the program: the 79 tones, 83      *)
(* parity checks and 174 bits of FT8.                                      *)
(***************************************************************************)
EXTENDS MessageDecode, LdpcTables

CostasTones == (0 .. 6) \union (36 .. 42) \union (72 .. 78)

(* The payload of ten bytes, and the word that an encoder makes of it.     *)
Unpacked(bytes) == {p \in 1 .. 77 : (bytes[1 + (p - 1) \div 8] \div 2 ^ (7 - ((p - 1) % 8))) % 2 = 1}
Encode(payload) == WithParity(Summed, AddCrc(payload))

(* The samples of the tests, "KA1ABC WA9XYZ EM00" and "HELLO" in JS8; a    *)
(* JS8 text of eleven characters, "HELLO WORLD"; and a payload that is     *)
(* neither.                                                                *)
Ft8Sample == Unpacked(<<137, 12, 144, 29, 164, 234, 188, 65, 160, 0>>)
Js8Sample == Unpacked(<<145, 22, 100, 201, 224, 0, 0, 0, 0, 0>>)
Js8Long == Unpacked(<<145, 22, 100, 201, 232, 43, 207, 165, 50, 32>>)
Neither == Unpacked(<<1, 2, 3, 4, 5, 6, 7, 8, 9, 8>>)

AllMessages == {Encode(Ft8Sample), Encode(Js8Sample), Encode(Js8Long), Encode(Neither)}
SomeBeliefs == {{}, Bits, Encode(Ft8Sample), Encode(Js8Long)}

(* A check has six or seven places (ldpc.c:200 loops over them), and not   *)
(* all have an even number: the premises of MessageDecodeProofs.           *)
ASSUME ChecksAssumption ==
  /\ \A m \in DOMAIN Checks : Cardinality(Checks[m]) \in 6 .. 7
  /\ \E m \in 1 .. FTX_LDPC_M :
       Cardinality({kFTX_LDPC_Nm[m][i] : i \in 1 .. kFTX_LDPC_Num_rows[m]}) % 2 = 1

-----------------------------------------------------------------------------
(* Properties                                                              *)

(* bp_decode sends messages along both tables (ldpc.c:174): the checks of  *)
(* a place must be the checks that list it, and the generator's words must *)
(* pass them all.                                                          *)
TablesAgree ==
  iter = 0 /\ pc = "demap" /\ tones = << >> =>
    /\ \A p \in Bits : {m \in 1 .. FTX_LDPC_M : p \in Checks[m]}
                       = {kFTX_LDPC_Mn[p][i] : i \in 1 .. 3}
    /\ \A p \in 1 .. FTX_LDPC_K : ParityErrors(WithParity(Summed, {p})) = 0

(* The CRC is right, as the test of the FT8 sample says (test_decoder.cpp),*)
(* and notices one or two wrong bits wherever they are among the 91.       *)
CrcSeesTwoFlips ==
  pc = "demap" /\ tones = << >> /\ sent = Encode(Ft8Sample) =>
    CrcRight(Info(sent)) /\ \A p, q \in 1 .. FTX_LDPC_K :
      ~CrcRight(SymDiff(Info(sent), {p} \union {q}))

(* "Receive and decode **FT8** and **JS8** digital modes on HF."           *)
(* (ARCHITECTURE.md:11): with JS8 on, the accepted word of a JS8 sender is *)
(* reported as JS8.                                                        *)
Js8IsReported ==
  pc = "done" /\ crcOk /\ allowJs8 /\ Payload77(plain) \in {Js8Sample, Js8Long} => text = "JS8"
=============================================================================
