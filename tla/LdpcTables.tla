----------------------------- MODULE LdpcTables -----------------------------
(***************************************************************************)
(* The tables of src/ft8/constants.c: the parity checks of the code, as    *)
(* the checks' lists of places and the places' lists of checks, and the    *)
(* generator, which nothing in the program reads but an encoder would.     *)
(***************************************************************************)
EXTENDS Naturals, Sequences

FTX_LDPC_M == 83

(* The places of each check, 0 where there is none.                        *)
kFTX_LDPC_Nm == <<
  <<4,31,59,91,92,96,153>>, <<5,32,60,93,115,146,0>>, <<6,24,61,94,122,151,0>>,
  <<7,33,62,95,96,143,0>>, <<8,25,63,83,93,96,148>>, <<6,32,64,97,126,138,0>>,
  <<5,34,65,78,98,107,154>>, <<9,35,66,99,139,146,0>>, <<10,36,67,100,107,126,0>>,
  <<11,37,67,87,101,139,158>>, <<12,38,68,102,105,155,0>>, <<13,39,69,103,149,162,0>>,
  <<8,40,70,82,104,114,145>>, <<14,41,71,88,102,123,156>>, <<15,42,59,106,123,159,0>>,
  <<1,33,72,106,107,157,0>>, <<16,43,73,108,141,160,0>>, <<17,37,74,81,109,131,154>>,
  <<11,44,75,110,121,166,0>>, <<45,55,64,111,130,161,173>>, <<8,46,71,112,119,166,0>>,
  <<18,36,76,89,113,114,143>>, <<19,38,77,104,116,163,0>>, <<20,47,70,92,138,165,0>>,
  <<2,48,74,113,128,160,0>>, <<21,45,78,83,117,121,151>>, <<22,47,58,118,127,164,0>>,
  <<16,39,62,112,134,158,0>>, <<23,43,79,120,131,145,0>>, <<19,35,59,73,110,125,161>>,
  <<20,36,63,94,136,161,0>>, <<14,31,79,98,132,164,0>>, <<3,44,80,124,127,169,0>>,
  <<19,46,81,117,135,167,0>>, <<7,49,58,90,100,105,168>>, <<12,50,61,118,119,144,0>>,
  <<13,51,64,114,118,157,0>>, <<24,52,76,129,148,149,0>>, <<25,53,69,90,101,130,156>>,
  <<20,46,65,80,120,140,170>>, <<21,54,77,100,140,171,0>>, <<35,82,133,142,171,174,0>>,
  <<14,30,83,113,125,170,0>>, <<4,29,68,120,134,173,0>>, <<1,4,52,57,86,136,152>>,
  <<26,51,56,91,122,137,168>>, <<52,84,110,115,145,168,0>>, <<7,50,81,99,132,173,0>>,
  <<23,55,67,95,172,174,0>>, <<26,41,77,109,141,148,0>>, <<2,27,41,61,62,115,133>>,
  <<27,40,56,124,125,126,0>>, <<18,49,55,124,141,167,0>>, <<6,33,85,108,116,156,0>>,
  <<28,48,70,85,105,129,158>>, <<9,54,63,131,147,155,0>>, <<22,53,68,109,121,174,0>>,
  <<3,13,48,78,95,123,0>>, <<31,69,133,150,155,169,0>>, <<12,43,66,89,97,135,159>>,
  <<5,39,75,102,136,167,0>>, <<2,54,86,101,135,164,0>>, <<15,56,87,108,119,171,0>>,
  <<10,44,82,91,111,144,149>>, <<23,34,71,94,127,153,0>>, <<11,49,88,92,142,157,0>>,
  <<29,34,87,97,147,162,0>>, <<30,50,60,86,137,142,162>>, <<10,53,66,84,112,128,165>>,
  <<22,57,85,93,140,159,0>>, <<28,32,72,103,132,166,0>>, <<28,29,84,88,117,143,150>>,
  <<1,26,45,80,128,147,0>>, <<17,27,89,103,116,153,0>>, <<51,57,98,163,165,172,0>>,
  <<21,37,73,138,152,169,0>>, <<16,47,76,130,137,154,0>>, <<3,24,30,72,104,139,0>>,
  <<9,40,90,106,134,151,0>>, <<15,58,60,74,111,150,163>>, <<18,42,79,144,146,152,0>>,
  <<25,38,65,99,122,160,0>>, <<17,42,75,129,170,172,0>>>>

(* The checks of each place.                                               *)
kFTX_LDPC_Mn == <<
  <<16,45,73>>, <<25,51,62>>, <<33,58,78>>, <<1,44,45>>, <<2,7,61>>, <<3,6,54>>, <<4,35,48>>,
  <<5,13,21>>, <<8,56,79>>, <<9,64,69>>, <<10,19,66>>, <<11,36,60>>, <<12,37,58>>, <<14,32,43>>,
  <<15,63,80>>, <<17,28,77>>, <<18,74,83>>, <<22,53,81>>, <<23,30,34>>, <<24,31,40>>, <<26,41,76>>,
  <<27,57,70>>, <<29,49,65>>, <<3,38,78>>, <<5,39,82>>, <<46,50,73>>, <<51,52,74>>, <<55,71,72>>,
  <<44,67,72>>, <<43,68,78>>, <<1,32,59>>, <<2,6,71>>, <<4,16,54>>, <<7,65,67>>, <<8,30,42>>,
  <<9,22,31>>, <<10,18,76>>, <<11,23,82>>, <<12,28,61>>, <<13,52,79>>, <<14,50,51>>, <<15,81,83>>,
  <<17,29,60>>, <<19,33,64>>, <<20,26,73>>, <<21,34,40>>, <<24,27,77>>, <<25,55,58>>, <<35,53,66>>,
  <<36,48,68>>, <<37,46,75>>, <<38,45,47>>, <<39,57,69>>, <<41,56,62>>, <<20,49,53>>, <<46,52,63>>,
  <<45,70,75>>, <<27,35,80>>, <<1,15,30>>, <<2,68,80>>, <<3,36,51>>, <<4,28,51>>, <<5,31,56>>,
  <<6,20,37>>, <<7,40,82>>, <<8,60,69>>, <<9,10,49>>, <<11,44,57>>, <<12,39,59>>, <<13,24,55>>,
  <<14,21,65>>, <<16,71,78>>, <<17,30,76>>, <<18,25,80>>, <<19,61,83>>, <<22,38,77>>, <<23,41,50>>,
  <<7,26,58>>, <<29,32,81>>, <<33,40,73>>, <<18,34,48>>, <<13,42,64>>, <<5,26,43>>, <<47,69,72>>,
  <<54,55,70>>, <<45,62,68>>, <<10,63,67>>, <<14,66,72>>, <<22,60,74>>, <<35,39,79>>, <<1,46,64>>,
  <<1,24,66>>, <<2,5,70>>, <<3,31,65>>, <<4,49,58>>, <<1,4,5>>, <<6,60,67>>, <<7,32,75>>,
  <<8,48,82>>, <<9,35,41>>, <<10,39,62>>, <<11,14,61>>, <<12,71,74>>, <<13,23,78>>, <<11,35,55>>,
  <<15,16,79>>, <<7,9,16>>, <<17,54,63>>, <<18,50,57>>, <<19,30,47>>, <<20,64,80>>, <<21,28,69>>,
  <<22,25,43>>, <<13,22,37>>, <<2,47,51>>, <<23,54,74>>, <<26,34,72>>, <<27,36,37>>, <<21,36,63>>,
  <<29,40,44>>, <<19,26,57>>, <<3,46,82>>, <<14,15,58>>, <<33,52,53>>, <<30,43,52>>, <<6,9,52>>,
  <<27,33,65>>, <<25,69,73>>, <<38,55,83>>, <<20,39,77>>, <<18,29,56>>, <<32,48,71>>, <<42,51,59>>,
  <<28,44,79>>, <<34,60,62>>, <<31,45,61>>, <<46,68,77>>, <<6,24,76>>, <<8,10,78>>, <<40,41,70>>,
  <<17,50,53>>, <<42,66,68>>, <<4,22,72>>, <<36,64,81>>, <<13,29,47>>, <<2,8,81>>, <<56,67,73>>,
  <<5,38,50>>, <<12,38,64>>, <<59,72,80>>, <<3,26,79>>, <<45,76,81>>, <<1,65,74>>, <<7,18,77>>,
  <<11,56,59>>, <<14,39,54>>, <<16,37,66>>, <<10,28,55>>, <<15,60,70>>, <<17,25,82>>, <<20,30,31>>,
  <<12,67,68>>, <<23,75,80>>, <<27,32,62>>, <<24,69,75>>, <<19,21,71>>, <<34,53,61>>, <<35,46,47>>,
  <<33,59,76>>, <<40,43,83>>, <<41,42,63>>, <<49,75,83>>, <<20,44,48>>, <<42,49,57>>>>

kFTX_LDPC_Num_rows == <<
  7, 6, 6, 6, 7, 6, 7, 6, 6, 7, 6, 6, 7, 7, 6, 6, 6, 7, 6, 7, 6, 7, 6, 6, 6, 7, 6, 6,
  6, 7, 6, 6, 6, 6, 7, 6, 6, 6, 7, 7, 6, 6, 6, 6, 7, 7, 6, 6, 6, 6, 7, 6, 6, 6, 7, 6,
  6, 6, 6, 7, 6, 6, 6, 7, 6, 6, 6, 7, 7, 6, 6, 7, 6, 6, 6, 6, 6, 6, 6, 7, 6, 6, 6>>

(* The information bits that each parity bit sums, 16 to a number, the     *)
(* first bit the most significant one.                                     *)
kFTX_LDPC_generator == <<
  <<\H8329,\HCE11,\HBF31,\HEAF5,\H09F2,\H7FC0>>, <<\H761C,\H264E,\H25C2,\H5933,\H5493,\H1320>>,
  <<\HDC26,\H5902,\HFB27,\H7C64,\H10A1,\HBDC0>>, <<\H1B3F,\H4178,\H58CD,\H2DD3,\H3EC7,\HF620>>,
  <<\H09FD,\HA4FE,\HE041,\H95FD,\H0347,\H83A0>>, <<\H077C,\HCCC1,\H1B88,\H73ED,\H5C3D,\H48A0>>,
  <<\H29B6,\H2AFE,\H3CA0,\H36F4,\HFE1A,\H9DA0>>, <<\H6054,\HFAF5,\HF35D,\H96D3,\HB0C8,\HC3E0>>,
  <<\HE207,\H98E4,\H310E,\HED27,\H884A,\HE900>>, <<\H775C,\H9C08,\HE80E,\H26DD,\HAE56,\H3180>>,
  <<\HB0B8,\H1102,\H8C2B,\HF997,\H2134,\H87C0>>, <<\H18A0,\HC923,\H1FC6,\H0ADF,\H5C5E,\HA320>>,
  <<\H7647,\H1E83,\H02A0,\H721E,\H01B1,\H2B80>>, <<\HFFBC,\HCB80,\HCA83,\H41FA,\HFB47,\HB2E0>>,
  <<\H66A7,\H2A15,\H8F93,\H25A2,\HBF67,\H1700>>, <<\HC424,\H3689,\HFE85,\HB1C5,\H1363,\HA180>>,
  <<\H0DFF,\H7394,\H14D1,\HA1B3,\H4B1C,\H2700>>, <<\H15B4,\H8830,\H636C,\H8B99,\H8949,\H72E0>>,
  <<\H29A8,\H9C0D,\H3DE8,\H1D66,\H5489,\HB0E0>>, <<\H4F12,\H6F37,\HFA51,\HCBE6,\H1BD6,\HB940>>,
  <<\H99C4,\H7239,\HD0D9,\H7D3C,\H84E0,\H9400>>, <<\H1919,\HB751,\H1976,\H5621,\HBB4F,\H1E80>>,
  <<\H09DB,\H12D7,\H31FA,\HEE0B,\H86DF,\H6B80>>, <<\H488F,\HC33D,\HF43F,\HBDEE,\HA4EA,\HFB40>>,
  <<\H8274,\H23EE,\H40B6,\H75F7,\H56EB,\H5FE0>>, <<\HABE1,\H97C4,\H84CB,\H7475,\H7144,\HA9A0>>,
  <<\H2B50,\H0E4B,\HC0EC,\H5A6D,\H2BDB,\HDD00>>, <<\HC474,\HAA53,\HD702,\H1876,\H1669,\H3600>>,
  <<\H8EBA,\H1A13,\HDB33,\H90BD,\H6718,\HCEC0>>, <<\H7538,\H4467,\H3A27,\H782C,\HC420,\H12E0>>,
  <<\H06FF,\H83A1,\H45C3,\H7035,\HA5C1,\H2680>>, <<\H3B37,\H4178,\H58CC,\H2DD3,\H3EC3,\HF620>>,
  <<\H9A4A,\H5A28,\HEE17,\HCA9C,\H3248,\H42C0>>, <<\HBC29,\HF465,\H309C,\H977E,\H8961,\H0A40>>,
  <<\H2663,\HAE6D,\HDF8B,\H5CE2,\HBB29,\H4880>>, <<\H46F2,\H31EF,\HE457,\H034C,\H1814,\H4180>>,
  <<\H3FB2,\HCE85,\HABE9,\HB0C7,\H2E06,\HFBE0>>, <<\HDE87,\H481F,\H282C,\H1539,\H71A0,\HA2E0>>,
  <<\HFCD7,\HCCF2,\H3C69,\HFA99,\HBBA1,\H4120>>, <<\HF026,\H1447,\HE949,\H0CA8,\HE474,\HCEC0>>,
  <<\H4410,\H1158,\H1819,\H6F95,\HCDD7,\H0120>>, <<\H088F,\HC31D,\HF4BF,\HBDE2,\HA4EA,\HFB40>>,
  <<\HB8FE,\HF1B6,\H3077,\H29FB,\H0A07,\H8C00>>, <<\H5AFE,\HA7AC,\HCCB7,\H7BBC,\H9D99,\HA900>>,
  <<\H49A7,\H016A,\HC653,\HF65E,\HCDC9,\H0760>>, <<\H1944,\HD085,\HBE4E,\H7DA8,\HD6CC,\H7D00>>,
  <<\H251F,\H62AD,\HC403,\H2F0E,\HE714,\H0020>>, <<\H5647,\H1F87,\H02A0,\H721E,\H00B1,\H2B80>>,
  <<\H2B8E,\H4923,\HF2DD,\H51E2,\HD537,\HFA00>>, <<\H6B55,\H0A40,\HA66F,\H4755,\HDE95,\HC260>>,
  <<\HA18A,\HD28D,\H4E27,\HFE92,\HA4F6,\HC840>>, <<\H10C2,\HE586,\H388C,\HB82A,\H3D80,\H7580>>,
  <<\HEF34,\HA418,\H17EE,\H0213,\H3DB2,\HEB00>>, <<\H7E9C,\H0C54,\H325A,\H9C15,\H836E,\H0000>>,
  <<\H3693,\HE572,\HD1FD,\HE4CD,\HF079,\HE860>>, <<\HBFB2,\HCEC5,\HABE1,\HB0C7,\H2E07,\HFBE0>>,
  <<\H7EE1,\H8230,\HC583,\HCCCC,\H57D4,\HB080>>, <<\HA066,\HCB2F,\HEDAF,\HC9F5,\H2664,\H1260>>,
  <<\HBB23,\H725A,\HBC47,\HCC5F,\H4CC4,\HCD20>>, <<\HDED9,\HDBA3,\HBEE4,\H0C59,\HB560,\H9B40>>,
  <<\HD9A7,\H016A,\HC653,\HE6DE,\HCDC9,\H0360>>, <<\H9AD4,\H6AED,\H5F70,\H7F28,\H0AB5,\HFC40>>,
  <<\HE592,\H1C77,\H8225,\H8731,\H6D7D,\H3C20>>, <<\H4F14,\HDA82,\H42A8,\HB86D,\HCA73,\H3520>>,
  <<\H8B8B,\H507A,\HD467,\HD444,\H1DF7,\H70E0>>, <<\H2283,\H1C9C,\HF116,\H9467,\HAD04,\HB680>>,
  <<\H213B,\H838F,\HE2AE,\H54C3,\H8EE7,\H1800>>, <<\H5D92,\H6B6D,\HD71F,\H0851,\H81A4,\HE120>>,
  <<\H66AB,\H79D4,\HB29E,\HE6E6,\H9509,\HE560>>, <<\H9581,\H4868,\H2D74,\H8A38,\HDD68,\HBAA0>>,
  <<\HB8CE,\H020C,\HF069,\HC32A,\H723A,\HB140>>, <<\HF433,\H1D6D,\H4616,\H07E9,\H5752,\H7460>>,
  <<\H6DA2,\H3BA4,\H24B9,\H5961,\H33CF,\H9C80>>, <<\HA636,\HBCBC,\H7B30,\HC5FB,\HEAE6,\H7FE0>>,
  <<\H5CB0,\HD86A,\H07DF,\H654A,\H9089,\HA200>>, <<\HF11F,\H1068,\H4878,\H0FC9,\HECDD,\H80A0>>,
  <<\H1FBB,\H5364,\HFB8D,\H2C9D,\H730D,\H5BA0>>, <<\HFCB8,\H6BC7,\H0A50,\HC9D0,\H2A5D,\H0340>>,
  <<\HA534,\H4330,\H29EA,\HC15F,\H322E,\H34C0>>, <<\HC989,\HD9C7,\HC3D3,\HB8C5,\H5D75,\H1300>>,
  <<\H7BB3,\H8B2F,\H0186,\HD466,\H43AE,\H9620>>, <<\H2644,\HEBAD,\HEB44,\HB946,\H7D1F,\H42C0>>,
  <<\H608C,\HC857,\H594B,\HFBB5,\H5D69,\H6000>>>>

-----------------------------------------------------------------------------

(* Fault: every row is taken for one of six places.                        *)
ChecksOfSix == [m \in 1 .. FTX_LDPC_M |-> {kFTX_LDPC_Nm[m][i] : i \in 1 .. 6}]

(* The places that ldpc_check and bp_decode read for each check.           *)
Checks ==
  [m \in 1 .. FTX_LDPC_M |-> {kFTX_LDPC_Nm[m][i] : i \in 1 .. kFTX_LDPC_Num_rows[m]}]

(* The information places that the generator sums into each parity bit.    *)
Summed ==
  [m \in 1 .. FTX_LDPC_M |->
     {p \in 1 .. 91 :
        (kFTX_LDPC_generator[m][1 + (p - 1) \div 16] \div 2 ^ (15 - ((p - 1) % 16))) % 2 = 1}]
=============================================================================
