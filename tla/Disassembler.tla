----------------------------- MODULE Disassembler -----------------------------
(*****************************************************************************)
(* The x86 disassembler (libudis86): its opcode map and its decoder.         *)
(*****************************************************************************)
EXTENDS Integers, Sequences, SequencesExt, FiniteSets, TLC

-------------------------------------------------------------------------------
(***************************************************************************)
(* The opcode tables of libudis86 (opcmap.c): which operands the bytes      *)
(* after an opcode hold, and which prefixes the instruction knows.  An      *)
(* entry is [mnemonic, ops, flags, group]; the mnemonics that decoding does *)
(* not tell apart are "insn".  An operand is <<kind, n, size>>: Ev is       *)
(* <<"E", 0, SZ_V>>, rBX is <<"r", 3, 0>>.  Opcodes are in hexadecimal.     *)
(***************************************************************************)
SZ_Z == 1
SZ_V == 2
SZ_P == 3
SZ_WP == 4
SZ_DP == 5
SZ_MDQ == 6
SZ_RDQ == 7

\* The operand types.
ArgTypes ==
  [Ap |-> <<"A", 0, SZ_P>>, Eb |-> <<"E", 0, 8>>, Ew |-> <<"E", 0, 16>>, Ev |-> <<"E", 0, SZ_V>>, Ed |-> <<"E", 0, 32>>,
   Ex |-> <<"E", 0, SZ_MDQ>>, Ep |-> <<"E", 0, SZ_P>>, Gb |-> <<"G", 0, 8>>, Gw |-> <<"G", 0, 16>>, Gv |-> <<"G", 0, SZ_V>>,
   Gvw |-> <<"G", 0, SZ_MDQ>>, Gd |-> <<"G", 0, 32>>, Gx |-> <<"G", 0, SZ_MDQ>>, Gz |-> <<"G", 0, SZ_Z>>,
   M |-> <<"M", 0, 0>>, Mw |-> <<"M", 0, 16>>, Md |-> <<"M", 0, 32>>, Mq |-> <<"M", 0, 64>>, Mt |-> <<"M", 0, 80>>,
   I1 |-> <<"I1", 0, 0>>, Ib |-> <<"I", 0, 8>>, Iw |-> <<"I", 0, 16>>, Iv |-> <<"I", 0, SZ_V>>, Iz |-> <<"I", 0, SZ_Z>>,
   Jz |-> <<"J", 0, SZ_Z>>, Jb |-> <<"J", 0, 8>>, R |-> <<"R", 0, SZ_RDQ>>, C |-> <<"C", 0, 0>>, D |-> <<"D", 0, 0>>,
   S |-> <<"S", 0, 0>>, Ob |-> <<"O", 0, 8>>, Ov |-> <<"O", 0, SZ_V>>, V |-> <<"V", 0, 0>>, W |-> <<"W", 0, 0>>,
   P |-> <<"P", 0, 0>>, Q |-> <<"Q", 0, 0>>, VR |-> <<"VR", 0, 0>>, PR |-> <<"PR", 0, 0>>]

\* The registers; the ones of Numbered are numbered by the opcode's low bits.
ArgRegs ==
  [AL |-> <<"b8", 0, 0>>, CL |-> <<"b8", 1, 0>>, AX |-> <<"w", 0, 0>>, DX |-> <<"w", 2, 0>>, eAX |-> <<"e", 0, 0>>, rAX |-> <<"r", 0, 0>>,
   ES |-> <<"sreg", 0, 0>>, CS |-> <<"sreg", 1, 0>>, SS |-> <<"sreg", 2, 0>>, DS |-> <<"sreg", 3, 0>>, FS |-> <<"sreg", 4, 0>>,
   GS |-> <<"sreg", 5, 0>>, ST0 |-> <<"st", 0, 0>>]
Numbered == [en |-> "e", rn |-> "rr", bn |-> "b8r", STn |-> "st"]

NoArg == <<"none", 0, 0>>
Arg(a, i) ==
  IF a \in DOMAIN Numbered THEN <<Numbered[a], i % 8, 0>> ELSE IF a \in DOMAIN ArgRegs THEN ArgRegs[a] ELSE ArgTypes[a]
Invalid == [mnemonic |-> "invalid", ops |-> <<NoArg, NoArg, NoArg>>, flags |-> {}, group |-> ""]

\* Rows of a table: the same entry at several indices, a group, no entry.
Ins(at, mnemonic, args, flags) ==
  [i \in at |-> [mnemonic |-> mnemonic, ops |-> [k \in 1..3 |-> IF k <= Len(args) THEN Arg(args[k], i) ELSE NoArg],
                 flags |-> flags, group |-> ""]]
Grp(i, group) == i :> [Invalid EXCEPT !.mnemonic = "grp", !.group = group]
NoRows(at) == [i \in at |-> Invalid]
Filled(at, rows) == rows @@ NoRows(at)

RXB == {"a32", "R", "X", "B"}
WRXB == RXB \cup {"o32", "W"}
ORXB == RXB \cup {"o32"}
BRXB == RXB \cup {"W"}

----------------------------------------------------------------------------
(* itab_1byte.                                                              *)

OneByteLow ==
  LET alu(k) == {8 * i + k : i \in 0..7}
  IN   Ins(alu(0), "insn", <<"Eb", "Gb">>, RXB) @@ Ins(alu(1), "insn", <<"Ev", "Gv">>, WRXB)
    @@ Ins(alu(2), "insn", <<"Gb", "Eb">>, RXB) @@ Ins(alu(3), "insn", <<"Gv", "Ev">>, WRXB)
    @@ Ins(alu(4), "insn", <<"AL", "Ib">>, {}) @@ Ins(alu(5), "insn", <<"rAX", "Iz">>, {"o32", "W"})
    @@ Ins({\h06, \h07}, "insn", <<"ES">>, {"inv64"}) @@ Ins({\h0E}, "insn", <<"CS">>, {"inv64"})
    @@ Ins({\h16, \h17}, "insn", <<"SS">>, {"inv64"}) @@ Ins({\h1E, \h1F}, "insn", <<"DS">>, {"inv64"})
    @@ Ins({\h27, \h2F, \h37, \h3F}, "insn", <<>>, {"inv64"})
    @@ Ins(\h40..\h4F, "insn", <<"en">>, {"o32"}) @@ Ins(\h50..\h5F, "insn", <<"rn">>, {"o32", "def64", "B"})
    @@ Ins({\h60}, "pusha", <<>>, {"o32", "inv64", "depM"}) @@ Ins({\h61}, "popa", <<>>, {"o32", "inv64", "depM"})
    @@ Ins({\h62}, "insn", <<"Gv", "M">>, {"o32", "a32", "inv64"}) @@ Ins({\h63}, "arpl", <<"Ew", "Gw">>, {"a32", "inv64"})
    @@ Ins({\h68}, "insn", <<"Iz">>, {"o32"}) @@ Ins({\h69}, "insn", <<"Gv", "Ev", "Iz">>, WRXB)
    @@ Ins({\h6A}, "insn", <<"Ib">>, {}) @@ Ins({\h6B}, "insn", <<"Gv", "Ev", "Ib">>, WRXB)
    @@ Ins({\h6C, \h6E}, "insn", <<>>, {}) @@ Ins({\h6D}, "insw", <<>>, {"o32", "depM"}) @@ Ins({\h6F}, "outsw", <<>>, {"o32", "depM"})
    @@ Ins(\h70..\h7F, "insn", <<"Jb">>, {})

OneByteHigh ==
     Grp(\h80, "80") @@ Grp(\h81, "81") @@ Grp(\h82, "82") @@ Grp(\h83, "83")
  @@ Ins({\h84, \h86, \h88}, "insn", <<"Eb", "Gb">>, RXB) @@ Ins({\h85, \h87, \h89}, "insn", <<"Ev", "Gv">>, WRXB)
  @@ Ins({\h8A}, "insn", <<"Gb", "Eb">>, RXB) @@ Ins({\h8B}, "insn", <<"Gv", "Ev">>, WRXB)
  @@ Ins({\h8C}, "insn", <<"Ev", "S">>, ORXB) @@ Ins({\h8D}, "insn", <<"Gv", "M">>, WRXB) @@ Ins({\h8E}, "insn", <<"S", "Ev">>, ORXB)
  @@ Grp(\h8F, "8F") @@ Ins(\h90..\h97, "insn", <<"rn", "rAX">>, {"o32", "W", "B"})
  @@ Ins({\h98}, "cbw", <<>>, {"o32", "depM", "W"}) @@ Ins({\h99}, "cwd", <<>>, {"o32", "depM", "W"})
  @@ Ins({\h9A}, "call", <<"Ap">>, {"o32", "inv64"}) @@ Ins({\h9B, \h9E, \h9F}, "insn", <<>>, {})
  @@ Ins({\h9C}, "pushfw", <<>>, {"o32", "depM", "def64"}) @@ Ins({\h9D}, "popfw", <<>>, {"o32", "depM", "def64"})
  @@ Ins({\hA0}, "insn", <<"AL", "Ob">>, {}) @@ Ins({\hA1}, "insn", <<"rAX", "Ov">>, {"o32", "a32", "W"})
  @@ Ins({\hA2}, "insn", <<"Ob", "AL">>, {}) @@ Ins({\hA3}, "insn", <<"Ov", "rAX">>, {"o32", "a32", "W"})
  @@ Ins({\hA4, \hA6, \hAA, \hAC, \hAE}, "insn", <<>>, {})
  @@ Ins({\hA5}, "movsw", <<>>, {"o32", "depM", "W"}) @@ Ins({\hA7}, "cmpsw", <<>>, {"o32", "depM", "W"})
  @@ Ins({\hAB}, "stosw", <<>>, {"o32", "depM", "W"}) @@ Ins({\hAD}, "lodsw", <<>>, {"o32", "depM", "W"})
  @@ Ins({\hAF}, "scasw", <<>>, {"o32", "depM", "W"})
  @@ Ins({\hA8}, "insn", <<"AL", "Ib">>, {}) @@ Ins({\hA9}, "insn", <<"rAX", "Iz">>, {"o32", "W"})
  @@ Ins(\hB0..\hB7, "insn", <<"bn", "Ib">>, {"B"}) @@ Ins(\hB8..\hBF, "insn", <<"rn", "Iv">>, {"o32", "W", "B"})
  @@ Grp(\hC0, "C0") @@ Grp(\hC1, "C1") @@ Ins({\hC2, \hCA}, "insn", <<"Iw">>, {}) @@ Ins({\hC3, \hC9, \hCB, \hCC}, "insn", <<>>, {})
  @@ Ins({\hC4, \hC5}, "insn", <<"Gv", "M">>, {"o32", "a32", "inv64"}) @@ Grp(\hC6, "C6") @@ Grp(\hC7, "C7")
  @@ Ins({\hC8}, "insn", <<"Iw", "Ib">>, {"def64"}) @@ Ins({\hCD}, "insn", <<"Ib">>, {}) @@ Ins({\hCE, \hD6}, "insn", <<>>, {"inv64"})
  @@ Ins({\hCF}, "iretw", <<>>, {"o32", "depM", "W"}) @@ Grp(\hD0, "D0") @@ Grp(\hD1, "D1") @@ Grp(\hD2, "D2") @@ Grp(\hD3, "D3")
  @@ Ins({\hD4, \hD5}, "insn", <<"Ib">>, {"inv64"}) @@ Ins({\hD7}, "insn", <<>>, {"W"}) @@ Ins(\hD8..\hDF, "x87", <<>>, {})
  @@ Ins({\hE0, \hE1}, "insn", <<"Jb">>, {}) @@ Ins({\hE2}, "insn", <<"Jb">>, {"def64"}) @@ Ins({\hE3}, "jcxz", <<"Jb">>, {"a32", "depM"})
  @@ Ins({\hE4}, "insn", <<"AL", "Ib">>, {}) @@ Ins({\hE5}, "insn", <<"eAX", "Ib">>, {"o32"})
  @@ Ins({\hE6}, "insn", <<"Ib", "AL">>, {}) @@ Ins({\hE7}, "insn", <<"Ib", "eAX">>, {"o32"})
  @@ Ins({\hE8}, "call", <<"Jz">>, {"o32", "def64"}) @@ Ins({\hE9}, "jmp", <<"Jz">>, {"o32", "def64"})
  @@ Ins({\hEA}, "jmp", <<"Ap">>, {"inv64"}) @@ Ins({\hEB}, "jmp", <<"Jb">>, {})
  @@ Ins({\hEC}, "insn", <<"AL", "DX">>, {}) @@ Ins({\hED}, "insn", <<"eAX", "DX">>, {"o32"})
  @@ Ins({\hEE}, "insn", <<"DX", "AL">>, {}) @@ Ins({\hEF}, "insn", <<"DX", "eAX">>, {"o32"})
  @@ Ins({\hF1, \hF4, \hF5} \cup \hF8..\hFD, "insn", <<>>, {})
  @@ Grp(\hF6, "F6") @@ Grp(\hF7, "F7") @@ Grp(\hFE, "FE") @@ Grp(\hFF, "FF")

\* (The prefixes have rows that no decoding reaches.)
OneByte == Filled(0..255, OneByteLow @@ OneByteHigh)

----------------------------------------------------------------------------
(* itab_2byte, and itab_2byte_prefixF3, 66 and F2: an index that a prefix's *)
(* table leaves out ("na") is looked for in itab_2byte.                     *)

VW(at) == Ins(at, "insn", <<"V", "W">>, RXB)
WV(at) == Ins(at, "insn", <<"W", "V">>, RXB)
VWImm(at) == Ins(at, "insn", <<"V", "W", "Ib">>, RXB)
PQ(at) == Ins(at, "insn", <<"P", "Q">>, RXB)
MV(at) == Ins(at, "insn", <<"M", "V">>, RXB)
VM(at) == Ins(at, "insn", <<"V", "M">>, RXB)
Alone(at) == Ins(at, "insn", <<>>, {})

\* (nop is the mnemonic of 0F 19 to 0F 1F as well; the entry of 0F 0F is itab_3DNow.)
TwoByteLow ==
     Grp(\h00, "0F00") @@ Grp(\h01, "0F01") @@ Ins({\h02, \h03}, "insn", <<"Gv", "Ew">>, WRXB)
  @@ Alone(\h05..\h09 \cup {\h0B, \h0E} \cup \h30..\h33 \cup {\h77}) @@ Grp(\h0D, "0F0D") @@ Ins({\h0F}, "3dnow", <<"P", "Q">>, {})
  @@ VW({\h10, \h14, \h15, \h28, \h2E, \h2F} \cup \h51..\h5F) @@ WV({\h11, \h29})
  @@ Ins({\h12}, "movlps", <<"V", "W">>, RXB) @@ Ins({\h13}, "movlps", <<"M", "V">>, RXB)
  @@ Ins({\h16}, "movhps", <<"V", "W">>, RXB) @@ Ins({\h17}, "movhps", <<"M", "V">>, RXB)
  @@ Grp(\h18, "0F18") @@ Ins(\h19..\h1F, "nop", <<"M">>, RXB)
  @@ Ins({\h20}, "insn", <<"R", "C">>, {"R"}) @@ Ins({\h21}, "insn", <<"R", "D">>, {"R"})
  @@ Ins({\h22}, "insn", <<"C", "R">>, {"R"}) @@ Ins({\h23}, "insn", <<"D", "R">>, {"R"})
  @@ Ins({\h2A}, "insn", <<"V", "Q">>, RXB) @@ MV({\h2B}) @@ Ins({\h2C, \h2D}, "insn", <<"P", "W">>, RXB)
  @@ Ins({\h34, \h35}, "insn", <<>>, {"inv64"}) @@ Ins(\h40..\h4F, "insn", <<"Gv", "Ev">>, WRXB)
  @@ Ins({\h50}, "insn", <<"Gd", "VR">>, {"o32", "R", "B"}) @@ PQ(\h60..\h6B \cup {\h6F} \cup \h74..\h76)
  @@ Ins({\h6E}, "insn", <<"P", "Ex">>, RXB) @@ Ins({\h70}, "insn", <<"P", "Q", "Ib">>, RXB)
  @@ Grp(\h71, "0F71") @@ Grp(\h72, "0F72") @@ Grp(\h73, "0F73")
  @@ Ins({\h7E}, "insn", <<"Ex", "P">>, RXB) @@ Ins({\h7F}, "insn", <<"Q", "P">>, RXB)

TwoByteHigh ==
     Ins(\h80..\h8F, "insn", <<"Jz">>, {"o32", "def64"}) @@ Ins(\h90..\h9F, "insn", <<"Eb">>, RXB)
  @@ Ins({\hA0, \hA1}, "insn", <<"FS">>, {}) @@ Ins({\hA8, \hA9}, "insn", <<"GS">>, {}) @@ Alone({\hA2, \hAA})
  @@ Ins({\hA3, \hAB, \hB1, \hB3, \hBB, \hC1}, "insn", <<"Ev", "Gv">>, WRXB)
  @@ Ins({\hA4, \hAC}, "insn", <<"Ev", "Gv", "Ib">>, WRXB) @@ Ins({\hA5, \hAD}, "insn", <<"Ev", "Gv", "CL">>, WRXB)
  @@ Grp(\hAE, "0FAE") @@ Ins({\hAF, \hBC, \hBD}, "insn", <<"Gv", "Ev">>, WRXB) @@ Ins({\hB0}, "insn", <<"Eb", "Gb">>, RXB)
  @@ Ins({\hB2, \hB4, \hB5}, "insn", <<"Gz", "M">>, WRXB)
  @@ Ins({\hB6, \hBE}, "insn", <<"Gv", "Eb">>, WRXB) @@ Ins({\hB7, \hBF}, "insn", <<"Gv", "Ew">>, WRXB)
  @@ Grp(\hB9, "0FB9") @@ Grp(\hBA, "0FBA") @@ Ins({\hC0}, "insn", <<"Eb", "Gb">>, ORXB) @@ VWImm({\hC2, \hC6})
  @@ Ins({\hC3}, "insn", <<"M", "Gx">>, BRXB) @@ Ins({\hC4}, "insn", <<"P", "Ew", "Ib">>, WRXB)
  @@ Ins({\hC5}, "insn", <<"Gd", "PR", "Ib">>, WRXB) @@ Grp(\hC7, "0FC7") @@ Ins(\hC8..\hCF, "insn", <<"rn">>, {"o32", "W", "B"})
  @@ PQ(\hD1..\hFE \ {\hD6, \hD7, \hE6, \hE7, \hF0}) @@ Ins({\hD7}, "insn", <<"Gd", "PR">>, {"o32", "R", "B"})
  @@ Ins({\hE7}, "insn", <<"M", "P">>, {})

PrefixF3Low ==
     VW({\h10, \h12, \h16} \cup \h51..\h53 \cup \h58..\h5F \cup {\h6F, \h7E}) @@ WV({\h11, \h7F}) @@ VWImm({\h70})
  @@ Ins({\h2A}, "insn", <<"V", "Ex">>, RXB) @@ Ins({\h2C, \h2D}, "insn", <<"Gvw", "W">>, RXB)
  @@ NoRows(\h13..\h15 \cup \h28..\h2F \cup \h50..\h7F)

PrefixF3High ==
     Ins({\hC0}, "insn", <<"Eb", "Gb">>, BRXB) @@ Ins({\hC1}, "insn", <<"Ev", "Gv">>, BRXB) @@ VWImm({\hC2}) @@ Grp(\hC7, "0FC7")
  @@ Ins({\hD6}, "insn", <<"V", "PR">>, {"a32"}) @@ VW({\hE6}) @@ NoRows(\hC3..\hC6 \cup \hD0..\hFF)

Prefix66Low ==
     VW({\h10, \h14, \h15, \h28, \h2E, \h2F, \h51, \h7C, \h7D, \h6F} \cup \h54..\h6D \cup \h74..\h76) @@ WV({\h11, \h29, \h7F})
  @@ VM({\h12, \h16}) @@ MV({\h13, \h17, \h2B}) @@ Ins({\h2A}, "insn", <<"V", "Q">>, RXB) @@ Ins({\h2C, \h2D}, "insn", <<"P", "W">>, RXB)
  @@ Ins({\h50}, "insn", <<"Gd", "VR">>, {"o32", "R", "B"}) @@ Ins({\h6E}, "insn", <<"V", "Ex">>, BRXB) @@ VWImm({\h70})
  @@ Grp(\h71, "0F71") @@ Grp(\h72, "0F72") @@ Grp(\h73, "0F73") @@ Ins({\h7E}, "insn", <<"Ex", "V">>, BRXB)
  @@ NoRows({\h52, \h53} \cup \h77..\h7B)

Prefix66High ==
     Ins({\hC0}, "insn", <<"Eb", "Gb">>, BRXB) @@ Ins({\hC1}, "insn", <<"Ev", "Gv">>, WRXB) @@ VWImm({\hC2, \hC6})
  @@ Ins({\hC4}, "insn", <<"V", "Ew", "Ib">>, BRXB) @@ Ins({\hC5}, "insn", <<"Gd", "VR", "Ib">>, {"a32", "R", "B"}) @@ Grp(\hC7, "0FC7")
  @@ WV({\hD6}) @@ Ins({\hD7}, "insn", <<"Gd", "VR">>, {"R", "B"}) @@ Ins({\hE6}, "insn", <<"V", "W">>, {}) @@ MV({\hE7})
  @@ VW(\hD0..\hFE \ {\hD6, \hD7, \hE6, \hE7, \hF0}) @@ NoRows({\hC3, \hF0, \hFF})

PrefixF2Low ==
     VW({\h10, \h12, \h51, \h7C, \h7D} \cup \h58..\h5A \cup \h5C..\h5F) @@ WV({\h11}) @@ VWImm({\h70})
  @@ Ins({\h2A}, "insn", <<"V", "Ex">>, BRXB) @@ Ins({\h2C, \h2D}, "insn", <<"Gvw", "W">>, RXB)
  @@ NoRows(\h13..\h17 \cup \h28..\h2F \cup \h38..\h3F \cup \h50..\h7F)

PrefixF2High ==
     Ins({\hC0}, "insn", <<"Eb", "Gb">>, BRXB) @@ Ins({\hC1}, "insn", <<"Ev", "Gv">>, ORXB) @@ VWImm({\hC2}) @@ Grp(\hC7, "0FC7")
  @@ VW({\hD0, \hE6}) @@ Ins({\hD6}, "insn", <<"P", "VR">>, {"a32", "B"}) @@ VM({\hF0}) @@ NoRows(\hC3..\hC6 \cup \hD0..\hFF)

\* The tables by the prefix that chooses them.
TwoByte ==
     0 :> Filled(0..255, TwoByteLow @@ TwoByteHigh) @@ \hF3 :> (PrefixF3Low @@ PrefixF3High)
  @@ \h66 :> (Prefix66Low @@ Prefix66High) @@ \hF2 :> (PrefixF2Low @@ PrefixF2High)

----------------------------------------------------------------------------
(* itab_groups, by the reg field of the byte that follows.                  *)

Eight(rows) == Filled(0..7, rows)
All(args, flags) == Ins(0..7, "insn", args, flags)

ArithmeticGroups ==
     "80" :> All(<<"Eb", "Ib">>, BRXB) @@ "81" :> All(<<"Ev", "Iz">>, WRXB) @@ "82" :> All(<<"Eb", "Ib">>, BRXB \cup {"inv64"})
  @@ "83" :> All(<<"Ev", "Ib">>, WRXB) @@ "8F" :> Eight(Ins({0}, "insn", <<"Ev">>, WRXB \cup {"def64"}))
  @@ "C0" :> All(<<"Eb", "Ib">>, BRXB) @@ "C1" :> All(<<"Ev", "Ib">>, WRXB) @@ "D0" :> All(<<"Eb", "I1">>, BRXB)
  @@ "D1" :> Eight(Ins(0..7 \ {6}, "insn", <<"Ev", "I1">>, WRXB)) @@ "D2" :> All(<<"Eb", "CL">>, BRXB) @@ "D3" :> All(<<"Ev", "CL">>, WRXB)

UnaryGroups ==
     "F6" :> (Ins({0, 1}, "insn", <<"Eb", "Ib">>, BRXB) @@ Ins(2..7, "insn", <<"Eb">>, BRXB))
  @@ "F7" :> (Ins({0, 1}, "insn", <<"Ev", "Iz">>, WRXB) @@ Ins(2..7, "insn", <<"Ev">>, WRXB))
  @@ "FE" :> Eight(Ins({0, 1}, "insn", <<"Eb">>, BRXB))
  @@ "FF" :> Eight(Ins({0, 1}, "insn", <<"Ev">>, WRXB) @@ Ins({2}, "call", <<"Ev">>, WRXB \cup {"def64"}) @@ Ins({3}, "call", <<"Ep">>, WRXB)
                   @@ Ins({4}, "jmp", <<"Ev">>, WRXB \cup {"def64"}) @@ Ins({5}, "jmp", <<"Ep">>, WRXB)
                   @@ Ins({6}, "insn", <<"Ev">>, WRXB \cup {"def64"}))

SystemGroups ==
     "0F00" :> Eight(Ins({0, 1}, "insn", <<"Ev">>, ORXB) @@ Ins(2..5, "insn", <<"Ew">>, RXB))
  @@ "0F01" :> Eight(Ins(0..4 \cup {7}, "insn", <<"M">>, RXB) @@ Ins({6}, "insn", <<"Ew">>, RXB))
  @@ "0F01_Reg7" :> Eight(Ins({0}, "swapgs", <<>>, {"depM"}) @@ Alone({1})) @@ "0F01_Reg3" :> Alone(0..7)

BitGroups ==
     "0FBA" :> Eight(Ins(4..7, "insn", <<"Ev", "Ib">>, WRXB)) @@ "0FC7" :> Eight(Ins({1}, "cmpxchg8b", <<"M">>, RXB \cup {"depM"}))

MoveGroups ==
     "0FB9" :> NoRows(0..7) @@ "C6" :> Eight(Ins({0}, "insn", <<"Eb", "Ib">>, BRXB)) @@ "C7" :> Eight(Ins({0}, "insn", <<"Ev", "Iz">>, WRXB))

MediaGroups ==
     "0F71" :> Eight(Ins({2, 4, 6}, "insn", <<"PR", "Ib">>, {})) @@ "0F72" :> Eight(Ins({2, 4, 6}, "insn", <<"PR", "Ib">>, {}))
  @@ "0F73" :> Eight(Ins({2, 6}, "insn", <<"PR", "Ib">>, {}))

FenceGroups ==
     "0FAE" :> Eight(Ins({0, 1, 7}, "insn", <<"M">>, BRXB) @@ Ins({2, 3}, "insn", <<"Md">>, BRXB)) @@ "0FAE_Reg" :> Alone(5..7)

PrefetchGroups ==
     "0F18" :> Eight(Ins(0..3, "insn", <<"M">>, BRXB)) @@ "0F0D" :> All(<<"M">>, BRXB)

\* The groups with tables for prefixes; those of F3 and F2 are empty.
PrefixedGroups ==
     <<"0F71", \h66>> :> Eight(Ins({2, 4, 6}, "insn", <<"VR", "Ib">>, {"B"})) @@ <<"0F72", \h66>> :> Eight(Ins({2, 4, 6}, "insn", <<"VR", "Ib">>, {"B"}))
  @@ <<"0F73", \h66>> :> Eight(Ins({2, 3, 6, 7}, "insn", <<"VR", "Ib">>, {"B"}) @@ Ins({4}, "invalid", <<>>, {"B"})) @@ <<"0FAE", \h66>> :> NoRows(0..7)
  @@ [k \in {"0F71", "0F72", "0F73", "0FAE"} \X {\hF2, \hF3} |-> NoRows(0..7)]

Groups == ArithmeticGroups @@ UnaryGroups @@ SystemGroups @@ BitGroups @@ MoveGroups @@ MediaGroups @@ FenceGroups @@ PrefetchGroups

----------------------------------------------------------------------------
(* Floating point: itab_x87_reg by the reg field, itab_x87 by the byte.     *)

Mem(at, arg) == Ins(at, "insn", <<arg>>, RXB)
X87Reg ==
     \hD8 :> Mem(0..7, "Md") @@ \hD9 :> Eight(Mem({0, 2, 3}, "Md") @@ Mem({4, 6}, "M") @@ Mem({5, 7}, "Mw"))
  @@ \hDA :> Mem(0..7, "Md") @@ \hDB :> Eight(Mem(0..3, "Md") @@ Mem({5, 7}, "Mt")) @@ \hDC :> Mem(0..7, "Mq")
  @@ \hDD :> Eight(Mem(0..3, "Mq") @@ Mem({4, 6}, "M") @@ Mem({7}, "Mw")) @@ \hDE :> Mem(0..7, "Mw")
  @@ \hDF :> (Mem(0..3, "Mw") @@ Mem({4, 6}, "Mt") @@ Mem({5, 7}, "Mq"))

FromTop(at) == Ins(at, "insn", <<"ST0", "STn">>, {})
ToTop(at) == Ins(at, "insn", <<"STn", "ST0">>, {})
Sixtyfour(rows) == Filled(0..63, rows)
X87D8 == FromTop(0..63)
X87D9 == Sixtyfour(FromTop(0..15) @@ Ins(24..31, "none", <<>>, {})
                   @@ Alone({16, 32, 33, 36, 37} \cup 40..46 \cup 48..63))
X87DA == Sixtyfour(FromTop(0..31) @@ Alone({41}))
X87DB == Sixtyfour(FromTop(0..31 \cup 40..55) @@ Alone({34, 35}))
X87DC == Sixtyfour(ToTop(0..15 \cup 32..63))
X87DD == Sixtyfour(Ins(0..7 \cup 16..47, "insn", <<"STn">>, {}))
X87DE == Sixtyfour(ToTop(0..15 \cup 32..63) @@ Alone({25}))
X87DF == Sixtyfour(FromTop(40..55) @@ Ins({32}, "insn", <<"AX">>, {}))
X87 == \hD8 :> X87D8 @@ \hD9 :> X87D9 @@ \hDA :> X87DA @@ \hDB :> X87DB @@ \hDC :> X87DC @@ \hDD :> X87DD @@ \hDE :> X87DE @@ \hDF :> X87DF

\* The entries outside the tables.
Nop == [Invalid EXCEPT !.mnemonic = "nop"]
Pause == [Invalid EXCEPT !.mnemonic = "pause"]
Movsxd == Ins({0}, "movsxd", <<"Gv", "Ed">>, WRXB)[0]

\* ud_map_get_3dnow: the suffixes that name an instruction.
Suffix3dnow ==
  {\h0C, \h0D, \h1C, \h1D, \h8A, \h8E, \h90, \h94, \h96, \h97, \h9A, \h9E, \hA0, \hA4, \hA6, \hA7, \hAA, \hAE, \hB0, \hB4, \hB6, \hB7, \hBB, \hBF}

-------------------------------------------------------------------------------
(***************************************************************************)
(* The x86 decoder of libudis86 (input.c, decode.c, opcmap.c, syn-intel.c)  *)
(* as the debugger uses it (kernel/debug.cpp, unassemble).  u is struct ud. *)
(* Bytes are numbers, what an instruction's bytes say is a record; the      *)
(* tables of opcodes are those of OpcodeMap.  The vendor is AMD, which      *)
(* nothing changes.                                                         *)
(***************************************************************************)
CONSTANTS Streams,      \* the code that is disassembled
          Modes,        \* of 16, 32, 64
          CacheSize,    \* of inp_cache: 256
          MaxPrefixes,  \* the index of the byte that is one too many: 14
          MaxInsns      \* instructions that unassemble prints: 10

DisassemblerAssumption ==
  /\ Modes \subseteq {16, 32, 64} /\ CacheSize \in Nat /\ CacheSize > 1
  /\ MaxPrefixes \in Nat \ {0} /\ MaxInsns \in Nat

VARIABLES code,         \* what the input hook reads: the bytes from the address on
          u,            \* struct ud
          printed       \* how many instructions were printed
          
uvars == <<code, u, printed>>

NoReg == <<"none", 0>>
NoOperand == [type |-> "none", size |-> 0, base |-> NoReg, index |-> NoReg, scale |-> 0, offset |-> 0, lval |-> <<>>]
Mod(b) == b \div 64
Reg(b) == (b \div 8) % 8
Rm(b) == b % 8

----------------------------------------------------------------------------
(* Input (input.c).                                                         *)

Byte(x) == x.inp_cache[x.inp_curr]        \* inp_curr(u)

\* inp_next: from the cache, or from the hook.  (taken counts the hook's bytes.)
Taken(x, fresh, next, b) ==
  [x EXCEPT !.inp_curr = next, !.inp_fill = IF fresh THEN next ELSE @, !.inp_cache[next] = b,
            !.taken = IF fresh THEN @ + 1 ELSE @, !.inp_sess = Append(@, b)]
inp_next(x) ==
  LET next == (x.inp_curr + 1) % CacheSize
  IN IF x.inp_curr # x.inp_fill THEN Taken(x, FALSE, next, x.inp_cache[next])
     ELSE IF x.inp_end \/ x.taken = Len(code) THEN [x EXCEPT !.error = TRUE, !.inp_end = TRUE]
     ELSE Taken(x, TRUE, next, code[x.taken + 1])

inp_back_kept(x) == [x EXCEPT !.inp_sess = IF @ = <<>> THEN @ ELSE Front(@)]
inp_back(x) ==
  IF x.inp_sess = <<>> THEN x ELSE [x EXCEPT !.inp_curr = (@ - 1) % CacheSize, !.inp_sess = Front(@)]

\* inp_peek: the object after it, and the byte (0 at the end).
GivenBack(x) == IF x.error THEN x ELSE inp_back(x)
ByteOr0(x) == IF x.error THEN 0 ELSE Byte(x)
inp_peek(x) == GivenBack(inp_next(x))
Peeked(x) == ByteOr0(inp_next(x))

\* inp_uint8 to inp_uint64: n bytes, into an operand.
RECURSIVE inp_uint(_, _, _)
inp_uint(x, n, k) ==
  IF n = 0 THEN x
  ELSE inp_uint([inp_next(x) EXCEPT !.operand[k].lval = Append(@, Peeked(x))], n - 1, k)

----------------------------------------------------------------------------
(* Prefixes (decode.c).                                                     *)

Segment == 46 :> "cs" @@ 54 :> "ss" @@ 62 :> "ds" @@ 38 :> "es" @@ 100 :> "fs" @@ 101 :> "gs"

PrefixByte(x, b) == b \in DOMAIN Segment \cup {102, 103, 240, 242, 243} \/ (x.dis_mode = 64 /\ b \div 16 = 4)

WithPrefix(x, b) ==
  CASE x.dis_mode = 64 /\ b \div 16 = 4 -> [x EXCEPT !.rex = b]
    [] b \in DOMAIN Segment -> [x EXCEPT !.pfx_seg = Segment[b]]
    [] b = 103 -> [x EXCEPT !.pfx_adr = TRUE]
    [] b = 240 -> [x EXCEPT !.pfx_lock = TRUE]
    [] b = 102 -> [x EXCEPT !.pfx_opr = TRUE, !.pfx_insn = IF @ \in {242, 243} THEN @ ELSE 102]
    [] b = 242 -> [x EXCEPT !.pfx_insn = 242, !.pfx_repne = TRUE]
    [] b = 243 -> [x EXCEPT !.pfx_insn = 243, !.pfx_rep = TRUE]

RECURSIVE do_prefixes(_, _)
do_prefixes(x, i) ==
  LET y == inp_next(x)
  IN IF y.error THEN y
     ELSE IF i = MaxPrefixes THEN [y EXCEPT !.error = TRUE]
     ELSE IF PrefixByte(y, Byte(y)) THEN do_prefixes(WithPrefix(y, Byte(y)), i + 1)
     ELSE inp_back(y)

\* clear_insn: opr_mode, adr_mode and default64 keep their values.
clear_insn(x) ==
  [x EXCEPT !.error = FALSE, !.pfx_seg = "none", !.pfx_opr = FALSE, !.pfx_adr = FALSE, !.pfx_lock = FALSE,
            !.pfx_repne = FALSE, !.pfx_rep = FALSE, !.rex = 0, !.pfx_insn = 0, !.mnemonic = "none", !.mapen = Invalid,
            !.operand = <<NoOperand, NoOperand, NoOperand>>]

----------------------------------------------------------------------------
(* The opcode (opcmap.c).                                                   *)

Found(x, e) == [x EXCEPT !.mapen = e]
\* The invalid entries of a group take the byte that they were looked up with.
FoundIn(x, e) == IF e.mnemonic = "invalid" THEN inp_next(Found(x, e)) ELSE Found(x, e)

\* The entry e of the table leads on to a group, by the byte after it.
Grouped(x, e, b) ==
  IF x.error THEN x
  ELSE IF e.mnemonic = "grp" THEN FoundIn(x, Groups[e.group][Reg(b)])
  ELSE IF b <= 191 THEN FoundIn(x, X87Reg[Byte(x)][Reg(b)])
  ELSE inp_next(Found(x, X87[Byte(x)][b - 192]))
OneByteEntry(x, e) ==
  CASE e.mnemonic \in {"grp", "x87"} -> Grouped(inp_peek(x), e, Peeked(x))
    [] Byte(x) = 144 /\ ~(x.dis_mode = 64 /\ x.rex % 2 = 1) ->
         IF x.pfx_rep THEN [Found(x, Pause) EXCEPT !.pfx_rep = FALSE] ELSE Found(x, Nop)
    [] x.dis_mode = 64 /\ e.mnemonic = "arpl" -> Found(x, Movsxd)
    [] OTHER -> Found(x, e)
search_1byte_insn(x) == OneByteEntry(x, OneByte[Byte(x)])

\* A prefix that chose the table is no prefix any more.
UsedPrefix(x) ==
  CASE x.pfx_insn = 102 -> [x EXCEPT !.pfx_opr = FALSE]
    [] x.pfx_insn = 242 -> [x EXCEPT !.pfx_repne = FALSE]
    [] x.pfx_insn = 243 -> [x EXCEPT !.pfx_rep = FALSE]

\* The entries of 0F01 and 0FAE for registers, which take the byte of the extension.
Extension(b, ext) ==
  IF Mod(ext) # 3 THEN <<"", 0>>
  ELSE CASE b = 1 /\ Reg(ext) \in {3, 7} -> <<IF Reg(ext) = 3 THEN "0F01_Reg3" ELSE "0F01_Reg7", Rm(ext)>>
         [] b = 174 /\ Reg(ext) \in 5..7 -> <<"0FAE_Reg", Reg(ext)>>
         [] OTHER -> <<"", 0>>

\* The entry of a group, by the byte b of the extension.
GroupEntry(x, special, b) ==
  IF <<x.mapen.group, x.pfx_insn>> \in DOMAIN PrefixedGroups
    THEN UsedPrefix(Found(x, PrefixedGroups[<<x.mapen.group, x.pfx_insn>>][Reg(b)]))
  ELSE IF special[1] # "" THEN inp_next(Found(x, Groups[special[1]][special[2]]))
  ELSE Found(x, Groups[x.mapen.group][Reg(b)])
TwoByteEntry(x) ==
  IF x.mapen.mnemonic # "grp" THEN x
  ELSE IF inp_next(x).error THEN inp_peek(x)
  ELSE GroupEntry(inp_peek(x), Extension(Byte(x), Peeked(x)), Peeked(x))

\* search_2byte_insn: a prefix chooses the table, and the group's table if there is
\* one for it.
search_2byte_insn(x) ==
  LET table == IF x.pfx_insn # 0 /\ Byte(x) \in DOMAIN TwoByte[x.pfx_insn] THEN x.pfx_insn ELSE 0
  IN TwoByteEntry(Found(IF table = 0 THEN x ELSE UsedPrefix(x), TwoByte[table][Byte(x)]))

SearchSecond(x) == IF x.error THEN x ELSE search_2byte_insn(x)
SearchFirst(x) ==
  IF x.error THEN x
  ELSE IF Byte(x) # 15 THEN search_1byte_insn(x) ELSE SearchSecond(inp_next(x))
Named(x) == IF x.error THEN x ELSE [x EXCEPT !.mnemonic = x.mapen.mnemonic]
ud_search_map(x) == Named(SearchFirst(inp_next(x)))

\* do_mode: the sizes of operands and addresses.  Of a REX prefix only the bits that
\* the instruction knows stay.
do_mode(x) ==
  LET f == x.mapen.flags
      other(yes, size) == IF yes THEN 48 - size ELSE size
      bit(n, name) == IF (x.rex \div n) % 2 = 1 /\ name \in f THEN n ELSE 0
      rex == 64 + bit(8, "W") + bit(4, "R") + bit(2, "X") + bit(1, "B")
  IN IF x.dis_mode # 64
     THEN [x EXCEPT !.opr_mode = other(x.pfx_opr, x.dis_mode), !.adr_mode = other(x.pfx_adr, x.dis_mode)]
     ELSE IF "inv64" \in f THEN [x EXCEPT !.error = TRUE]
     ELSE [x EXCEPT !.rex = IF x.rex = 0 THEN 0 ELSE rex, !.default64 = "def64" \in f,
                    !.opr_mode = IF x.rex # 0 /\ rex >= 72 THEN 64 ELSE IF x.pfx_opr THEN 16
                                 ELSE IF "def64" \in f THEN 64 ELSE 32,
                    !.adr_mode = IF x.pfx_adr THEN 32 ELSE 64]

----------------------------------------------------------------------------
(* Operands (decode.c).  An operand is the number k of u->operand[].        *)

resolve_oprsize(x, s) ==
  CASE s = SZ_V -> x.opr_mode
    [] s = SZ_Z -> IF x.opr_mode = 16 THEN 16 ELSE 32
    [] s = SZ_P -> IF x.opr_mode = 16 THEN SZ_WP ELSE SZ_DP
    [] s = SZ_MDQ -> IF x.opr_mode = 16 THEN 32 ELSE x.opr_mode
    [] s = SZ_RDQ -> IF x.dis_mode = 64 THEN 64 ELSE 32
    [] OTHER -> s

RexB(x) == (x.rex % 2) * 8
RexX(x) == ((x.rex \div 2) % 2) * 8
RexR(x) == ((x.rex \div 4) % 2) * 8

\* A register is <<class, number>>; with a REX prefix the byte registers from 4 on
\* are SPL to DIL and not AH to BH.
Gpr(bits, n) == <<CASE bits = 64 -> "r64" [] bits = 32 -> "r32" [] bits = 16 -> "r16" [] bits = 8 -> "r8", n>>
decode_gpr(x, s, n) ==
  CASE s = 64 -> Gpr(64, n)
    [] s \in {SZ_DP, 32} -> Gpr(32, n)
    [] s \in {SZ_WP, 16} -> Gpr(16, n)
    [] s = 8 -> IF x.dis_mode = 64 /\ x.rex # 0 /\ n >= 4 THEN <<"spl", n - 4>> ELSE Gpr(8, n)
    [] OTHER -> NoReg
resolve_reg(type, n) ==
  CASE type = "mmx" -> <<"mm", n % 8>>
    [] type = "xmm" -> <<"xmm", n>>
    [] type = "crg" -> <<"cr", n>>
    [] type = "dbg" -> <<"dr", n>>
    [] type = "seg" -> <<"seg", n % 8>>
    [] OTHER -> NoReg
resolve_gpr64(x, kind, n) ==
  LET m == IF kind = "rr" THEN n + RexB(x) ELSE n
      wide == x.dis_mode # 32 /\ ~(x.opr_mode = 32 /\ ~(x.rex >= 72 \/ x.default64))
  IN Gpr(IF x.opr_mode = 16 THEN 16 ELSE IF wide THEN 64 ELSE 32, m)
resolve_gpr32(x, n) == Gpr(IF x.opr_mode = 16 THEN 16 ELSE 32, n)

SetReg(x, k, reg, size) == [x EXCEPT !.operand[k].type = "reg", !.operand[k].base = reg, !.operand[k].size = size]

decode_imm(x, k, s) ==
  LET size == resolve_oprsize(x, s)
      y == [x EXCEPT !.operand[k].type = "imm", !.operand[k].size = size]
  IN inp_uint(y, IF size \in {8, 16, 32, 64} THEN size \div 8 ELSE 0, k)
decode_a(x) ==
  LET far == x.opr_mode # 16
  IN inp_uint([x EXCEPT !.operand[1].type = "ptr", !.operand[1].size = IF far THEN 48 ELSE 32], IF far THEN 6 ELSE 4, 1)
decode_o(x, k, s) ==
  inp_uint([x EXCEPT !.operand[k].type = "mem", !.operand[k].size = resolve_oprsize(x, s), !.operand[k].offset = x.adr_mode],
           x.adr_mode \div 8, k)

\* decode_modrm: the base, index, scale and offset of a memory operand.
NoBase(bits, mod, rm) ==
  mod = 0 /\ CASE bits = 64 -> rm % 8 = 5 [] bits = 32 -> rm = 5 [] bits = 16 -> rm = 6
Offset(bits, mod, rm) ==
  IF mod = 1 THEN 8 ELSE IF mod = 2 \/ NoBase(bits, mod, rm) THEN (IF bits = 16 THEN 16 ELSE 32) ELSE 0
Base16 == <<<<3, 6>>, <<3, 7>>, <<5, 6>>, <<5, 7>>, <<6, 0>>, <<7, 0>>, <<5, 0>>, <<3, 0>>>>

Address(x, k, mod, rm) ==
  LET bits == x.adr_mode
      base == CASE NoBase(bits, mod, rm) -> IF bits = 64 THEN <<"rip", 0>> ELSE NoReg
                [] ~NoBase(bits, mod, rm) /\ bits = 16 -> Gpr(16, Base16[rm + 1][1])
                [] OTHER -> Gpr(bits, rm)
      index == IF bits = 16 /\ rm < 4 THEN Gpr(16, Base16[rm + 1][2]) ELSE NoReg
  IN [x EXCEPT !.operand[k].base = base, !.operand[k].index = index, !.operand[k].offset = Offset(bits, mod, rm)]

WithSib_nodisp(x, k, mod, b, index, base) ==
  [x EXCEPT !.operand[k].index = IF index[2] = 4 THEN NoReg ELSE index,
            !.operand[k].scale = IF index[2] = 4 \/ Mod(b) = 0 THEN 0 ELSE 2^Mod(b),
            !.operand[k].base = IF base[2] \in {5, 13} /\ mod = 0 THEN NoReg ELSE base]
\* Scale-Index-Base, whose byte b has just been read.
WithSib(x, k, mod, b, index, base) ==
  LET special == base[2] = 5 \/ (x.adr_mode = 64 /\ base[2] = 13)
  IN [x EXCEPT !.operand[k].index = IF index[2] = 4 THEN NoReg ELSE index,
               !.operand[k].scale = IF index[2] = 4 \/ Mod(b) = 0 THEN 0 ELSE 2^Mod(b),
               !.operand[k].base = IF special /\ mod = 0 THEN NoReg ELSE base,
               !.operand[k].offset = IF ~special THEN @ ELSE IF mod = 1 THEN 8 ELSE 32]
Sib(x, k, mod) ==
  WithSib(x, k, mod, Byte(x), Gpr(x.adr_mode, Reg(Byte(x)) + RexX(x)), Gpr(x.adr_mode, Rm(Byte(x)) + RexB(x)))

\* The r/m part of the byte b just read: a register, or memory with what follows.
Displaced(x, k) == inp_uint(x, x.operand[k].offset \div 8, k)
DecodeRm(x, k, size, rmtype, mod, rm) ==
  IF mod = 3
  THEN [x EXCEPT !.operand[k].size = size, !.operand[k].type = "reg",
                 !.operand[k].base = IF rmtype = "gpr" THEN decode_gpr(x, size, rm) ELSE resolve_reg(rmtype, rm)]
  ELSE LET y == Address([x EXCEPT !.operand[k].size = size, !.operand[k].type = "mem"], k, mod, rm)
       IN Displaced(IF x.adr_mode # 16 /\ rm % 8 = 4 THEN Sib(inp_next(y), k, mod) ELSE y, k)
DecodeReg(x, k, size, type, n) ==
  SetReg(x, k, IF type = "gpr" THEN decode_gpr(x, size, n) ELSE resolve_reg(type, n), size)

WithModrm(x, b, k, s, rmtype, kreg, sreg, regtype) ==
  LET read == DecodeRm(x, k, resolve_oprsize(x, s), rmtype, Mod(b), Rm(b) + RexB(x))
  IN IF kreg = 0 THEN read ELSE DecodeReg(read, kreg, resolve_oprsize(x, sreg), regtype, Reg(b) + RexR(x))
decode_modrm(x, k, s, rmtype, kreg, sreg, regtype) ==
  WithModrm(inp_next(x), Byte(inp_next(x)), k, s, rmtype, kreg, sreg, regtype)

\* The operands that a ModRM byte holds, by the kinds of the first and the second:
\* what its r/m part and what its reg part is.
RmType(kind) == CASE kind \in {"E", "M", "R"} -> "gpr" [] kind \in {"PR", "Q"} -> "mmx" [] kind \in {"VR", "W"} -> "xmm" [] OTHER -> "gpr"
RegType(kind) == CASE kind = "G" -> "gpr" [] kind = "P" -> "mmx" [] kind = "V" -> "xmm" [] kind = "S" -> "seg" [] kind = "C" -> "crg"
                   [] kind = "D" -> "dbg" [] OTHER -> "none"
RegFirst == {"G"} \X {"M", "E", "PR", "VR", "W"} \cup {"P"} \X {"Q", "W", "VR", "E"} \cup {"V"} \X {"W", "Q", "M", "E", "PR"}
RmFirst == {"E", "M"} \X {"G", "P", "V", "S"} \cup {"R"} \X {"C", "D"}
WithImm == {"E", "M"} \X {"G"} \cup {"G"} \X {"E", "PR"} \cup {"P"} \X {"Q", "E"} \cup {<<"V", "W">>}

\* A kind that is memory only, or register only, is checked before the byte is taken.
CheckMod(x, a, b) ==
  LET memory == a = "M" \/ (a \in {"G", "V"} /\ b = "M")
      register == a \in {"PR", "VR"} \/ (a \in {"G", "P"} /\ b = "VR")
      isReg == Mod(Peeked(x)) = 3
  IN IF memory \/ register THEN [inp_peek(x) EXCEPT !.error = @ \/ (memory = isReg)]
     ELSE IF <<a, b>> # <<"V", "W">> THEN x
     ELSE [inp_peek(x) EXCEPT !.mnemonic =
             IF ~isReg THEN @ ELSE IF @ = "movlps" THEN "movhlps" ELSE IF @ = "movhps" THEN "movlhps" ELSE @]

\* Operands that are no part of a ModRM byte: k is one of kind, n and size.
Plain(x, k, kind, n, s) ==
  CASE kind = "I" -> decode_imm(x, k, s)
    [] kind = "O" -> decode_o(x, k, s)
    [] kind = "b8" -> SetReg(x, k, Gpr(8, n), 8)
    [] kind = "w" -> SetReg(x, k, Gpr(16, n), 16)
    [] kind \in {"r", "rr"} -> SetReg(x, k, resolve_gpr64(x, kind, n), 0)
    [] kind = "b8r" -> SetReg(x, k, IF x.rex # 0 /\ n + RexB(x) >= 4 THEN <<"spl", n + RexB(x) - 4>> ELSE Gpr(8, n + RexB(x)), 0)
    [] kind = "e" -> SetReg(x, k, resolve_gpr32(x, n), 0)
    [] kind = "st" -> SetReg(x, k, <<"st", n>>, 0)
    [] kind \in {"I1", "I3"} -> [x EXCEPT !.operand[k].type = "const", !.operand[k].lval = <<IF kind = "I1" THEN 1 ELSE 3>>]
    [] OTHER -> x

\* The second operands that go with a first one that is not in a ModRM byte.
Seconds ==
  {<<"b8", "I">>, <<"b8", "w">>, <<"b8", "O">>, <<"r", "I">>, <<"r", "r">>, <<"r", "O">>, <<"rr", "I">>, <<"rr", "r">>,
   <<"rr", "O">>, <<"b8r", "I">>, <<"e", "w">>, <<"e", "I">>, <<"w", "e">>, <<"w", "b8">>, <<"I", "I">>, <<"I", "b8">>,
   <<"I", "e">>, <<"O", "b8">>, <<"O", "e">>, <<"O", "r">>, <<"st", "st">>}

Imm(x, k) == IF x.mapen.ops[k][1] = "I" THEN decode_imm(x, k, x.mapen.ops[k][3]) ELSE x
Cl(x, k) == IF x.mapen.ops[k][1] = "b8" /\ x.mapen.ops[k][2] = 1 THEN SetReg(x, k, Gpr(8, 1), 8) ELSE x
One(x) == IF x.mapen.ops[2][1] = "I1" THEN Plain(x, 2, "I1", 0, 0) ELSE x
Third(x, a, b) == IF <<a, b>> \notin WithImm THEN x ELSE Imm(IF a \in {"E", "M"} THEN Cl(x, 3) ELSE x, 3)

\* Operands in a ModRM byte, the r/m part being operand rm, the reg part (if any) the
\* other one.
ModrmOperands(x, o, a, b) ==
  IF <<a, b>> \in RegFirst \/ a \in {"C", "D", "S"}
  THEN decode_modrm(x, 2, o[2][3], RmType(b), 1, o[1][3], RegType(a))
  ELSE decode_modrm(x, 1, o[1][3], RmType(a), IF <<a, b>> \in RmFirst \/ a \in {"Q", "W"} THEN 2 ELSE 0, o[2][3],
                    IF a \in {"Q", "W"} THEN RmType(a) ELSE RegType(b))
\* Both operands outside a ModRM byte: some sizes depend on the other operand.
Second(x, o, a, b) ==
  LET z == Plain(x, 2, b, o[2][2], o[2][3])
  IN CASE a \in {"r", "rr"} /\ b = "O" -> [z EXCEPT !.operand[1].size = resolve_oprsize(x, o[2][3])]
       [] a = "O" -> [z EXCEPT !.operand[2].size = resolve_oprsize(x, o[1][3])]
       [] <<a, b>> = <<"I", "b8">> -> [z EXCEPT !.operand[2].size = 16]
       [] OTHER -> z
PlainOperands(x, o, a, b) == IF <<a, b>> \in Seconds THEN Second(x, o, a, b) ELSE x

Operands(x, o, a, b) ==
  CASE <<a, b>> \in RegFirst \cup RmFirst -> Third(ModrmOperands(CheckMod(x, a, b), o, a, b), a, b)
    [] a \in {"C", "D", "S", "Q", "W"} -> ModrmOperands(CheckMod(x, a, b), o, a, b)
    [] a \in {"E", "M"} /\ <<a, b>> \notin RmFirst -> Imm(One(Cl(ModrmOperands(CheckMod(x, a, b), o, a, b), 2)), 2)
    [] a \in {"PR", "VR"} -> Imm(ModrmOperands(CheckMod(x, a, b), o, a, b), 2)
    [] a = "A" -> decode_a(x)
    [] a = "J" -> [decode_imm(x, 1, o[1][3]) EXCEPT !.operand[1].type = "jimm"]
    [] a = "sreg" -> SetReg([x EXCEPT !.error = x.dis_mode = 64 /\ o[1][2] < 4], 1, <<"seg", o[1][2]>>, 16)
    [] OTHER -> PlainOperands(Plain(x, 1, a, o[1][2], o[1][3]), o, a, b)
disasm_operands(x) == Operands(x, x.mapen.ops, x.mapen.ops[1][1], x.mapen.ops[2][1])

\* resolve_mnemonic: the name for the size, near and far calls, 3DNow, swapgs.  The
\* names of 32 bits and of 64.
ByOperandSize ==
  "cbw" :> <<"cwde", "cdqe">> @@ "cwd" :> <<"cdq", "cqo">> @@ "lodsw" :> <<"lodsd", "lodsq">> @@ "movsw" :> <<"movsd", "movsq">>
  @@ "cmpsw" :> <<"cmpsd", "cmpsq">> @@ "insw" :> <<"insd", "insd">> @@ "outsw" :> <<"outsd", "outsd">>
  @@ "pushfw" :> <<"pushfd", "pushfq">> @@ "popfw" :> <<"popfd", "popfq">> @@ "stosw" :> <<"stosd", "stosq">>
  @@ "scasw" :> <<"scasd", "scasq">> @@ "iretw" :> <<"iretd", "iretq">> @@ "pusha" :> <<"pushad", "pusha">>
  @@ "popa" :> <<"popad", "popa">> @@ "cmpxchg8b" :> <<"cmpxchg8b", "cmpxchg16b">>
resolve_mnemonic_by_mode(x) ==
  LET m == x.mnemonic
  IN IF m \in DOMAIN ByOperandSize /\ x.opr_mode # 16 THEN ByOperandSize[m][x.opr_mode \div 32]
     ELSE IF m = "jcxz" /\ x.adr_mode # 16 THEN <<"jecxz", "jrcxz">>[x.adr_mode \div 32]
     ELSE m
Renamed(x) ==
  LET s == x.operand[1].size
      size == CASE s = SZ_WP -> 16 [] s = SZ_DP -> 32 [] OTHER -> s
  IN CASE x.mnemonic \in {"call", "jmp"} ->
            [x EXCEPT !.operand[1].size = size, !.br = IF size # s THEN "far" ELSE "near"]
       [] x.mnemonic = "3dnow" -> [x EXCEPT !.br = "none", !.mnemonic = IF Byte(x) \in Suffix3dnow THEN "3dnow" ELSE "none"]
       [] x.mnemonic = "swapgs" -> [x EXCEPT !.br = "none", !.error = @ \/ x.dis_mode # 64]
       [] OTHER -> [x EXCEPT !.br = "none"]
resolve_mnemonic(x) ==
  Renamed(IF "depM" \in x.mapen.flags THEN [x EXCEPT !.mnemonic = resolve_mnemonic_by_mode(x)] ELSE x)

----------------------------------------------------------------------------
(* ud_decode, the translator and the debugger's loop.                       *)

\* gen_operand: what is printed of an operand.  The target of a jump is printed as
\* the pc, which is the one after the instruction by now, plus the displacement.
gen_operand(x, op) ==
  CASE op.type = "reg" -> <<op.base>>
    [] op.type = "mem" -> <<<<"seg", x.pfx_seg>>, op.base, op.index, <<"scale", op.scale>>, <<"offset", op.lval>>>>
    [] op.type = "jimm" -> <<<<"pc", x.pc>>, <<"offset", op.lval>>>>
    [] OTHER -> <<<<"value", op.lval>>>>

\* ud_translate_intel: the prefixes that the instruction does not use itself, the
\* mnemonic and the operands.
ud_translate_intel(x) ==
  LET used == {k \in 1..3 : x.operand[k].type # "none"}
      pfx == {p \in {"opr", "adr", "lock", "rep", "repne"} :
                CASE p = "opr" -> x.pfx_opr /\ "o32" \notin x.mapen.flags
                  [] p = "adr" -> x.pfx_adr /\ "a32" \notin x.mapen.flags
                  [] p = "lock" -> x.pfx_lock [] p = "rep" -> x.pfx_rep [] p = "repne" -> x.pfx_repne}
  IN [x EXCEPT !.text = [prefixes |-> pfx, mnemonic |-> x.mnemonic, operands |-> [k \in used |-> gen_operand(x, x.operand[k])]]]

\* ud_decode: after an error the later steps do nothing, and the instruction is
\* invalid.  (The name is resolved even if the operands could not be read.)
OpcodeOf(x) == IF x.error THEN x ELSE ud_search_map(x)
ModeOf(x) == IF x.error THEN x ELSE do_mode(x)
OperandsOf(x) == IF x.error THEN x ELSE resolve_mnemonic(disasm_operands(x))
OrInvalid(x) == IF x.error THEN [clear_insn(x) EXCEPT !.mnemonic = "invalid"] ELSE x
Placed(x) == [x EXCEPT !.insn_offset = x.pc, !.pc = @ + Len(x.inp_sess)]
ud_decode(x) ==
  Placed(OrInvalid(OperandsOf(ModeOf(OpcodeOf(do_prefixes(clear_insn([x EXCEPT !.inp_sess = <<>>]), 0))))))

ud_init(mode) ==
  clear_insn([inp_cache |-> [i \in 0..(CacheSize - 1) |-> 0], inp_curr |-> 0, inp_fill |-> 0, inp_sess |-> <<>>, inp_end |-> FALSE,
              taken |-> 0, error |-> FALSE, dis_mode |-> mode, opr_mode |-> 0, adr_mode |-> 0, default64 |-> FALSE, br |-> "none",
              pc |-> 0, insn_offset |-> 0, text |-> [prefixes |-> {}, mnemonic |-> "invalid", operands |-> <<>>],
              pfx_seg |-> "none", pfx_opr |-> FALSE, pfx_adr |-> FALSE, pfx_lock |-> FALSE, pfx_repne |-> FALSE, pfx_rep |-> FALSE,
              rex |-> 0, pfx_insn |-> 0, mnemonic |-> "none", mapen |-> Invalid, operand |-> <<>>])

UdInit ==
  /\ code \in Streams
  /\ \E mode \in Modes : u = ud_init(mode)
  /\ printed = 0

Translated(x) == IF x.inp_sess = <<>> THEN x ELSE ud_translate_intel(x)

\* unassemble's loop: ud_disassemble, whose result 0 ends it, and the line printed.
unassemble ==
  /\ printed < MaxInsns
  /\ ~(u.inp_curr = u.inp_fill /\ u.inp_end)
  /\ u' = Translated(ud_decode(u))
  /\ printed' = IF u'.inp_sess = <<>> THEN MaxInsns ELSE printed + 1
  /\ UNCHANGED code

UdNext == unassemble
UdSpec == UdInit /\ [][UdNext]_uvars

----------------------------------------------------------------------------
(* Properties.                                                              *)

\* Whatever the decoder looked ahead at, or gave back, and wherever its cache wrapped
\* around: the instruction printed is the bytes from its offset up to the pc, the
\* bytes taken from the hook and not decoded yet are the ones still in the cache,
\* and a jump is printed relative to the instruction after it.
DecoderKeepsPlace ==
  /\ u.inp_sess = SubSeq(code, u.insn_offset + 1, u.pc)
  /\ u.taken - u.pc \in 0..1
  /\ (u.inp_fill - u.inp_curr) % CacheSize = u.taken - u.pc
  /\ u.taken > u.pc => u.inp_cache[u.inp_fill] = code[u.taken]
  /\ \A k \in DOMAIN u.text.operands :
       (printed > 0 /\ u.operand[k].type = "jimm") => u.text.operands[k][1] = <<"pc", u.insn_offset + Len(u.inp_sess)>>

\* The processor's manual on an instruction's length, from its bytes b alone: which
\* opcodes, of one byte or of two, have a ModRM byte, and how long an immediate is.
HasModRM(two, o) ==
  IF two THEN o \notin \h05..\h0B \cup {\h0E, \h77, \hA0, \hA1, \hA2, \hA8, \hA9, \hAA} \cup \h30..\h37 \cup \h80..\h8F \cup \hC8..\hCF
  ELSE \/ o < \h40 /\ o % 8 < 4
       \/ o \in {\h62, \h63, \h69, \h6B, \hC0, \hC1, \hF6, \hF7, \hFE, \hFF} \cup \h80..\h8F \cup \hC4..\hC7 \cup \hD0..\hD3 \cup \hD8..\hDF
ImmLength(two, o, m, opr, adr) ==
  CASE two -> IF o \in \h80..\h8F THEN opr ELSE IF o \in \h70..\h73 \cup {\h0F, \hA4, \hAC, \hBA, \hC2, \hC4, \hC5, \hC6} THEN 1 ELSE 0
    [] ~two /\ o < \h40 -> IF o % 8 = 4 THEN 1 ELSE IF o % 8 = 5 THEN opr ELSE 0
    [] ~two /\ o \in {\h6A, \h6B, \h80, \h82, \h83, \hA8, \hC0, \hC1, \hC6, \hCD, \hD4, \hD5, \hEB} \cup \h70..\h7F \cup \hB0..\hB7 \cup \hE0..\hE7 -> 1
    [] ~two /\ o \in {\h68, \h69, \h81, \hA9, \hC7, \hE8, \hE9} \cup \hB8..\hBF -> opr
    [] ~two /\ o \in {\h9A, \hEA} -> opr + 2
    [] ~two /\ o \in \hA0..\hA3 -> adr
    [] ~two /\ o \in {\hC2, \hCA} -> 2
    [] ~two /\ o = \hC8 -> 3
    [] ~two /\ o \in {\hF6, \hF7} /\ Reg(m) < 2 -> IF o = \hF6 THEN 1 ELSE opr
    [] OTHER -> 0
RefLength(b, mode) ==
  LET pfx == Cardinality({i \in 1..Len(b) : \A j \in 1..i : PrefixByte(u, b[j])})
      has(p) == \E i \in 1..pfx : b[i] = p
      opr == (IF has(\h66) THEN 48 - mode ELSE mode) \div 8
      adr == (IF has(\h67) THEN 48 - mode ELSE mode) \div 8
      two == b[pfx + 1] = \h0F
      op == IF two THEN pfx + 2 ELSE pfx + 1      \* the last byte of the opcode
      modrm == HasModRM(two, b[op])
      m == IF modrm /\ op < Len(b) THEN b[op + 1] ELSE 0
      sib == adr = 4 /\ Mod(m) # 3 /\ Rm(m) = 4
      disp == CASE Mod(m) = 1 -> 1
                [] Mod(m) = 2 -> adr
                [] Mod(m) = 0 -> IF adr = 2 THEN (IF Rm(m) = 6 THEN 2 ELSE 0)
                                 ELSE IF Rm(m) = 5 \/ (sib /\ Rm(b[op + 2]) = 5) THEN 4 ELSE 0
                [] OTHER -> 0
  IN op + (IF modrm THEN 1 + (IF sib THEN 1 ELSE 0) + disp ELSE 0) + ImmLength(two, b[op], m, opr, adr)

\* What the decoder takes for longer or shorter than it is: the suffix of a 3DNow
\* instruction is not read, and the moves to and from control registers, whose byte
\* never names memory, are read as if it did; the immediate of pinsrw and pextrw
\* with an xmm register is in the table but not read.
ReadWrong ==
  LET kinds == [k \in 1..3 |-> u.mapen.ops[k][1]]
  IN kinds[1] \in {"R", "C", "D"} \/ (kinds[2] = "Q" /\ u.mapen.flags = {}) \/ kinds \in {<<"V", "E", "I">>, <<"G", "VR", "I">>}

\* An instruction that is printed ends where the processor would end it, so the next
\* one printed is one the processor would run, for the prefixes, the forms of ModRM
\* and SIB and the immediates in every combination; except the instructions that
\* ReadWrong names, which ud_disassemble reads with a wrong length.
LengthIsX86 ==
  printed > 0 /\ u.mnemonic \notin {"invalid", "none"} /\ ~ReadWrong => Len(u.inp_sess) = RefLength(u.inp_sess, u.dis_mode)
===============================================================================
