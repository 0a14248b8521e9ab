----------------------------- MODULE X86Decode -----------------------------
(***************************************************************************)
(* What the processor reads: the first instruction of a byte sequence, for *)
(* the opcodes the translator emits.  It is written from the processor's   *)
(* encoding rules alone and shares no definition with Encoder, so that the *)
(* two can be compared.                                                    *)
(***************************************************************************)
EXTENDS Isa

(* Operands: a register by its architectural number 0 .. 15, the memory    *)
(* word a register points to, an immediate, or nothing.                    *)
Reg(n)  == [kind |-> "reg", reg |-> n]
Mem(n)  == [kind |-> "mem", reg |-> n]
Imm(v)  == [kind |-> "imm", value |-> v]
NoOperand == [kind |-> "none"]

Instr(op, dst, src, len) == [op |-> op, dst |-> dst, src |-> src, len |-> len]

BadInstr == Instr("bad", NoOperand, NoOperand, 1)

-----------------------------------------------------------------------------
(* Sign-extended immediates; a byte sequence too short reads as 0.         *)
At(b, k) == IF k \in DOMAIN b THEN b[k] ELSE 0

Signed8(b, k)  == IF At(b, k) < 128 THEN At(b, k) ELSE At(b, k) - 256

Signed32(b, k) == At(b, k) + 256 * At(b, k + 1) + 65536 * At(b, k + 2)
                    + 16777216 * Signed8(b, k + 3)

(* A REX prefix: bit 0 extends ModR/M.rm and the register of a one-byte    *)
(* opcode, bit 2 extends ModR/M.reg, bit 3 makes the operation 64-bit.     *)
HasRex(b) == At(b, 1) \in \h40..\h4F
RexB(b)   == IF HasRex(b) THEN 8 * (b[1] % 2) ELSE 0
RexR(b)   == IF HasRex(b) THEN 8 * ((b[1] \div 4) % 2) ELSE 0
RexW(b)   == HasRex(b) /\ (b[1] \div 8) % 2 = 1

ModField(m) == m \div 64
RegField(m) == (m \div 8) % 8
RmField(m)  == m % 8

(* Modes 01 and 10, SIB bytes and rip-relative operands are never emitted  *)
(* on purpose: they read as an operand nothing intends.                    *)
OtherAddress == [kind |-> "other"]

RmOf(b, m) ==
  CASE ModField(m) = 3 -> Reg(RmField(m) + RexB(b))
    [] ModField(m) = 0 /\ RmField(m) \notin {4, 5} -> Mem(RmField(m) + RexB(b))
    [] OTHER -> OtherAddress

-----------------------------------------------------------------------------
(* o is the position of the opcode, after the prefix if there is one.      *)

AluNames == [n \in 0..7 |-> CASE n = 0 -> "add" [] n = 5 -> "sub" [] OTHER -> "bad"]

GroupName(opcode, n) ==
  CASE opcode = \hF7 /\ n = 4 -> "mul"
    [] opcode = \hF7 /\ n = 6 -> "div"
    [] opcode = \hFF /\ n = 6 -> "push"
    [] opcode = \h8F /\ n = 0 -> "pop"
    [] opcode = \hC7 /\ n = 0 -> "mov"
    [] OTHER -> "bad"

ConditionNames ==
  [n \in 0..15 |->
     CASE n = 2 -> "jb" [] n = 3 -> "jae" [] n = 4 -> "je" [] n = 5 -> "jne"
       [] n = 6 -> "jbe" [] n = 7 -> "ja" [] OTHER -> "bad"]

(* An operation on the lower halves, where no REX.W asks for the whole.     *)
Narrow(name) ==
  CASE name = "add" -> "add32" [] name = "sub" -> "sub32" [] name = "cmp" -> "cmp32"
    [] name = "mov" -> "mov32" [] name = "mul" -> "mul32" [] name = "div" -> "div32"
    [] OTHER -> "bad"

DecodeAt(b, o) ==
  LET op  == At(b, o)
      m   == At(b, o + 1)
      rm  == RmOf(b, m)
      reg == Reg(RegField(m) + RexR(b))
      low == Reg((op % 8) + RexB(b))
      wide(name) == IF RexW(b) THEN name ELSE Narrow(name)
  IN  CASE op = \h01 -> Instr(wide("add"), rm, reg, o + 1)
        [] op = \h03 -> Instr(wide("add"), reg, rm, o + 1)
        [] op = \h29 -> Instr(wide("sub"), rm, reg, o + 1)
        [] op = \h2B -> Instr(wide("sub"), reg, rm, o + 1)
        [] op = \h39 -> Instr(wide("cmp"), rm, reg, o + 1)
        [] op = \h89 -> Instr(wide("mov"), rm, reg, o + 1)
        [] op = \h8B -> Instr(wide("mov"), reg, rm, o + 1)
        [] op = \h83 -> Instr(wide(AluNames[RegField(m)]), rm, Imm(Signed8(b, o + 2)), o + 2)
        [] op = \h81 -> Instr(wide(AluNames[RegField(m)]), rm, Imm(Signed32(b, o + 2)), o + 5)
        [] op = \hC7 -> Instr(wide(GroupName(op, RegField(m))), rm, Imm(Signed32(b, o + 2)), o + 5)
        [] op = \hF7 -> Instr(wide(GroupName(op, RegField(m))), rm, NoOperand, o + 1)
        [] op = \hFF -> Instr(GroupName(op, RegField(m)), NoOperand, rm, o + 1)
        [] op = \h8F -> Instr(GroupName(op, RegField(m)), rm, NoOperand, o + 1)
        [] op \in \hB8..\hBF /\ ~RexW(b) -> Instr("mov32", low, Imm(Signed32(b, o + 1)), o + 4)
        [] op \in \hB8..\hBF /\ RexW(b)  -> Instr("movabs", low, OtherAddress, o + 8)
        [] op \in \h50..\h57 -> Instr("push", NoOperand, low, o)
        [] op \in \h58..\h5F -> Instr("pop", low, NoOperand, o)
        [] op = \h6A -> Instr("push", NoOperand, Imm(Signed8(b, o + 1)), o + 1)
        [] op = \h68 -> Instr("push", NoOperand, Imm(Signed32(b, o + 1)), o + 4)
        [] op = \hE8 -> Instr("call", NoOperand, Imm(Signed32(b, o + 1)), o + 4)
        [] op = \hE9 -> Instr("jmp", NoOperand, Imm(Signed32(b, o + 1)), o + 4)
        [] op = \h0F /\ m \in \h80..\h8F ->
             Instr(ConditionNames[m % 16], NoOperand, Imm(Signed32(b, o + 2)), o + 5)
        [] op = \hC3 -> Instr("ret", NoOperand, NoOperand, o)
        [] op = \h90 -> Instr("nop", NoOperand, NoOperand, o)
        [] OTHER -> BadInstr

(* The three floating-point instructions the square root is made of.       *)
SqrtParts ==
  { << << \hF2, \h48, \h0F, \h2A, \hC0 >>, "cvtsi2sd" >>,
    << << \hF2, \h0F, \h51, \hC0 >>, "sqrtsd" >>,
    << << \hF2, \h48, \h0F, \h2C, \hC0 >>, "cvttsd2si" >> }

StartsWith(b, p) == Len(p) <= Len(b) /\ \A k \in DOMAIN p : b[k] = p[k]

Decode(b) ==
  IF \E p \in SqrtParts : StartsWith(b, p[1])
  THEN LET part == CHOOSE p \in SqrtParts : StartsWith(b, p[1])
       IN  Instr(part[2], NoOperand, NoOperand, Len(part[1]))
  ELSE DecodeAt(b, IF HasRex(b) THEN 2 ELSE 1)
=============================================================================
