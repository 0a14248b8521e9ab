---------------------------- MODULE EncoderSpec ----------------------------
(***************************************************************************)
(* What a request to encode_cmd asks for, as the instruction the processor *)
(* should read, and the requests it does not encode as asked.              *)
(***************************************************************************)
EXTENDS Encoder, X86Decode

TheReg(r) == Reg(IF IsHigh(r) THEN r - 2 ELSE r)
TheRm(r, memory) == IF memory THEN Mem(TheReg(r).reg) ELSE TheReg(r)

Names == [MOV |-> "mov", ADD |-> "add", SUB |-> "sub", MUL |-> "mul", DIV |-> "div"]

HasDest(info) == info.dest_reg # INVALID_REG
HasSrc(info)  == info.src_reg # INVALID_REG

Intended(info) ==
  CASE info.cmd_encode \in {MOV, ADD, SUB} ->
         << Names[info.cmd_encode], TheRm(info.dest_reg, info.use_memory4dest),
            IF HasSrc(info) THEN TheRm(info.src_reg, info.use_memory4src) ELSE Imm(info.immed_val) >>
    [] info.cmd_encode \in {MUL, DIV} ->
         << Names[info.cmd_encode],
            TheRm(info.dest_reg, info.use_memory4dest \/ info.use_memory4src), NoOperand >>
    [] info.cmd_encode = PUSH ->
         << "push", NoOperand,
            IF HasSrc(info) THEN TheRm(info.src_reg, info.use_memory4src) ELSE Imm(info.immed_val) >>
    [] info.cmd_encode = POP ->
         << "pop", TheRm(info.dest_reg, info.use_memory4dest), NoOperand >>
    [] info.cmd_encode = CALL -> << "call", NoOperand, Imm(info.immed_val) >>
    [] info.cmd_encode = RET  -> << "ret", NoOperand, NoOperand >>

(* Requests that name an instruction at all.                               *)
Meaningful(info) ==
  CASE info.cmd_encode \in {MOV, ADD, SUB} ->
         /\ HasDest(info)
         /\ info.use_memory4src => HasSrc(info)
         /\ ~(info.use_memory4src /\ info.use_memory4dest)
    [] info.cmd_encode \in {MUL, DIV} ->
         ~HasSrc(info) /\ ~(info.use_memory4src /\ info.use_memory4dest)
    [] info.cmd_encode = PUSH ->
         ~HasDest(info) /\ ~info.use_memory4dest /\ (info.use_memory4src => HasSrc(info))
    [] info.cmd_encode = POP -> HasDest(info) /\ ~HasSrc(info) /\ ~info.use_memory4src
    [] info.cmd_encode = CALL -> ~HasSrc(info) /\ ~info.use_memory4src
    [] OTHER -> TRUE

(* rsp, rbp, r12 and r13 as a base need a SIB byte or a displacement.      *)
NeedsMore(r) == Low(r) \in {4, 5}

(* The requests encode_cmd does not encode as asked.                       *)
OutsideEncoder(info) ==
  \/ info.cmd_encode \in TwoOperandCmds /\ IsHigh(info.dest_reg) /\ IsHigh(info.src_reg)
  \/ Exchanged(info) /\ (IsHigh(info.dest_reg) \/ IsHigh(info.src_reg))
  \/ info.use_memory4dest /\ NeedsMore(info.dest_reg)
  \/ info.use_memory4src /\ (NeedsMore(info.src_reg) \/ (~HasSrc(info) /\ NeedsMore(info.dest_reg)))
  \/ info.cmd_encode = MOV /\ ~HasSrc(info) /\ info.immed_val < 0
       /\ (~info.use_memory4dest \/ info.immed_val = -1)
  \/ info.cmd_encode = PUSH /\ ~HasSrc(info) /\ info.immed_val < 0

Encodable(info) == Meaningful(info) /\ ~OutsideEncoder(info)

(* A load of a low register is written in its 32-bit form, which zeroes    *)
(* the upper half: for a value that is not negative it is the same.        *)
SameOp(op, wanted, src) ==
  op = wanted \/ (op = "mov32" /\ wanted = "mov" /\ src.kind = "imm")
=============================================================================
