------------------------------ MODULE Encoder ------------------------------
(***************************************************************************)
(* encode_cmd and the encoders it dispatches to: the bytes the translator  *)
(* writes for one x86-64 instruction.  An operator returns what is left in *)
(* x86_cmd_t::cmd[0 .. length-1]; a command the code rejects, or leaves    *)
(* with length 0, is << >>.  The OR-ed masks of the code never share a bit *)
(* on the inputs of Infos, so they are sums here.                          *)
(***************************************************************************)
EXTENDS Isa

(* cmd_info4encode_t::cmd_encode *)
MOV  == "MOV"
ADD  == "ADD"
SUB  == "SUB"
MUL  == "MUL"
DIV  == "DIV"
PUSH == "PUSH"
POP  == "POP"
CALL == "CALL"
RET  == "RET"

TwoOperandCmds == {MOV, ADD, SUB, MUL, DIV}

(* cmd_info4encode_t.  Mul and div name one operand, push and pop at most  *)
(* one register: nothing in the translator or its test asks for more.      *)
Infos(values) ==
  { info \in
      [cmd_encode : TwoOperandCmds \cup {PUSH, POP, CALL, RET},
       dest_reg : Registers \cup {INVALID_REG}, src_reg : Registers \cup {INVALID_REG},
       immed_val : values, use_memory4dest : BOOLEAN, use_memory4src : BOOLEAN] :
    /\ info.cmd_encode \in {MUL, DIV} => info.dest_reg # INVALID_REG
    /\ info.cmd_encode \in {PUSH, POP} =>
         /\ INVALID_REG \in {info.dest_reg, info.src_reg}
         /\ info.use_memory4dest \/ info.use_memory4src => info.dest_reg # info.src_reg }

(* An info whose other fields keep the defaults of the struct.             *)
RegInfo(cmd, dest, src) ==
  [cmd_encode |-> cmd, dest_reg |-> dest, src_reg |-> src, immed_val |-> 0,
   use_memory4dest |-> FALSE, use_memory4src |-> FALSE]

ImmedInfo(cmd, dest, value) == [RegInfo(cmd, dest, INVALID_REG) EXCEPT !.immed_val = value]

-----------------------------------------------------------------------------
IsHigh(reg) == reg > RDI /\ reg # INVALID_REG

(* The three bits of a register number that go into ModR/M.                *)
Low(reg) == IF IsHigh(reg) THEN reg - R8 ELSE reg

(* mov reg, imm32 is the one two-operand command written without REX.W.    *)
Wide(info) ==
  ~ ( /\ info.cmd_encode = MOV
      /\ info.src_reg = INVALID_REG
      /\ ~info.use_memory4dest )

(* Mutant: the prefix of a high source is forgotten.                       *)
PrefixOfDest(info) ==
  IF IsHigh(info.dest_reg)
  THEN IF Wide(info) THEN << \h49 >> ELSE << \h41 >>
  ELSE IF Wide(info) THEN << \h48 >> ELSE << >>

(* A high source overwrites the prefix of a high destination.              *)
Prefix(info) ==
  CASE IsHigh(info.src_reg) -> << \h4C >>
    [] ~IsHigh(info.src_reg) /\ IsHigh(info.dest_reg) ->
         IF Wide(info) THEN << \h49 >> ELSE << \h41 >>
    [] OTHER -> IF Wide(info) THEN << \h48 >> ELSE << >>

(* dest_reg and src_reg as encode_add_sub_mul_div and encode_mov find them: *)
(* exchanged when the source is memory, except for mul and div.            *)
Exchanged(info) == info.use_memory4src /\ info.cmd_encode \notin {MUL, DIV}
RmOperand(info)  == IF Exchanged(info) THEN Low(info.src_reg) ELSE Low(info.dest_reg)
RegOperand(info) == IF Exchanged(info) THEN Low(info.dest_reg) ELSE Low(info.src_reg)

(* Mod 00 for a memory operand; two memory operands are logged and stay 11. *)
Mod(info) == IF info.use_memory4dest # info.use_memory4src THEN 0 ELSE \hC0

DirectionBit(info) ==
  IF info.use_memory4src /\ ~info.use_memory4dest THEN 2 ELSE 0

ModRm(info, extension) == << Mod(info) + extension + RmOperand(info) >>

-----------------------------------------------------------------------------
encode_add_sub_mul_div(info) ==
  LET hasReg == RegOperand(info) # INVALID_REG
      hasRm  == RmOperand(info) # INVALID_REG
      isMul  == info.cmd_encode \in {MUL, DIV}
      opcode == IF info.cmd_encode = ADD THEN \h01 ELSE \h29
      size   == get_sizeof_number2write(info.immed_val)
  IN  CASE isMul /\ hasReg -> << >>
        [] isMul /\ ~hasReg ->
             Prefix(info) \o << \hF7 >>
               \o ModRm(info, IF info.cmd_encode = MUL THEN \h20 ELSE \h30)
        [] ~isMul /\ hasRm /\ hasReg ->
             Prefix(info) \o << opcode + DirectionBit(info) >>
               \o ModRm(info, 8 * RegOperand(info))
        [] ~isMul /\ hasRm /\ ~hasReg ->
             Prefix(info) \o << IF size = 1 THEN \h83 ELSE \h81 >>
               \o ModRm(info, IF info.cmd_encode = SUB THEN \h28 ELSE 0)
               \o NumberBytes(info.immed_val)
        [] OTHER -> << >>

(* The all-ones immediate takes a path of its own that puts 0x49 in front  *)
(* of the opcode and copies the value to offset 2 whatever came before.    *)
MovMinusOne(info) ==
  IF Prefix(info) = << >>
  THEN << \h49, \hB8 + RmOperand(info), \hFF, \hFF, \hFF, \hFF >>
  ELSE Prefix(info) \o << \h49, IF info.use_memory4dest THEN \h3F ELSE \hFF,
                          \hFF, \hFF, \hFF >>

encode_mov(info) ==
  LET hasReg == RegOperand(info) # INVALID_REG
      hasRm  == RmOperand(info) # INVALID_REG
  IN  CASE hasRm /\ hasReg ->
             Prefix(info) \o << \h89 + DirectionBit(info) >>
               \o ModRm(info, 8 * RegOperand(info))
        [] hasRm /\ ~hasReg /\ info.immed_val = -1 -> MovMinusOne(info)
        [] hasRm /\ ~hasReg /\ info.immed_val # -1 ->
             IF info.use_memory4dest
             THEN Prefix(info) \o << \hC7, RmOperand(info) >> \o Le32(info.immed_val)
             ELSE Prefix(info) \o << \hB8 + RmOperand(info) >> \o Le32(info.immed_val)
        [] OTHER -> << >>

encode_two_operands_cmds(info) ==
  IF info.cmd_encode = MOV THEN encode_mov(info) ELSE encode_add_sub_mul_div(info)

-----------------------------------------------------------------------------
(* A negative immediate is replaced by 0xFF - v after the opcode is chosen. *)
encode_pop_push(info) ==
  LET reg    == IF info.dest_reg = INVALID_REG THEN info.src_reg ELSE info.dest_reg
      memory == info.use_memory4dest \/ info.use_memory4src
      isPush == info.use_memory4src \/ info.src_reg # INVALID_REG
      value  == IF info.immed_val < 0 THEN 255 - info.immed_val ELSE info.immed_val
      prefix == IF IsHigh(reg) THEN << \h41 >> ELSE << >>
  IN  CASE info.dest_reg = info.src_reg /\ ~memory ->
             << IF get_sizeof_number2write(info.immed_val) = 1 THEN \h6A ELSE \h68 >>
               \o NumberBytes(value)
        [] info.dest_reg # info.src_reg /\ memory ->
             prefix \o IF isPush THEN << \hFF, \h30 + Low(reg) >>
                                 ELSE << \h8F, Low(reg) >>
        [] info.dest_reg # info.src_reg /\ ~memory ->
             prefix \o << (IF isPush THEN \h50 ELSE \h58) + Low(reg) >>
        [] OTHER -> << >>

(* The register form stops after its opcode; the far form is unreachable.  *)
encode_call(info) ==
  CASE info.use_memory4src -> << >>
    [] ~info.use_memory4src /\ info.src_reg = INVALID_REG ->
         << \hE8 >> \o Le32(info.immed_val)
    [] OTHER -> IF IsHigh(info.src_reg) THEN << \h41, \hFF >> ELSE << \hFF >>

encode_ret == << \hC3 >>

encode_cmd(info) ==
  CASE info.cmd_encode \in TwoOperandCmds -> encode_two_operands_cmds(info)
    [] info.cmd_encode \in {PUSH, POP}    -> encode_pop_push(info)
    [] info.cmd_encode = CALL             -> encode_call(info)
    [] info.cmd_encode = RET              -> encode_ret
=============================================================================
