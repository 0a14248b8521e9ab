-------------------------------- MODULE Isa --------------------------------
(***************************************************************************)
(* The two instruction sets the translator stands between, as far as its   *)
(* code names them: the commands of the guest stack CPU, the token a guest *)
(* command is parsed into, the x86-64 register numbers the encoders use,   *)
(* and the little-endian layout of an immediate.                           *)
(***************************************************************************)
EXTENDS Integers, Sequences

Byte == 0..255

-----------------------------------------------------------------------------
(* enum my_cmds_encode *)

CMD_MY_PUSH  == 1
CMD_MY_POP   == 2
CMD_MY_ADD   == 3
CMD_MY_SUB   == 4
CMD_MY_MUL   == 5
CMD_MY_DIV   == 6
CMD_MY_OUT   == 7
CMD_MY_IN    == 8
CMD_MY_HLT   == 9
CMD_MY_DUMP  == 10
CMD_MY_JMP   == 11
CMD_MY_LABEL == 12
CMD_MY_CALL  == 13
CMD_MY_RET   == 15
CMD_MY_SQRT  == 16
CMD_MY_JB    == 17
CMD_MY_JBE   == 18
CMD_MY_JA    == 19
CMD_MY_JAE   == 20
CMD_MY_JE    == 21
CMD_MY_JNE   == 22

MathCmds == {CMD_MY_ADD, CMD_MY_SUB, CMD_MY_MUL, CMD_MY_DIV}

CondJmpCmds == {CMD_MY_JB, CMD_MY_JBE, CMD_MY_JA, CMD_MY_JAE, CMD_MY_JE, CMD_MY_JNE}

JumpCmds == CondJmpCmds \cup {CMD_MY_JMP, CMD_MY_CALL}

-----------------------------------------------------------------------------
(* enum x86_regs: r8 .. r15 are 10 .. 17, so that "above RDI" tells them   *)
(* from the registers that need no prefix.                                 *)

RAX == 0
RCX == 1
RDX == 2
RBX == 3
RDI == 7
R8  == 10
R15 == 17
INVALID_REG == 255

Registers == 0..RDI \cup R8..R15

(* token_t::mode *)
MODE_NONE              == 0
MODE_8_BYTE_IN_ADDRESS == 2
MODE_REG_ADDRESS       == 3

-----------------------------------------------------------------------------
(* token_t, without the fields nothing in the translation reads.  A token  *)
(* with an addressing mode has a register.                                 *)

Token ==
  { token \in
      [my_cmd : 0..31, reg : 0..RBX \cup {INVALID_REG}, use_r8plus_regs : BOOLEAN,
       mode : {MODE_NONE, MODE_8_BYTE_IN_ADDRESS, MODE_REG_ADDRESS},
       immed : Int, use_immed : BOOLEAN, offset : Int, delete_stack_elem : BOOLEAN] :
    token.mode # MODE_NONE => token.reg # INVALID_REG }

TokenOf(cmd, reg, high, mode) ==
  [my_cmd |-> cmd, reg |-> reg, use_r8plus_regs |-> high, mode |-> mode,
   immed |-> 0, use_immed |-> FALSE, offset |-> 0, delete_stack_elem |-> FALSE]

(* calloc in tokens_ctor: every field 0, the register too.                 *)
ZeroToken == TokenOf(0, 0, FALSE, MODE_NONE)

-----------------------------------------------------------------------------
(* memcpy of an int into the code: four bytes, two's complement.           *)

(* Mutant: the last byte keeps its sign.                                   *)
Le32Signed(v) ==
  << v % 256, (v \div 256) % 256, (v \div 65536) % 256, v \div 16777216 >>

Le32(v) ==
  << v % 256, (v \div 256) % 256, (v \div 65536) % 256, (v \div 16777216) % 256 >>

(* An int, but for the least one, of which get_sizeof_number2write cannot  *)
(* take the negative.                                                      *)
MAX_INT == 2147483647
Ints == -MAX_INT .. MAX_INT

ASCII_MAX_SYMBOL == 127

(* get_sizeof_number2write: one byte for -127..127, four otherwise.        *)
get_sizeof_number2write(v) ==
  IF -v <= ASCII_MAX_SYMBOL /\ v <= ASCII_MAX_SYMBOL THEN 1 ELSE 4

(* Mutant: always the size of an int.                                      *)
NumberBytesOfInt(v) == Le32(v)

(* The bytes a memcpy of that size leaves.                                 *)
NumberBytes(v) ==
  IF get_sizeof_number2write(v) = 1 THEN << v % 256 >> ELSE Le32(v)
=============================================================================
