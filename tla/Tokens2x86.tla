----------------------------- MODULE Tokens2x86 -----------------------------
(***************************************************************************)
(* How guest tokens become x86-64 bytes: the folds of several tokens that  *)
(* convert_tokens2nonstack_logic tries first, and the bytes of one token   *)
(* that x86_cmd_ctor writes when no fold applies.  The folds look at the   *)
(* token at hand and at the four that follow it: look[0] .. look[4].       *)
(***************************************************************************)
EXTENDS Encoder

CONSTANTS
  PrintDecimal,   \* address of print_decimal, called by out
  ScanDecimal     \* address of scan_decimal, called by in

(* write_cmds_in_jit_code pastes commands up to the first of length 0.     *)
Then(cmd, rest) == IF cmd = << >> THEN << >> ELSE cmd \o rest

PushReg(reg) == encode_cmd(RegInfo(PUSH, INVALID_REG, reg))
PopReg(reg)  == encode_cmd(RegInfo(POP, reg, INVALID_REG))

-----------------------------------------------------------------------------
(* push rbx; push N; add; pop rcx; push/pop [rcx]: the memory access block. *)

IsMemoryAccess(look) ==
  /\ look[0].my_cmd = CMD_MY_PUSH
  /\ look[0].reg = RBX
  /\ look[1].use_immed \/ look[2].use_immed
  /\ \A k \in {3, 4} : /\ look[k].my_cmd \in {CMD_MY_PUSH, CMD_MY_POP}
                       /\ look[k].reg = RCX

MemoryIndent(look) ==
  CASE look[1].my_cmd = CMD_MY_PUSH /\ look[2].my_cmd = CMD_MY_ADD -> look[1].immed * 8
    [] look[2].my_cmd = CMD_MY_PUSH /\ look[1].my_cmd = CMD_MY_ADD -> look[2].immed * 8
    [] OTHER -> 0

find_convert_memory_access(look) ==
  encode_cmd(RegInfo(MOV, RDI, RBX))
    \o encode_cmd(ImmedInfo(ADD, RDI, MemoryIndent(look)))
    \o PushReg(RDI)
    \o PopReg(RCX)
    \o encode_cmd(IF look[4].my_cmd = CMD_MY_PUSH
                  THEN [RegInfo(PUSH, INVALID_REG, RCX) EXCEPT !.use_memory4src = TRUE]
                  ELSE [RegInfo(POP, RCX, INVALID_REG) EXCEPT !.use_memory4dest = TRUE])

-----------------------------------------------------------------------------
get_cmd_from_token(token) ==
  CASE token.my_cmd = CMD_MY_ADD -> ADD
    [] token.my_cmd = CMD_MY_SUB -> SUB
    [] token.my_cmd = CMD_MY_MUL -> MUL
    [] token.my_cmd = CMD_MY_DIV -> DIV

(* Mutant: the operands come off the stack in the other order.             *)
MathOfStackReversed(math) ==
  LET cmd == get_cmd_from_token(math)
  IN  Then(PopReg(RAX),
      Then(PopReg(RDI),
      Then(encode_cmd(IF cmd \in {MUL, DIV} THEN RegInfo(cmd, RDI, INVALID_REG)
                                            ELSE RegInfo(cmd, RAX, RDI)),
           PushReg(RAX))))

(* A math command that found no operand to fold: both come off the stack.  *)
MathOfStack(math) ==
  LET cmd == get_cmd_from_token(math)
  IN  Then(PopReg(RDI),
      Then(PopReg(RAX),
      Then(encode_cmd(IF cmd \in {MUL, DIV} THEN RegInfo(cmd, RDI, INVALID_REG)
                                            ELSE RegInfo(cmd, RAX, RDI)),
           PushReg(RAX))))

(* push x; math: x becomes the operand.  A register operand is taken       *)
(* without its r8+ flag and without its addressing mode, and mul and div   *)
(* of a register are refused by the encoder, which ends the writing.       *)
PushMath(push, math) ==
  Then(PopReg(RAX),
  Then(encode_cmd([RegInfo(get_cmd_from_token(math), RAX, push.reg)
                     EXCEPT !.immed_val = push.immed]),
       PushReg(RAX)))

(* push x; y; math: x goes to rax and y's operand is applied to it.        *)
LoadOperand(push) ==
  encode_cmd([RegInfo(MOV, RAX, push.reg)
                EXCEPT !.immed_val = push.immed,
                       !.use_memory4src = push.mode = MODE_REG_ADDRESS])

PushAnyMath(push, any, math) ==
  Then(LoadOperand(push),
  Then(encode_cmd([RegInfo(get_cmd_from_token(math), RAX, any.reg)
                     EXCEPT !.immed_val = IF push.reg = RBX THEN any.immed * 8
                                                            ELSE any.immed]),
       PushReg(RAX)))

Fold(skip, bytes) == [skip |-> skip, bytes |-> bytes]

(* The tokens a fold stands for and its bytes; skip 0 when there is none.  *)
convert_tokens2nonstack_logic(look) ==
  LET isPush == look[0].my_cmd = CMD_MY_PUSH
      twoImmeds == look[0].use_immed /\ look[1].use_immed
  IN  CASE IsMemoryAccess(look) -> Fold(5, find_convert_memory_access(look))
        [] ~IsMemoryAccess(look) /\ look[0].my_cmd \in MathCmds ->
             Fold(1, MathOfStack(look[0]))
        [] ~IsMemoryAccess(look) /\ isPush /\ ~twoImmeds /\ look[1].my_cmd \in MathCmds ->
             Fold(2, PushMath(look[0], look[1]))
        [] ~IsMemoryAccess(look) /\ isPush /\ ~twoImmeds
             /\ look[1].my_cmd \notin MathCmds /\ look[2].my_cmd \in MathCmds ->
             Fold(3, PushAnyMath(look[0], look[1], look[2]))
        [] OTHER -> Fold(0, << >>)

-----------------------------------------------------------------------------
(* One token.  space is the address its first byte will have.              *)

(* Mutant: no prefix for r8 to r11.                                        *)
NoPrefix(token) == << >>

R8PlusPrefix(token) == IF token.use_r8plus_regs THEN << \h41 >> ELSE << >>

(* Any immediate up to 127 takes the one-byte opcode, the large negative   *)
(* ones too, whose value is then written with four bytes.                  *)
encode_token2push_pop(token) ==
  LET isPush == token.my_cmd = CMD_MY_PUSH
      prefix == R8PlusPrefix(token)
  IN  CASE token.use_immed ->
             << IF token.immed <= ASCII_MAX_SYMBOL THEN \h6A ELSE \h68 >>
               \o NumberBytes(token.immed)
        [] ~token.use_immed /\ token.mode = MODE_REG_ADDRESS ->
             prefix \o IF isPush THEN << \hFF, \h30 + token.reg >>
                                 ELSE << \h8F, token.reg >>
        [] ~token.use_immed /\ token.mode = MODE_8_BYTE_IN_ADDRESS ->
             prefix \o << (IF isPush THEN \h50 ELSE \h58) + token.reg >>
        [] ~token.use_immed /\ token.mode = MODE_NONE /\ token.delete_stack_elem ->
             << \h48, \h83, \hC4, \h08 >>
        [] OTHER -> << >>

(* Mutant: the opcode byte is not counted.                                 *)
JMP_OPERAND_LENGTH == 4

JMP_LENGTH == 5

(* The relative call is measured from space + 5 although pop rdi goes first. *)
encode_print(space) ==
  PopReg(RDI) \o encode_cmd(ImmedInfo(CALL, INVALID_REG, PrintDecimal - (space + JMP_LENGTH)))

encode_scan(space) ==
  encode_cmd(ImmedInfo(CALL, INVALID_REG, ScanDecimal - (space + JMP_LENGTH))) \o PopReg(RAX)

encode_sqrt ==
  PopReg(RAX) \o << \hF2, \h48, \h0F, \h2A, \hC0 >> \o << \hF2, \h0F, \h51, \hC0 >>
    \o << \hF2, \h48, \h0F, \h2C, \hC0 >> \o PushReg(RAX)

encode_cmp == PopReg(RCX) \o PopReg(RDX) \o << \h48, \h39, \hD1 >>

(* Jumps are written with the guest offset where the displacement belongs. *)
pre_encode_jmp(token) == << \hE9 >> \o Le32(token.offset)

ConditionCode(cmd) ==
  CASE cmd = CMD_MY_JB -> \h82 [] cmd = CMD_MY_JAE -> \h83 [] cmd = CMD_MY_JE -> \h84
    [] cmd = CMD_MY_JNE -> \h85 [] cmd = CMD_MY_JBE -> \h86 [] cmd = CMD_MY_JA -> \h87

pre_encode_conditional_jmp(token) ==
  << \h0F, ConditionCode(token.my_cmd) >> \o Le32(token.offset)

(* Mutants: the jmp is not counted; the slot is four bytes.                *)
emitation_of_call_to_jmp(token, space) ==
  encode_cmd([ImmedInfo(MOV, R15, space + 11) EXCEPT !.use_memory4dest = TRUE])
    \o encode_cmd(ImmedInfo(SUB, R15, 8))
    \o pre_encode_jmp(token)
emitation_of_call_small_slot(token, space) ==
  encode_cmd([ImmedInfo(MOV, R15, space + 16) EXCEPT !.use_memory4dest = TRUE])
    \o encode_cmd(ImmedInfo(SUB, R15, 4))
    \o pre_encode_jmp(token)

pre_encode_emitation_of_call(token, space) ==
  encode_cmd([ImmedInfo(MOV, R15, space + 16) EXCEPT !.use_memory4dest = TRUE])
    \o encode_cmd(ImmedInfo(SUB, R15, 8))
    \o pre_encode_jmp(token)

(* Mutant: the slot is not released.                                       *)
emitation_of_ret_without_add == << \h41, \hFF, \h37 >> \o encode_ret

encode_emitation_of_ret ==
  encode_cmd(ImmedInfo(ADD, R15, 8)) \o << \h41, \hFF, \h37 >> \o encode_ret

(* A command that is in no table leaves nothing.                           *)
x86_cmd_ctor(token, space) ==
  CASE token.my_cmd = CMD_MY_OUT  -> encode_print(space)
    [] token.my_cmd = CMD_MY_IN   -> encode_scan(space)
    [] token.my_cmd = CMD_MY_RET  -> encode_emitation_of_ret
    [] token.my_cmd = CMD_MY_SQRT -> encode_sqrt
    [] token.my_cmd = CMD_MY_CALL -> pre_encode_emitation_of_call(token, space)
    [] token.my_cmd = CMD_MY_JMP  -> pre_encode_jmp(token)
    [] token.my_cmd \in CondJmpCmds -> encode_cmp \o pre_encode_conditional_jmp(token)
    [] token.my_cmd \in {CMD_MY_PUSH, CMD_MY_POP} -> encode_token2push_pop(token)
    [] OTHER -> << >>
=============================================================================
