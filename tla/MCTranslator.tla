---------------------------- MODULE MCTranslator ----------------------------
(***************************************************************************)
(* Small programs for Translator: every sequence of at most MaxTokens      *)
(* commands of an alphabet, with the offsets the parser gives its labels.  *)
(***************************************************************************)
EXTENDS Translator, SequencesExt

CONSTANTS
  MaxTokens,   \* the longest program
  Targets      \* the offsets jumps name; some have a label, some have none

Arg(cmd, mode, reg) ==
  [ZeroToken EXCEPT !.my_cmd = cmd, !.mode = mode, !.reg = reg]

PushImmed(v) ==
  [ZeroToken EXCEPT !.my_cmd = CMD_MY_PUSH, !.reg = INVALID_REG,
                    !.immed = v, !.use_immed = TRUE]

Jump(cmd, target) ==
  [ZeroToken EXCEPT !.my_cmd = cmd, !.reg = INVALID_REG, !.offset = target]

Plain(cmd) == [ZeroToken EXCEPT !.my_cmd = cmd]

PopRbx == Arg(CMD_MY_POP, MODE_8_BYTE_IN_ADDRESS, RBX)

(* A command with an argument is two numbers of the guest program, and a   *)
(* label's offset is the index of its number.                              *)
Numbers(token) == IF token.my_cmd \in JumpCmds \cup {CMD_MY_PUSH, CMD_MY_POP} THEN 2 ELSE 1

WithOffsets(cmds) ==
  LET at[k \in 1 .. Len(cmds) + 1] == IF k = 1 THEN 0 ELSE at[k - 1] + Numbers(cmds[k - 1])
  IN  [k \in 1 .. Len(cmds) |->
         IF cmds[k].my_cmd = CMD_MY_LABEL THEN [cmds[k] EXCEPT !.offset = at[k]] ELSE cmds[k]]

ProgramsOver(alphabet, lengths) ==
  { WithOffsets(cmds) : cmds \in UNION { [1..n -> alphabet] : n \in lengths } }

PushRcx == Arg(CMD_MY_PUSH, MODE_8_BYTE_IN_ADDRESS, RCX)
Lbl     == Plain(CMD_MY_LABEL)
Jumps   == { Jump(cmd, t) : cmd \in {CMD_MY_JMP, CMD_MY_JB, CMD_MY_CALL}, t \in Targets }

(* 15 is the first opcode byte of a conditional jump, and pop [rcx] begins *)
(* with a byte that completes it; sub rax holds the opcode byte of a call. *)
MixedAlphabet ==
  { PushImmed(2), PushImmed(15), PushImmed(300), PushRcx,
    Arg(CMD_MY_POP, MODE_REG_ADDRESS, RCX), PopRbx, Plain(CMD_MY_SUB), Plain(CMD_MY_OUT), Lbl }
    \cup Jumps

(* Programs whose code fits the four bytes a token has: labels and pushes  *)
(* of a register, one byte or none each.                                   *)
CompactAlphabet == { PushRcx, PopRbx, Lbl, Jump(CMD_MY_JB, 1) }

(* count copies of a command                                               *)
Repeat(cmd, count) == [k \in 1..count |-> cmd]

(* More than 255 bytes of code without pop rbx.                            *)
NoSetUp == Repeat(Jump(CMD_MY_CALL, 2), 16)

SmallPrograms ==
  ProgramsOver(MixedAlphabet, 0 .. MaxTokens) \cup ProgramsOver(CompactAlphabet, {MaxTokens + 2})
    \cup {NoSetUp}

SetUp == << PushImmed(100), PopRbx >>

OnlyZeroes == {ZeroToken}

-----------------------------------------------------------------------------
(* Programs the translation does not keep to what is said of it.           *)

(* A label inside a fold of three: push rcx; label; add.                   *)
SwallowedLabel ==
  { WithOffsets(SetUp \o << PushRcx, PushRcx, Lbl, Plain(CMD_MY_ADD), Jump(CMD_MY_JMP, 8) >>) }

(* A conditional jump to an offset that takes two bytes.                   *)
FarConditional ==
  { WithOffsets(SetUp \o Repeat(PushImmed(1), 130) \o << Lbl, Jump(CMD_MY_JE, 264) >>) }
=============================================================================
