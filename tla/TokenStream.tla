---------------------------- MODULE TokenStream ----------------------------
(***************************************************************************)
(* parse_text_for_tokens: the numbers of a guest program become tokens.    *)
(* The text is its numbers, each with the place of its first character and *)
(* the place after its last, and its number of characters; everything else *)
(* is blanks.                                                              *)
(***************************************************************************)
EXTENDS Isa

CONSTANTS
  Texts,          \* the guest programs
  GarbageArgs,    \* what a sscanf past the end of the text may read
  GarbageRegs     \* the bytes that may lie outside the eight entries of my2x86_regs

Word == [value : Int, start : Nat, end : Nat]

(* At least one number; a blank between any two; distances that fit the    *)
(* unsigned char of %hhn.                                                  *)
IsText(text) ==
  /\ text \in [words : Seq(Word), n_chars : Nat]
  /\ Len(text.words) >= 1
  /\ \A k \in 1 .. Len(text.words) :
       /\ text.words[k].start < text.words[k].end
       /\ text.words[k].end <= text.n_chars
       /\ text.words[k].end - (IF k = 1 THEN 0 ELSE text.words[k - 1].end) <= 255
  /\ \A j, k \in 1 .. Len(text.words) : j < k => text.words[j].end < text.words[k].start

ASSUME TextsAssumption == \A text \in Texts : IsText(text)

ASSUME GarbageAssumption ==
  /\ GarbageArgs \subseteq Int /\ GarbageArgs # {}
  /\ GarbageRegs \subseteq Byte /\ GarbageRegs # {}

VARIABLES
  text,
  w,          \* the next number sscanf will find
  i,          \* the loop's place in the text
  cmd,        \* the last number read as a command; kept when a read fails
  n_skipped,  \* the characters that read took; kept likewise
  n_parsed,   \* tokens_t::n_parsed_numbers
  tokens,     \* tokens_t::tokens up to size
  from,       \* history: the number each token came from, 0 for none
  pc

vars == << text, w, i, cmd, n_skipped, n_parsed, tokens, from, pc >>

size     == Len(tokens)
capacity == text.n_chars \div 2

-----------------------------------------------------------------------------
(* tokens.h: the masks of a command number.                                *)

Masked(c)   == c % 32
HasImmed(c) == (c \div 32) % 2 = 1
HasReg(c)   == (c \div 64) % 2 = 1
HasRam(c)   == (c \div 128) % 2 = 1

(* list.my_cmds                                                            *)
NoTokenCmds == {CMD_MY_HLT, CMD_MY_DUMP}
ArgCmds     == {CMD_MY_PUSH, CMD_MY_POP} \cup JumpCmds
PlainCmds   == MathCmds \cup {CMD_MY_OUT, CMD_MY_IN, CMD_MY_RET, CMD_MY_SQRT, CMD_MY_LABEL}

(* A token as the parser leaves it: the register is a byte, read from the  *)
(* table or from outside it.  Those of Token have one that was in it.      *)
ParsedToken ==
  [my_cmd : 0..31, reg : Byte, use_r8plus_regs : BOOLEAN,
   mode : {MODE_NONE, MODE_8_BYTE_IN_ADDRESS, MODE_REG_ADDRESS},
   immed : Int, use_immed : BOOLEAN, offset : Int, delete_stack_elem : BOOLEAN]

my2x86_regs == << 0, 3, 1, 2, 0, 1, 2, 3 >>

(* Mutants: the guest's number is kept, whatever it is; the table is read  *)
(* from its first entry.                                                   *)
keep_my_reg(arg) == {arg}
convert_from_zero(arg) ==
  IF arg \in 0..7 THEN {my2x86_regs[arg + 1]} ELSE GarbageRegs

convert_my_regs2x86_regs(arg) ==
  IF arg \in 1..8 THEN {my2x86_regs[arg]} ELSE GarbageRegs

Bare(c) == TokenOf(Masked(c), INVALID_REG, FALSE, MODE_NONE)

RegisterArg(c, arg, mode, reg) == TokenOf(Masked(c), reg, arg >= 5, mode)

(* A register operand, in memory or not; RAM without a register is logged  *)
(* and leaves the token bare.                                              *)
RegisterForms(c, arg) ==
  IF HasReg(c)
  THEN { RegisterArg(c, arg, IF HasRam(c) THEN MODE_REG_ADDRESS ELSE MODE_8_BYTE_IN_ADDRESS, reg) :
           reg \in convert_my_regs2x86_regs(arg) }
  ELSE { Bare(c) }

(* The tokens insert_token_args may make of a command and its argument.    *)
insert_token_args(c, arg) ==
  CASE Masked(c) = CMD_MY_PUSH ->
         IF HasImmed(c) /\ ~HasReg(c) /\ ~HasRam(c)
         THEN { [Bare(c) EXCEPT !.immed = arg, !.use_immed = TRUE] }
         ELSE RegisterForms(c, arg)
    [] Masked(c) = CMD_MY_POP ->
         IF c = CMD_MY_POP THEN { [Bare(c) EXCEPT !.delete_stack_elem = TRUE] }
                           ELSE RegisterForms(c, arg)
    [] OTHER -> { [Bare(c) EXCEPT !.offset = arg] }

-----------------------------------------------------------------------------
Init ==
  /\ text \in Texts
  /\ w = 1 /\ i = 0
  /\ cmd = 0 /\ n_skipped = 0 /\ n_parsed = 0
  /\ tokens = << >> /\ from = << >>
  /\ pc = "read"

HasWord(k) == k <= Len(text.words)

(* sscanf of a command.  At the end of the text it fails and leaves cmd    *)
(* and n_skipped as the last one that succeeded set them.                  *)
ReadCommand ==
  /\ pc = "read" /\ i < text.n_chars
  /\ IF HasWord(w)
     THEN /\ cmd' = text.words[w].value
          /\ n_skipped' = (text.words[w].end - i) % 256
          /\ w' = w + 1
     ELSE UNCHANGED << cmd, n_skipped, w >>
  /\ n_parsed' = n_parsed + 1
  /\ i' = i + n_skipped'
  /\ pc' = "init_token"
  /\ UNCHANGED << text, tokens, from >>

(* The number the command at hand came from; a failed read has none.       *)
Source == IF w > 1 /\ i = text.words[w - 1].end THEN w - 1 ELSE 0

(* Mutant: the loop does not skip the blank itself.                        *)
ContinueThere(place) == i' = place /\ pc' = "read"

(* The loop's own increment skips one blank.                               *)
Continue(place) == i' = place + 1 /\ pc' = "read"

(* hlt and dump: init_token returns before size++.                         *)
SkipCommand ==
  /\ pc = "init_token" /\ Masked(cmd) \in NoTokenCmds
  /\ Continue(i)
  /\ UNCHANGED << text, w, cmd, n_skipped, n_parsed, tokens, from >>

(* Mutants: the index of the token; the index of the last number found.    *)
LabelTokenIndex == size
LabelWordIndex  == w - 2

(* n_parsed_numbers already counts the label's own number.                 *)
LabelOffset == n_parsed - 1

PlainToken ==
  /\ pc = "init_token" /\ Masked(cmd) \in PlainCmds
  /\ tokens' = Append(tokens,
       [TokenOf(Masked(cmd), 0, FALSE, MODE_NONE)
          EXCEPT !.offset = IF Masked(cmd) = CMD_MY_LABEL THEN LabelOffset ELSE 0])
  /\ from' = Append(from, Source)
  /\ Continue(i)
  /\ UNCHANGED << text, w, cmd, n_skipped, n_parsed >>

(* The argument is the next number; at the end of the text it stays 0, and *)
(* past it the read is undefined.                                          *)
TokenWithArg ==
  /\ pc = "init_token" /\ Masked(cmd) \in ArgCmds
  /\ n_parsed' = n_parsed + 1
  /\ from' = Append(from, Source)
  /\ \/ /\ HasWord(w)
        /\ \E token \in insert_token_args(cmd, text.words[w].value) :
             tokens' = Append(tokens, token)
        /\ w' = w + 1
        /\ Continue(i + ((text.words[w].end - i) % 256))
     \/ /\ ~HasWord(w)
        /\ \E arg \in IF i <= text.n_chars THEN {0} ELSE GarbageArgs :
             \E token \in insert_token_args(cmd, arg) : tokens' = Append(tokens, token)
        /\ w' = w
        /\ Continue(i)
  /\ UNCHANGED << text, cmd, n_skipped >>

(* An unknown command is logged and still counted: its slot keeps zeroes.  *)
UnknownCommand ==
  /\ pc = "init_token"
  /\ Masked(cmd) \notin NoTokenCmds \cup PlainCmds \cup ArgCmds
  /\ tokens' = Append(tokens, ZeroToken)
  /\ from' = Append(from, Source)
  /\ Continue(i)
  /\ UNCHANGED << text, w, cmd, n_skipped, n_parsed >>

EndOfText ==
  /\ pc = "read" /\ i >= text.n_chars
  /\ pc' = "done"
  /\ UNCHANGED << text, w, i, cmd, n_skipped, n_parsed, tokens, from >>

init_token == SkipCommand \/ PlainToken \/ TokenWithArg \/ UnknownCommand

Next == ReadCommand \/ init_token \/ EndOfText

Spec == Init /\ [][Next]_vars

-----------------------------------------------------------------------------
(* Every variable has its type.                                            *)
TypeOK ==
  /\ IsText(text)
  /\ w \in 1 .. Len(text.words) + 1
  /\ i \in Nat
  /\ cmd \in Int /\ n_skipped \in 0..255 /\ n_parsed \in Nat
  /\ tokens \in Seq(ParsedToken)
  /\ from \in Seq(Nat) /\ Len(from) = Len(tokens)
  /\ pc \in {"read", "init_token", "done"}

(* Hazard: the array is allocated for n_chars / 2 tokens before anything   *)
(* is parsed, and tokens->tokens[size] is written without a check.  The    *)
(* text is never read faster than two characters a token, so a text of an  *)
(* even length never overruns the array; one of an odd length may, by one. *)
TokensFit ==
  size <= capacity + (IF text.n_chars % 2 = 0 THEN 0 ELSE 1)

(* Hazard: a jump names the index of a number, and a label's offset is a   *)
(* running count that hlt, dump, arguments and failed reads all move.  A   *)
(* label has the index of its own number.                                  *)
LabelOffsetsExact ==
  \A k \in 1..size :
    tokens[k].my_cmd = CMD_MY_LABEL /\ from[k] > 0 => tokens[k].offset = from[k] - 1

(* Hazard: find_label takes the first entry of an offset.  No two labels   *)
(* share one, and they come in order, also those of failed reads: what     *)
(* Translator assumes of its programs.                                     *)
LabelOffsetsIncrease ==
  \A j, k \in 1..size :
    j < k /\ tokens[j].my_cmd = CMD_MY_LABEL /\ tokens[k].my_cmd = CMD_MY_LABEL
      => tokens[j].offset < tokens[k].offset

(* The command of a token that has one, the argument behind it, and        *)
(* whether that is a guest register.                                       *)
CommandOf(k)      == text.words[from[k]].value
HasArgument(k)    == from[k] > 0 /\ HasWord(from[k] + 1)
ArgumentOf(k)     == text.words[from[k] + 1].value
HasRegister(k)    == HasArgument(k) /\ ArgumentOf(k) \in 1..8
KnownCommand(c)   == IF c \in PlainCmds \cup ArgCmds THEN c ELSE 0

(* Hazard: command and argument are two reads into variables that keep     *)
(* what they had, and the register is looked up without a look at its      *)
(* number.  A token that was read has the command of its own number and    *)
(* the argument behind that; and it is a Token, with a register there is,  *)
(* unless it has one for an operand and no guest register stands there.    *)
OperandsExact ==
  \A k \in 1..size :
    /\ from[k] > 0 => tokens[k].my_cmd = KnownCommand(Masked(CommandOf(k)))
    /\ HasArgument(k) =>
         /\ tokens[k].use_immed => tokens[k].immed = ArgumentOf(k)
         /\ tokens[k].my_cmd \in JumpCmds => tokens[k].offset = ArgumentOf(k)
    /\ tokens[k].mode # MODE_NONE /\ HasRegister(k) =>
         /\ tokens[k].reg = my2x86_regs[ArgumentOf(k)]
         /\ tokens[k].use_r8plus_regs <=> ArgumentOf(k) >= 5
    /\ tokens[k].mode = MODE_NONE \/ HasRegister(k) => tokens[k] \in Token

TrailingBlanks == text.n_chars - text.words[Len(text.words)].end

(* Hazard: skip counts of two sscanfs and the loop's own increment add up  *)
(* to the place of the next number.  A text with at most one character     *)
(* after its last number is read to the end, each number once, and every   *)
(* token has a command of its own.                                         *)
EveryNumberOnce ==
  pc = "done" /\ TrailingBlanks <= 1 =>
    /\ w = Len(text.words) + 1
    /\ n_parsed \in {Len(text.words), Len(text.words) + 1}
    /\ \A k \in 1..size : from[k] > 0
    /\ \A j, k \in 1..size : j < k => from[j] < from[k]

(* README: "During parsing process array of tokens is created. Each token  *)
(* contains information about each command": no token without a command.   *)
NoTokenFromNothing == \A k \in 1..size : from[k] > 0
=============================================================================
