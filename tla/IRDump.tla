------------------------------- MODULE IRDump -------------------------------
(***************************************************************************)
(* save_tokens_in_text: the tokens are written down as lines of text into  *)
(* a buffer that is allocated before the first line.  Each round of its    *)
(* loop tries three parsers one after the other on the token at hand; each *)
(* is an action.  Of a line only its length and the tokens it stands for   *)
(* are kept.                                                               *)
(***************************************************************************)
EXTENDS Isa, FiniteSets

CONSTANTS
  Programs,       \* the token arrays the parser may hand over
  BeyondTokens    \* what a token read past the array's size may hold

ASSUME ProgramsAssumption == Programs \subseteq Seq(Token) /\ BeyondTokens \subseteq Token

VARIABLES
  tokens,     \* tokens_t::tokens, up to size
  beyond,     \* the memory after them, as a token
  n_token,    \* the token the next parser looks at
  size,       \* tokens_text_t::size
  lines,      \* history: the lines, as what they are and which tokens they stand for
  phase       \* the parser that is called next

vars == << tokens, beyond, n_token, size, lines, phase >>

(* Mutant: the zero sprintf writes after a line is not thought of.         *)
LONGEST_LINE == 31

AVERAGE_SIZE_OF_TOKEN_IN_CHARS == 32

capacity == Len(tokens) * AVERAGE_SIZE_OF_TOKEN_IN_CHARS

TokenAt(n) == IF n < Len(tokens) THEN tokens[n + 1] ELSE beyond

Block(k) == TokenAt(n_token + k)

-----------------------------------------------------------------------------
(* Lengths of the lines: constant parts of the formats and what is put in. *)

(* Characters of %d: the sign, and one more digit for each power of ten.   *)
CharsOf(v) ==
  LET digits(a) == 1 + Cardinality({ k \in 1..9 : a >= 10 ^ k })
  IN  IF v < 0 THEN 1 + digits(-v) ELSE digits(v)

NameLength(cmd) ==
  CASE cmd \in {CMD_MY_IN, CMD_MY_JB, CMD_MY_JA, CMD_MY_JE} -> 2
    [] cmd \in {CMD_MY_PUSH, CMD_MY_SQRT, CMD_MY_CALL} -> 4
    [] cmd = CMD_MY_LABEL -> 5
    [] OTHER -> 3

SettingLength(token) == 32 + CharsOf(token.immed)

BlockLength(access, immed) == 24 + NameLength(access.my_cmd) + CharsOf(immed)

(* write_down_push_pop_args; a register is one digit.                      *)
ArgsLength(token) ==
  CASE token.reg # INVALID_REG ->
         (IF token.use_r8plus_regs THEN 4 ELSE 3)
           + (IF token.mode = MODE_REG_ADDRESS THEN 2 ELSE 0)
    [] token.reg = INVALID_REG /\ token.use_immed -> 2 + CharsOf(token.immed)
    [] OTHER -> 0

(* write_down_cmd                                                          *)
CmdLength(token) ==
  13 + NameLength(token.my_cmd) +
    CASE token.my_cmd \in {CMD_MY_PUSH, CMD_MY_POP} -> 3 + ArgsLength(token)
      [] token.my_cmd \in JumpCmds -> 3 + CharsOf(token.offset)
      [] OTHER -> 1

(* CMDS_TABLE has every command of the guest but dump.                     *)
TableCmds ==
  {CMD_MY_PUSH, CMD_MY_POP, CMD_MY_OUT, CMD_MY_IN, CMD_MY_HLT, CMD_MY_LABEL, CMD_MY_SQRT, CMD_MY_RET}
    \cup MathCmds \cup JumpCmds

-----------------------------------------------------------------------------
Init ==
  /\ tokens \in Programs
  /\ beyond \in BeyondTokens
  /\ n_token = 0
  /\ size = 0
  /\ lines = << >>
  /\ phase = IF tokens = << >> THEN "done" ELSE "memory_indent"

(* Mutant: the line is put down to the token before.                       *)
WriteLineBefore(kind, count, length) ==
  /\ size' = size + length
  /\ lines' = Append(lines, [kind |-> kind, first |-> n_token - 1, count |-> count])

(* One line for the next count tokens.                                     *)
WriteLine(kind, count, length) ==
  /\ size' = size + length
  /\ lines' = Append(lines, [kind |-> kind, first |-> n_token, count |-> count])

NoLine == UNCHANGED << n_token, size, lines >>

(* push N; pop rbx                                                         *)
IsMemoryIndent ==
  /\ Block(0).my_cmd = CMD_MY_PUSH /\ Block(0).use_immed
  /\ Block(1).my_cmd = CMD_MY_POP /\ Block(1).reg = RBX

parse_memory_indent ==
  /\ phase = "memory_indent"
  /\ \/ /\ IsMemoryIndent
        /\ WriteLine("setting", 2, SettingLength(Block(0)))
        /\ n_token' = n_token + 2
     \/ ~IsMemoryIndent /\ NoLine
  /\ phase' = "memory_access"
  /\ UNCHANGED << tokens, beyond >>

(* push; push; something that is not math; pop; push or pop                *)
NotTheBlock ==
  /\ Block(0).my_cmd = CMD_MY_PUSH /\ Block(1).my_cmd = CMD_MY_PUSH
  /\ Block(2).my_cmd \notin MathCmds
  /\ Block(3).my_cmd = CMD_MY_POP
  /\ Block(4).my_cmd \in {CMD_MY_PUSH, CMD_MY_POP}

(* Mutant: the register of the pop is not looked at.                       *)
BlockRegsWithoutPop ==
  /\ Block(0).reg = RBX /\ Block(4).reg = RCX
  /\ Block(1).use_immed /\ Block(4).mode = MODE_REG_ADDRESS

BlockRegs ==
  /\ Block(0).reg = RBX /\ Block(3).reg = RCX /\ Block(4).reg = RCX
  /\ Block(1).use_immed /\ Block(4).mode = MODE_REG_ADDRESS

IsMemoryBlock == ~NotTheBlock /\ BlockRegs

(* The round goes on with the next parser even when the tokens are over.   *)
parse_memory_access_block ==
  /\ phase = "memory_access"
  /\ \/ /\ IsMemoryBlock
        /\ WriteLine("mem_block", 5, BlockLength(Block(4), Block(1).immed))
        /\ n_token' = n_token + 5
     \/ ~IsMemoryBlock /\ NoLine
  /\ phase' = "cmd"
  /\ UNCHANGED << tokens, beyond >>

(* Mutants: the last token is left out; one more is waited for.            *)
OneTokenLeft(next) == IF next + 1 < Len(tokens) THEN "memory_indent" ELSE "done"

OneTokenMore(next) == IF next <= Len(tokens) THEN "memory_indent" ELSE "done"

AfterRound(next) == IF next < Len(tokens) THEN "memory_indent" ELSE "done"

(* A command that is in no table writes nothing and is not passed over.    *)
parse_cmd ==
  /\ phase = "cmd"
  /\ \/ /\ Block(0).my_cmd \in TableCmds
        /\ WriteLine("cmd", 1, CmdLength(Block(0)))
        /\ n_token' = n_token + 1
     \/ Block(0).my_cmd \notin TableCmds /\ NoLine
  /\ phase' = AfterRound(n_token')
  /\ UNCHANGED << tokens, beyond >>

Saved == phase = "done" /\ UNCHANGED vars

Next == parse_memory_indent \/ parse_memory_access_block \/ parse_cmd \/ Saved

(* Nothing but its own end stops the loop.                                 *)
Spec == Init /\ [][Next]_vars /\ WF_vars(Next)

-----------------------------------------------------------------------------
(* Every variable has its type.                                            *)
TypeOK ==
  /\ tokens \in Seq(Token)
  /\ beyond \in Token
  /\ n_token \in Nat /\ size \in Nat
  /\ lines \in Seq([kind : {"setting", "mem_block", "cmd"}, first : Nat, count : {1, 2, 5}])
  /\ phase \in {"memory_indent", "memory_access", "cmd", "done"}

(* The longest number that leaves a token's line in its share of the text. *)
MAX_CHARS == 9

ShortNumbers ==
  \A k \in 1 .. Len(tokens) : /\ CharsOf(tokens[k].immed) <= MAX_CHARS
                              /\ CharsOf(tokens[k].offset) <= MAX_CHARS

(* Hazard: sprintf writes into a buffer of 32 characters a token without a *)
(* check, and a zero after the last character.  With numbers of at most    *)
(* nine characters, and zeroes behind the tokens, it always has the room.  *)
TextFits == ShortNumbers /\ beyond = ZeroToken /\ size > 0 => size < capacity

(* The tokens a line stands for, by their index.                           *)
Covered(line) == line.first .. line.first + line.count - 1

(* Hazard: three parsers move the same index, and a round calls the next   *)
(* one without looking at the end.  Once the text is complete every token  *)
(* stands in exactly one of its lines.                                     *)
EveryTokenOnce ==
  phase = "done" =>
    \A k \in 0 .. Len(tokens) - 1 :
      \E n \in DOMAIN lines :
        /\ k \in Covered(lines[n])
        /\ \A m \in DOMAIN lines : m # n => k \notin Covered(lines[m])

(* Hazard: nothing moves the index past a command that is in no table.     *)
(* Where every token has a known one the text is completed.                *)
Completes ==
  (\A k \in 1 .. Len(tokens) : tokens[k].my_cmd \in TableCmds) => <>(phase = "done")

(* README: "After this process simple IR is created."                      *)
AlwaysCompletes == <>(phase = "done")
=============================================================================
