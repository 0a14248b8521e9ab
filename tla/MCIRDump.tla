------------------------------ MODULE MCIRDump ------------------------------
(***************************************************************************)
(* Small programs for IRDump, and its memory blocks compared with the ones *)
(* Tokens2x86 folds.                                                       *)
(***************************************************************************)
EXTENDS IRDump

CONSTANTS
  MaxTokens,   \* the longest program
  Immediates   \* the numbers pushed

Translation == INSTANCE Tokens2x86 WITH PrintDecimal <- 0, ScanDecimal <- 0

Arg(cmd, mode, reg) == TokenOf(cmd, reg, FALSE, mode)

PushImmed(v) ==
  [TokenOf(CMD_MY_PUSH, INVALID_REG, FALSE, MODE_NONE) EXCEPT !.immed = v, !.use_immed = TRUE]

Alphabet ==
  { PushImmed(v) : v \in Immediates }
    \cup { Arg(cmd, MODE_8_BYTE_IN_ADDRESS, reg) : cmd \in {CMD_MY_PUSH, CMD_MY_POP}, reg \in {RBX, RCX} }
    \cup { Arg(CMD_MY_POP, MODE_REG_ADDRESS, RCX), TokenOf(CMD_MY_ADD, 0, FALSE, MODE_NONE) }

AccessBlock ==
  << Arg(CMD_MY_PUSH, MODE_8_BYTE_IN_ADDRESS, RBX), PushImmed(7), TokenOf(CMD_MY_ADD, 0, FALSE, MODE_NONE),
     Arg(CMD_MY_POP, MODE_8_BYTE_IN_ADDRESS, RCX), Arg(CMD_MY_PUSH, MODE_REG_ADDRESS, RCX) >>

SmallPrograms ==
  UNION { [1..n -> Alphabet] : n \in 0 .. MaxTokens } \cup { AccessBlock \o AccessBlock }

(* An unknown command leaves a token of zeroes.                            *)
WithUnknown == [1..2 -> Alphabet \cup {ZeroToken}]

OnlyZeroes == {ZeroToken}

-----------------------------------------------------------------------------
FoldedAt(n) == Translation!IsMemoryAccess([k \in 0..4 |-> TokenAt(n + k)])

(* Hazard: the dump recognises the memory access block with conditions of  *)
(* its own.  A block it shows that begins with a push is one the           *)
(* translation folds, and one that is folded and has its number second,    *)
(* its math third and its access through [rcx] is shown                    *)
(* (parse_memory_access_block against find_convert_memory_access).         *)
BlocksAgree ==
  phase = "memory_access" =>
    /\ IsMemoryBlock /\ Block(0).my_cmd = CMD_MY_PUSH => FoldedAt(n_token)
    /\ FoldedAt(n_token) /\ Block(1).use_immed /\ Block(2).my_cmd \in MathCmds
         /\ Block(4).mode = MODE_REG_ADDRESS
       => IsMemoryBlock
=============================================================================
