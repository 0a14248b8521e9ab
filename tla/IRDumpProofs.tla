---------------------------- MODULE IRDumpProofs ----------------------------
(***************************************************************************)
(* IRDump for every set of programs: the types, the room in the text, that *)
(* a completed text has every token in exactly one line, and that its      *)
(* memory blocks are the ones the translation folds.                       *)
(***************************************************************************)
EXTENDS MCIRDump, FiniteSetTheorems, TLAPS

-----------------------------------------------------------------------------
(* Lengths of lines.                                                       *)

LEMMA CharsOfType ==
  ASSUME NEW v \in Int
  PROVE  CharsOf(v) \in Nat
<1> DEFINE Reached(a) == { k \in 1..9 : a >= 10 ^ k }
<1>1. ASSUME NEW a \in Int PROVE Cardinality(Reached(a)) \in Nat
  <2>1. Reached(a) \in SUBSET (1..9)
    OBVIOUS
  <2>2. IsFiniteSet(1..9)
    <3>1. 1 \in Int /\ 9 \in Int
      OBVIOUS
    <3> QED
      BY <3>1, FS_Interval, Zenon
  <2> HIDE DEF Reached
  <2> QED
    BY <2>1, <2>2, FS_Subset, FS_CardinalityType
<1>2. CharsOf(v) = IF v < 0 THEN 1 + (1 + Cardinality(Reached(-v))) ELSE 1 + Cardinality(Reached(v))
  BY DEF CharsOf
<1>3. Cardinality(Reached(v)) \in Nat /\ Cardinality(Reached(-v)) \in Nat
  BY <1>1
<1> HIDE DEF Reached
<1> QED
  BY <1>2, <1>3

LEMMA NameLengthType ==
  ASSUME NEW c
  PROVE  NameLength(c) \in {2, 3, 4, 5} /\ (c # CMD_MY_LABEL => NameLength(c) \in {2, 3, 4})
BY Zenon DEF NameLength

(* A token's numbers are short ones.                                       *)
Short(token) == CharsOf(token.immed) <= MAX_CHARS /\ CharsOf(token.offset) <= MAX_CHARS

LEMMA SettingLengthType ==
  ASSUME NEW token \in Token
  PROVE  SettingLength(token) \in Nat /\ (Short(token) => SettingLength(token) <= 62)
<1>1. token.immed \in Int
  BY DEF Token
<1> QED
  BY <1>1, CharsOfType DEF SettingLength, Short, MAX_CHARS

LEMMA BlockLengthType ==
  ASSUME NEW access \in Token, NEW token \in Token
  PROVE  /\ BlockLength(access, token.immed) \in Nat
         /\ Short(token) => BlockLength(access, token.immed) <= 155
<1>1. token.immed \in Int
  BY DEF Token
<1> QED
  BY <1>1, CharsOfType, NameLengthType DEF BlockLength, Short, MAX_CHARS

LEMMA ArgsLengthType ==
  ASSUME NEW token \in Token
  PROVE  ArgsLength(token) \in Nat /\ (Short(token) => ArgsLength(token) <= 11)
<1>1. CharsOf(token.immed) \in Nat
  <2>1. token.immed \in Int
    BY DEF Token
  <2> QED
    BY <2>1, CharsOfType
<1>2. \/ ArgsLength(token) = (IF token.use_r8plus_regs THEN 4 ELSE 3)
                               + (IF token.mode = MODE_REG_ADDRESS THEN 2 ELSE 0)
      \/ ArgsLength(token) = 2 + CharsOf(token.immed)
      \/ ArgsLength(token) = 0
  BY Zenon DEF ArgsLength
<1> QED
  BY <1>1, <1>2 DEF Short, MAX_CHARS

LEMMA CmdLengthType ==
  ASSUME NEW token \in Token
  PROVE  CmdLength(token) \in Nat /\ (Short(token) => CmdLength(token) <= 31)
<1> DEFINE name == NameLength(token.my_cmd)
           argument == CASE token.my_cmd \in {CMD_MY_PUSH, CMD_MY_POP} -> 3 + ArgsLength(token)
                         [] token.my_cmd \in JumpCmds -> 3 + CharsOf(token.offset)
                         [] OTHER -> 1
<1>1. CmdLength(token) = 13 + name + argument
  BY DEF CmdLength
<1>2. /\ CharsOf(token.offset) \in Nat /\ ArgsLength(token) \in Nat
      /\ Short(token) => ArgsLength(token) <= 11 /\ CharsOf(token.offset) <= 9
  <2>1. token.offset \in Int
    BY DEF Token
  <2> QED
    BY <2>1, CharsOfType, ArgsLengthType DEF Short, MAX_CHARS
<1>3. /\ name \in {2, 3, 4, 5}
      /\ token.my_cmd \in {CMD_MY_PUSH, CMD_MY_POP} \cup JumpCmds => name \in {2, 3, 4}
  <2>1. CMD_MY_LABEL \notin {CMD_MY_PUSH, CMD_MY_POP} \cup JumpCmds
    BY DEF CMD_MY_PUSH, CMD_MY_POP, JumpCmds, CondJmpCmds, CMD_MY_LABEL, CMD_MY_JB, CMD_MY_JBE,
       CMD_MY_JA, CMD_MY_JAE, CMD_MY_JE, CMD_MY_JNE, CMD_MY_JMP, CMD_MY_CALL
  <2> QED
    BY <2>1, NameLengthType
<1>4. \/ token.my_cmd \in {CMD_MY_PUSH, CMD_MY_POP} /\ argument = 3 + ArgsLength(token)
      \/ token.my_cmd \in JumpCmds /\ argument = 3 + CharsOf(token.offset)
      \/ argument = 1
  <2>1. CASE token.my_cmd \in {CMD_MY_PUSH, CMD_MY_POP}
    <3>1. token.my_cmd \notin JumpCmds
      BY <2>1 DEF CMD_MY_PUSH, CMD_MY_POP, JumpCmds, CondJmpCmds, CMD_MY_JB, CMD_MY_JBE,
         CMD_MY_JA, CMD_MY_JAE, CMD_MY_JE, CMD_MY_JNE, CMD_MY_JMP, CMD_MY_CALL
    <3> QED
      BY <2>1, <3>1, Zenon
  <2>2. CASE token.my_cmd \notin {CMD_MY_PUSH, CMD_MY_POP} /\ token.my_cmd \in JumpCmds
    BY <2>2, Zenon
  <2>3. CASE token.my_cmd \notin {CMD_MY_PUSH, CMD_MY_POP} /\ token.my_cmd \notin JumpCmds
    BY <2>3, Zenon
  <2> QED
    BY <2>1, <2>2, <2>3
<1> HIDE DEF name, argument
<1> QED
  BY <1>1, <1>2, <1>3, <1>4

-----------------------------------------------------------------------------
(* What the room and the lines rest on.                                    *)

Line == [kind : {"setting", "mem_block", "cmd"}, first : Nat, count : {1, 2, 5}]

EndOf(line) == line.first + line.count

(* Nothing behind the tokens is taken for one of them.                     *)
Within == beyond = ZeroToken => n_token <= Len(tokens)

(* A line takes at most 31 characters of each of its tokens.               *)
Dense == beyond = ZeroToken /\ ShortNumbers => size <= 31 * n_token

(* The lines stand for the tokens passed over, one after the other.        *)
Contiguous ==
  /\ \A k \in 0 .. n_token - 1 : \E n \in DOMAIN lines : k \in Covered(lines[n])
  /\ \A n \in DOMAIN lines : EndOf(lines[n]) <= n_token
  /\ \A m, n \in DOMAIN lines : m < n => EndOf(lines[m]) <= lines[n].first

Finished == phase = "done" => n_token >= Len(tokens)

IInv == TypeOK /\ Within /\ Dense /\ Contiguous /\ Finished

LEMMA TokenAtType ==
  ASSUME tokens \in Seq(Token), beyond \in Token, NEW n \in Nat
  PROVE  TokenAt(n) \in Token
<1>1. CASE n < Len(tokens)
  <2>1. n + 1 \in 1..Len(tokens)
    BY <1>1
  <2> QED
    BY <1>1, <2>1 DEF TokenAt
<1>2. CASE ~(n < Len(tokens))
  BY <1>2 DEF TokenAt
<1> QED
  BY <1>1, <1>2

(* A token that is not all zeroes is one of the program's.                 *)
LEMMA InsideTokens ==
  ASSUME tokens \in Seq(Token), beyond = ZeroToken, NEW n \in Nat,
         TokenAt(n).my_cmd # 0 \/ TokenAt(n).reg # 0
  PROVE  n < Len(tokens) /\ (ShortNumbers => Short(TokenAt(n)))
<1>1. ZeroToken.my_cmd = 0 /\ ZeroToken.reg = 0
  BY DEF ZeroToken, TokenOf
<1>2. n < Len(tokens)
  BY <1>1 DEF TokenAt
<1>3. n + 1 \in 1..Len(tokens) /\ TokenAt(n) = tokens[n + 1]
  BY <1>2 DEF TokenAt
<1> QED
  BY <1>2, <1>3 DEF ShortNumbers, Short

LEMMA CoveredIs ==
  ASSUME NEW line \in Line, NEW k \in Int
  PROVE  k \in Covered(line) <=> line.first <= k /\ k < EndOf(line)
BY DEF Line, Covered, EndOf

LEMMA LineType ==
  ASSUME NEW list \in Seq(Line), NEW n \in DOMAIN list
  PROVE  list[n].first \in Nat /\ EndOf(list[n]) \in Nat
<1>1. list[n] \in Line
  OBVIOUS
<1> QED
  BY <1>1 DEF Line, EndOf

(* One more line, for the tokens the index moves over.                     *)
LEMMA LineWritten ==
  ASSUME TypeOK, Contiguous, NEW kind \in {"setting", "mem_block", "cmd"}, NEW count \in {1, 2, 5},
         NEW length \in Nat, WriteLine(kind, count, length), n_token' = n_token + count
  PROVE  n_token' \in Nat /\ size' \in Nat /\ lines' \in Seq(Line) /\ Contiguous'
<1> DEFINE new == [kind |-> kind, first |-> n_token, count |-> count]
<1>1. n_token \in Nat /\ size \in Nat /\ lines \in Seq(Line)
  BY DEF TypeOK, Line
<1>2. new \in Line /\ new.first = n_token /\ EndOf(new) = n_token + count
  BY <1>1 DEF Line, EndOf
<1>3. lines' = Append(lines, new) /\ size' = size + length
  BY DEF WriteLine
<1> HIDE DEF new
<1>4. /\ lines' \in Seq(Line)
      /\ DOMAIN lines = 1..Len(lines) /\ DOMAIN lines' = 1..Len(lines) + 1 /\ Len(lines) \in Nat
      /\ lines'[Len(lines) + 1] = new
      /\ \A n \in DOMAIN lines : lines'[n] = lines[n]
  <2>1. lines' \in Seq(Line) /\ Len(lines') = Len(lines) + 1
    BY <1>1, <1>2, <1>3
  <2>2. Len(lines) \in Nat /\ DOMAIN lines = 1..Len(lines)
    BY <1>1
  <2>3. DOMAIN lines' = 1..Len(lines) + 1
    BY <2>1
  <2>4. lines'[Len(lines) + 1] = new
    BY <1>1, <1>2, <1>3
  <2>5. \A n \in DOMAIN lines : lines'[n] = lines[n]
    BY <1>1, <1>2, <1>3
  <2> QED
    BY <2>1, <2>2, <2>3, <2>4, <2>5
<1>5. \A n \in DOMAIN lines : lines[n].first \in Nat /\ EndOf(lines[n]) \in Nat
  BY <1>1, LineType
<1>6. ASSUME NEW k \in 0 .. n_token' - 1
      PROVE  \E n \in DOMAIN lines' : k \in Covered(lines'[n])
  <2>1. CASE k < n_token
    <3>1. PICK n \in DOMAIN lines : k \in Covered(lines[n])
      BY <1>1, <2>1 DEF Contiguous
    <3> QED
      BY <1>4, <3>1
  <2>2. CASE k >= n_token
    <3>1. k \in Covered(new)
      BY <1>1, <1>2, <2>2, CoveredIs
    <3> QED
      BY <1>4, <3>1
  <2> QED
    BY <1>1, <2>1, <2>2
<1>7. ASSUME NEW n \in DOMAIN lines' PROVE EndOf(lines'[n]) <= n_token'
  <2>1. CASE n \in DOMAIN lines
    <3>1. EndOf(lines[n]) <= n_token /\ EndOf(lines[n]) \in Nat
      BY <1>5, <2>1 DEF Contiguous
    <3> QED
      BY <1>1, <1>4, <2>1, <3>1
  <2>2. CASE n = Len(lines) + 1
    BY <1>1, <1>2, <1>4, <2>2
  <2> QED
    BY <1>4, <2>1, <2>2
<1>8. ASSUME NEW m \in DOMAIN lines', NEW n \in DOMAIN lines', m < n
      PROVE  EndOf(lines'[m]) <= lines'[n].first
  <2>1. m \in DOMAIN lines
    BY <1>4, <1>8
  <2>2. CASE n \in DOMAIN lines
    BY <1>4, <1>8, <2>1, <2>2 DEF Contiguous
  <2>3. CASE n = Len(lines) + 1
    BY <1>2, <1>4, <2>1, <2>3 DEF Contiguous
  <2> QED
    BY <1>4, <2>2, <2>3
<1>9. n_token' \in Nat /\ size' \in Nat
  BY <1>1, <1>3
<1> QED
  BY <1>4, <1>6, <1>7, <1>8, <1>9 DEF Contiguous

(* What a line adds to the invariant when its tokens are the program's.    *)
LEMMA LineKeeps ==
  ASSUME TypeOK, Within, Dense, NEW count \in {1, 2, 5}, NEW length \in Nat,
         size' = size + length, n_token' = n_token + count,
         UNCHANGED << tokens, beyond >>,
         beyond = ZeroToken =>
           /\ n_token + count - 1 < Len(tokens)
           /\ ShortNumbers => length <= 31 * count
  PROVE  Within' /\ Dense'
<1>1. n_token \in Nat /\ size \in Nat /\ Len(tokens) \in Nat
  BY DEF TypeOK
<1>2. Within'
  BY <1>1 DEF Within
<1>3. ASSUME beyond' = ZeroToken, ShortNumbers' PROVE size' <= 31 * n_token'
  <2>1. ShortNumbers /\ beyond = ZeroToken
    BY <1>3 DEF ShortNumbers
  <2>2. size <= 31 * n_token /\ length <= 31 * count
    BY <2>1 DEF Dense
  <2> QED
    BY <1>1, <2>2
<1> QED
  BY <1>2, <1>3 DEF Dense

-----------------------------------------------------------------------------
(* The invariant.                                                          *)

LEMMA InitIInv == Init => IInv
<1> SUFFICES ASSUME Init PROVE IInv
  OBVIOUS
<1>1. tokens \in Seq(Token) /\ beyond \in Token
  BY ProgramsAssumption DEF Init
<1>2. TypeOK
  BY <1>1 DEF Init, TypeOK
<1>3. Within /\ Dense
  BY <1>1 DEF Init, Within, Dense
<1>4. Contiguous
  BY DEF Init, Contiguous
<1>5. Finished
  BY DEF Init, Finished
<1> QED
  BY <1>2, <1>3, <1>4, <1>5 DEF IInv

(* The parsers that leave the index where it is.                           *)
LEMMA NothingWritten ==
  ASSUME IInv, NoLine, UNCHANGED << tokens, beyond >>,
         phase' \in {"memory_indent", "memory_access", "cmd", "done"},
         phase' = "done" => n_token >= Len(tokens)
  PROVE  IInv'
BY DEF IInv, NoLine, TypeOK, Within, Dense, ShortNumbers, Contiguous, Finished

(* The parsers that write a line.                                          *)
LEMMA LineStep ==
  ASSUME IInv, NEW kind \in {"setting", "mem_block", "cmd"}, NEW count \in {1, 2, 5}, NEW length \in Nat,
         WriteLine(kind, count, length), n_token' = n_token + count,
         UNCHANGED << tokens, beyond >>,
         beyond = ZeroToken =>
           /\ n_token + count - 1 < Len(tokens)
           /\ ShortNumbers => length <= 31 * count,
         phase' \in {"memory_indent", "memory_access", "cmd", "done"},
         phase' = "done" => n_token' >= Len(tokens)
  PROVE  IInv'
<1>1. n_token' \in Nat /\ size' \in Nat /\ lines' \in Seq(Line) /\ Contiguous'
  BY LineWritten DEF IInv
<1>2. size' = size + length
  BY DEF WriteLine
<1>3. Within' /\ Dense'
  BY <1>2, LineKeeps DEF IInv
<1>4. TypeOK'
  BY <1>1 DEF IInv, TypeOK, Line
<1>5. Finished'
  BY DEF Finished
<1> QED
  BY <1>1, <1>3, <1>4, <1>5 DEF IInv

LEMMA BlockType ==
  ASSUME TypeOK
  PROVE  \A k \in 0..4 : n_token + k \in Nat /\ Block(k) \in Token
BY TokenAtType DEF TypeOK, Block

LEMMA NextIInv == IInv /\ [Next]_vars => IInv'
<1> SUFFICES ASSUME IInv, [Next]_vars PROVE IInv'
  OBVIOUS
<1>1. TypeOK /\ n_token \in Nat /\ tokens \in Seq(Token) /\ Len(tokens) \in Nat /\ beyond \in Token
  BY DEF IInv, TypeOK
<1>2. CASE parse_memory_indent
  <2>1. UNCHANGED << tokens, beyond >> /\ phase' = "memory_access"
    BY <1>2 DEF parse_memory_indent
  <2>2. CASE NoLine
    BY <2>1, <2>2, NothingWritten
  <2>3. CASE ~NoLine
    <3>1. /\ IsMemoryIndent /\ n_token' = n_token + 2
          /\ WriteLine("setting", 2, SettingLength(Block(0)))
      BY <1>2, <2>3 DEF parse_memory_indent
    <3>2. /\ SettingLength(Block(0)) \in Nat
          /\ Short(Block(0)) => SettingLength(Block(0)) <= 62
      BY <1>1, BlockType, SettingLengthType
    <3>3. ASSUME beyond = ZeroToken
          PROVE  n_token + 2 - 1 < Len(tokens) /\ (ShortNumbers => SettingLength(Block(0)) <= 31 * 2)
      <4>1. TokenAt(n_token + 0).my_cmd # 0 /\ TokenAt(n_token + 1).my_cmd # 0
        BY <3>1 DEF IsMemoryIndent, Block, CMD_MY_PUSH, CMD_MY_POP
      <4>2. n_token + 1 < Len(tokens) /\ (ShortNumbers => Short(Block(0)))
        BY <1>1, <3>3, <4>1, InsideTokens DEF Block
      <4> QED
        BY <1>1, <3>2, <4>2
    <3> QED
      BY <2>1, <3>1, <3>2, <3>3, LineStep
  <2> QED
    BY <2>2, <2>3
<1>3. CASE parse_memory_access_block
  <2>1. UNCHANGED << tokens, beyond >> /\ phase' = "cmd"
    BY <1>3 DEF parse_memory_access_block
  <2>2. CASE NoLine
    BY <2>1, <2>2, NothingWritten
  <2>3. CASE ~NoLine
    <3> DEFINE length == BlockLength(Block(4), Block(1).immed)
    <3>1. IsMemoryBlock /\ n_token' = n_token + 5 /\ WriteLine("mem_block", 5, length)
      BY <1>3, <2>3 DEF parse_memory_access_block
    <3>2. length \in Nat /\ (Short(Block(1)) => length <= 155)
      BY <1>1, BlockType, BlockLengthType
    <3> HIDE DEF length
    <3>3. ASSUME beyond = ZeroToken
          PROVE  n_token + 5 - 1 < Len(tokens) /\ (ShortNumbers => length <= 31 * 5)
      <4>1. TokenAt(n_token + 4).reg # 0
        BY <3>1 DEF IsMemoryBlock, BlockRegs, Block, RCX
      <4>2. n_token + 4 < Len(tokens)
        BY <1>1, <3>3, <4>1, InsideTokens
      <4>3. ShortNumbers => Short(Block(1))
        <5>1. n_token + 1 + 1 \in 1..Len(tokens) /\ Block(1) = tokens[n_token + 1 + 1]
          BY <1>1, <4>2 DEF Block, TokenAt
        <5> QED
          BY <5>1 DEF ShortNumbers, Short
      <4> QED
        BY <1>1, <3>2, <4>2, <4>3
    <3> QED
      BY <2>1, <3>1, <3>2, <3>3, LineStep
  <2> QED
    BY <2>2, <2>3
<1>4. CASE parse_cmd
  <2>1. /\ UNCHANGED << tokens, beyond >>
        /\ phase' = IF n_token' < Len(tokens) THEN "memory_indent" ELSE "done"
    BY <1>4 DEF parse_cmd, AfterRound
  <2>2. CASE NoLine
    <3>1. n_token' = n_token
      BY <2>2 DEF NoLine
    <3> QED
      BY <1>1, <2>1, <2>2, <3>1, NothingWritten
  <2>3. CASE ~NoLine
    <3>1. /\ Block(0).my_cmd \in TableCmds /\ n_token' = n_token + 1
          /\ WriteLine("cmd", 1, CmdLength(Block(0)))
      BY <1>4, <2>3 DEF parse_cmd
    <3>2. CmdLength(Block(0)) \in Nat /\ (Short(Block(0)) => CmdLength(Block(0)) <= 31)
      BY <1>1, BlockType, CmdLengthType
    <3>3. ASSUME beyond = ZeroToken
          PROVE  n_token + 1 - 1 < Len(tokens) /\ (ShortNumbers => CmdLength(Block(0)) <= 31 * 1)
      <4>1. 0 \notin TableCmds
        BY DEF TableCmds, MathCmds, JumpCmds, CondJmpCmds, CMD_MY_PUSH, CMD_MY_POP, CMD_MY_OUT, CMD_MY_IN,
           CMD_MY_HLT, CMD_MY_LABEL, CMD_MY_SQRT, CMD_MY_RET, CMD_MY_ADD, CMD_MY_SUB, CMD_MY_MUL,
           CMD_MY_DIV, CMD_MY_JB, CMD_MY_JBE, CMD_MY_JA, CMD_MY_JAE, CMD_MY_JE, CMD_MY_JNE,
           CMD_MY_JMP, CMD_MY_CALL
      <4>2. TokenAt(n_token + 0).my_cmd # 0
        BY <3>1, <4>1 DEF Block
      <4>3. n_token < Len(tokens) /\ (ShortNumbers => Short(Block(0)))
        BY <1>1, <3>3, <4>2, InsideTokens DEF Block
      <4> QED
        BY <1>1, <3>2, <4>3
    <3>4. phase' = "done" => n_token' >= Len(tokens)
      BY <1>1, <2>1, <3>1
    <3> QED
      BY <2>1, <3>1, <3>2, <3>3, <3>4, LineStep
  <2> QED
    BY <2>2, <2>3
<1>5. CASE UNCHANGED vars
  BY <1>5 DEF IInv, vars, TypeOK, Within, Dense, ShortNumbers, Contiguous, Finished
<1> QED
  BY <1>2, <1>3, <1>4, <1>5 DEF Next, Saved

-----------------------------------------------------------------------------

(* What the room and the lines rest on holds of every program.             *)
THEOREM Invariance == Spec => []IInv
BY InitIInv, NextIInv, PTL DEF Spec

(* The types hold of every program.                                        *)
THEOREM TypeCorrect == Spec => []TypeOK
<1>1. IInv => TypeOK
  BY DEF IInv
<1> QED
  BY <1>1, Invariance, PTL

(* save_tokens_in_text never writes past the text, whatever the program:   *)
(* 31 characters and a zero are the most a token of short numbers takes.   *)
THEOREM RoomForText == Spec => []TextFits
<1>1. ASSUME IInv PROVE TextFits
  <2>1. SUFFICES ASSUME ShortNumbers, beyond = ZeroToken, size > 0 PROVE size < Len(tokens) * 32
    BY DEF TextFits, capacity, AVERAGE_SIZE_OF_TOKEN_IN_CHARS
  <2>2. size <= 31 * n_token /\ n_token <= Len(tokens)
    BY <1>1, <2>1 DEF IInv, Dense, Within
  <2>3. size \in Nat /\ n_token \in Nat /\ Len(tokens) \in Nat
    BY <1>1 DEF IInv, TypeOK
  <2> QED
    BY <2>1, <2>2, <2>3
<1> QED
  BY <1>1, Invariance, PTL

(* However the three parsers cut it up, a completed text has every token   *)
(* of the program in exactly one line.                                     *)
THEOREM TokensInOneLine == Spec => []EveryTokenOnce
<1>1. ASSUME IInv PROVE EveryTokenOnce
  <2>1. SUFFICES ASSUME phase = "done", NEW k \in 0 .. Len(tokens) - 1
                 PROVE  \E n \in DOMAIN lines :
                          /\ k \in Covered(lines[n])
                          /\ \A m \in DOMAIN lines : m # n => k \notin Covered(lines[m])
    BY DEF EveryTokenOnce
  <2>2. n_token \in Nat /\ Len(tokens) \in Nat /\ lines \in Seq(Line)
    BY <1>1 DEF IInv, TypeOK, Line
  <2>3. k \in 0 .. n_token - 1
    BY <1>1, <2>1, <2>2 DEF IInv, Finished
  <2>4. PICK n \in DOMAIN lines : k \in Covered(lines[n])
    BY <1>1, <2>3 DEF IInv, Contiguous
  <2>5. ASSUME NEW m \in DOMAIN lines, m # n PROVE k \notin Covered(lines[m])
    <3>1. /\ lines[m].first \in Nat /\ EndOf(lines[m]) \in Nat
          /\ lines[n].first \in Nat /\ EndOf(lines[n]) \in Nat
          /\ lines[m] \in Line /\ lines[n] \in Line
      BY <2>2, LineType
    <3>2. m < n \/ n < m
      BY <2>2, <2>5
    <3>3. EndOf(lines[m]) <= lines[n].first \/ EndOf(lines[n]) <= lines[m].first
      BY <1>1, <3>2 DEF IInv, Contiguous
    <3>4. lines[n].first <= k /\ k < EndOf(lines[n])
      BY <2>4, <3>1, CoveredIs
    <3> QED
      BY <3>1, <3>3, <3>4, CoveredIs
  <2> QED
    BY <2>4, <2>5
<1> QED
  BY <1>1, Invariance, PTL

-----------------------------------------------------------------------------
(* The memory blocks.                                                      *)

(* Only a push or a pop names rbx or rcx: what the parser leaves (theorem  *)
(* RegistersOfStackCmds of TokenStreamProofs).                             *)
StackRegister(token) == token.reg \in {RBX, RCX} => token.my_cmd \in {CMD_MY_PUSH, CMD_MY_POP}

ParsedTokens ==
  /\ \A p \in Programs : \A k \in 1 .. Len(p) : StackRegister(p[k])
  /\ \A token \in BeyondTokens : StackRegister(token)

(* The tokens are the ones the parser handed over.                         *)
Given == tokens \in Programs /\ beyond \in BeyondTokens

LEMMA GivenKept ==
  /\ Init => Given
  /\ Given /\ [Next]_vars => Given'
<1>1. Init => Given
  BY DEF Init, Given
<1>2. Given /\ [Next]_vars => Given'
  BY DEF Given, Next, vars, parse_memory_indent, parse_memory_access_block, parse_cmd, Saved
<1> QED
  BY <1>1, <1>2

LEMMA BlockRegister ==
  ASSUME ParsedTokens, Given, TypeOK, NEW k \in Nat
  PROVE  StackRegister(Block(k))
<1>1. n_token + k \in Nat /\ tokens \in Seq(Token) /\ Len(tokens) \in Nat
  BY DEF TypeOK
<1>2. CASE n_token + k < Len(tokens)
  <2>1. Block(k) = tokens[n_token + k + 1] /\ n_token + k + 1 \in 1 .. Len(tokens)
    BY <1>1, <1>2 DEF Block, TokenAt
  <2> QED
    BY <2>1, Zenon DEF ParsedTokens, Given
<1>3. CASE ~(n_token + k < Len(tokens))
  <2>1. Block(k) = beyond
    BY <1>3 DEF Block, TokenAt
  <2> QED
    BY <2>1 DEF ParsedTokens, Given
<1> QED
  BY <1>2, <1>3

(* The conditions of the dump and of the translation for the same block    *)
(* are not the same; on tokens of the parser they tell the same blocks.    *)
THEOREM BlocksAreFolded == ParsedTokens /\ Spec => []BlocksAgree
<1>1. ASSUME ParsedTokens, Given, TypeOK PROVE BlocksAgree
  <2>1. /\ StackRegister(Block(3)) /\ StackRegister(Block(4))
        /\ RBX # RCX
    BY <1>1, BlockRegister DEF RBX, RCX
  <2>2. FoldedAt(n_token) <=>
          /\ Block(0).my_cmd = CMD_MY_PUSH /\ Block(0).reg = RBX
          /\ Block(1).use_immed \/ Block(2).use_immed
          /\ Block(3).my_cmd \in {CMD_MY_PUSH, CMD_MY_POP} /\ Block(3).reg = RCX
          /\ Block(4).my_cmd \in {CMD_MY_PUSH, CMD_MY_POP} /\ Block(4).reg = RCX
    <3>1. PICK look : look = [k \in 0..4 |-> TokenAt(n_token + k)]
      OBVIOUS
    <3>2. /\ look[0] = Block(0) /\ look[1] = Block(1) /\ look[2] = Block(2)
          /\ look[3] = Block(3) /\ look[4] = Block(4)
      BY <3>1 DEF Block
    <3>3. FoldedAt(n_token) <=> Translation!IsMemoryAccess(look)
      BY <3>1 DEF FoldedAt
    <3> QED
      BY <3>2, <3>3, SMT DEF Translation!IsMemoryAccess, Translation!CMD_MY_PUSH, Translation!CMD_MY_POP,
         Translation!RBX, Translation!RCX, CMD_MY_PUSH, CMD_MY_POP, RBX, RCX
  <2>3. ASSUME IsMemoryBlock, Block(0).my_cmd = CMD_MY_PUSH PROVE FoldedAt(n_token)
    BY <2>1, <2>2, <2>3, Zenon DEF IsMemoryBlock, BlockRegs, StackRegister
  <2>4. ASSUME FoldedAt(n_token), Block(1).use_immed, Block(2).my_cmd \in MathCmds,
               Block(4).mode = MODE_REG_ADDRESS
        PROVE  IsMemoryBlock
    BY <2>2, <2>4, Zenon DEF IsMemoryBlock, BlockRegs, NotTheBlock
  <2> QED
    BY <2>3, <2>4, Zenon DEF BlocksAgree
<1> DEFINE Kept == ParsedTokens /\ Given
<1>2. Kept /\ TypeOK => BlocksAgree
  BY <1>1
<1>3. ParsedTokens /\ Init => Kept
  BY GivenKept
<1>4. Kept /\ [Next]_vars => Kept'
  <2>1. ParsedTokens => ParsedTokens'
    BY DEF ParsedTokens
  <2> QED
    BY <2>1, GivenKept
<1> HIDE DEF Kept
<1>5. ParsedTokens /\ Spec => []Kept
  BY <1>3, <1>4, PTL DEF Spec
<1> QED
  BY <1>2, <1>5, TypeCorrect, PTL
=============================================================================
