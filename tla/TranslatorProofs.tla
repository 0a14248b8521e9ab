-------------------------- MODULE TranslatorProofs --------------------------
(***************************************************************************)
(* Translator for every program: the types, how much code there is, and    *)
(* the order of the label table; then the two linking passes, the patch of *)
(* the set-up and the return.  The passes find jumps by their bytes, so    *)
(* the proof keeps account of the bytes of each jump, from the token that  *)
(* leaves them to the pass that replaces its offset.                       *)
(***************************************************************************)
EXTENDS Translator, EncodingProofs, WellFoundedInduction

-----------------------------------------------------------------------------
(* The invariant.                                                          *)

(* Before the prolog nothing is there but an int3.                         *)
Start ==
  /\ phase = "prolog" => i = 0 /\ size <= 1 /\ labels = << >>
  /\ phase # "prolog" => size >= PROLOG_LENGTH

(* The table's entries come from labels the loop has passed.               *)
LabelsFromTokens ==
  phase = "tokens" =>
    \A n \in DOMAIN labels :
      \E j \in 1..Len(tokens) : /\ j <= i
                                /\ tokens[j].my_cmd = CMD_MY_LABEL
                                /\ tokens[j].offset = labels[n].my_address

IInv == TypeOK /\ IsProgram(tokens) /\ Start /\ SizeBound /\ LabelsFromTokens /\ LabelsOrdered

-----------------------------------------------------------------------------
(* What the actions write.                                                 *)

LEMMA Constants ==
  /\ PROLOG_LENGTH = 10 /\ MAX_TOKEN_CODE = 16 /\ JMP_LENGTH = 5
  /\ PrintDecimal \in Int /\ ScanDecimal \in Int /\ JitBuf \in Int /\ DataMemory \in Nat
BY ConstantsAssumption DEF PROLOG_LENGTH, MAX_TOKEN_CODE, JMP_LENGTH

LEMMA PasteType ==
  ASSUME NEW b \in [0 .. BufLen - 1 -> Byte], NEW at \in Nat, NEW bytes \in Seq(Byte)
  PROVE  Paste(b, at, bytes) \in [0 .. BufLen - 1 -> Byte]
<1>1. ASSUME NEW k \in 0 .. BufLen - 1, k \in at .. at + Len(bytes) - 1
      PROVE  bytes[k - at + 1] \in Byte
  <2>1. k - at + 1 \in 1..Len(bytes)
    BY <1>1
  <2> QED
    BY <2>1
<1> QED
  BY <1>1 DEF Paste

LEMMA WindowType ==
  ASSUME tokens \in Seq(Token), beyond \in Token, NEW n \in Nat
  PROVE  TokenAt(n) \in Token /\ Look(n) \in Window
<1>1. ASSUME NEW m \in Nat PROVE TokenAt(m) \in Token
  <2>1. CASE m < Len(tokens)
    <3>1. m + 1 \in 1..Len(tokens)
      BY <2>1
    <3> QED
      BY <2>1, <3>1 DEF TokenAt
  <2>2. CASE ~(m < Len(tokens))
    BY <2>2 DEF TokenAt
  <2> QED
    BY <2>1, <2>2
<1>2. \A k \in 0..4 : TokenAt(n + k) \in Token
  BY <1>1
<1> QED
  BY <1>1, <1>2 DEF Look, Window

LEMMA MovRegisterType ==
  ASSUME NEW v \in Nat
  PROVE  /\ encode_cmd(ImmedInfo(MOV, R15, v)) \in Seq(Byte)
         /\ Len(encode_cmd(ImmedInfo(MOV, R15, v))) = 6
<1> DEFINE info == ImmedInfo(MOV, R15, v)
<1>1. /\ info.cmd_encode = MOV /\ info.dest_reg = R15 /\ info.src_reg = INVALID_REG
      /\ info.immed_val = v /\ ~info.use_memory4src /\ ~info.use_memory4dest
  BY DEF ImmedInfo, RegInfo
<1> HIDE DEF info
<1>2. ~Exchanged(info) /\ IsHigh(info.dest_reg) /\ ~IsHigh(info.src_reg) /\ ~Wide(info)
  BY <1>1 DEF Exchanged, IsHigh, Wide, R15, RDI, INVALID_REG
<1>3. RmOperand(info) = 7 /\ RmOperand(info) # INVALID_REG /\ RegOperand(info) = INVALID_REG
  BY <1>1, <1>2 DEF RmOperand, RegOperand, Low, IsHigh, R15, R8, RDI, INVALID_REG
<1>4. Prefix(info) = << \h41 >>
  BY <1>2, Zenon DEF Prefix
<1>5. encode_cmd(info) = encode_mov(info)
  <2>1. MOV \in TwoOperandCmds /\ MOV \notin {PUSH, POP} /\ MOV # CALL /\ MOV # RET
    BY DEF TwoOperandCmds, MOV, PUSH, POP, CALL, RET
  <2> QED
    BY <1>1, <2>1, Zenon DEF encode_cmd, encode_two_operands_cmds
<1>6. v # -1
  OBVIOUS
<1>7. encode_mov(info) = Prefix(info) \o << \hB8 + RmOperand(info) >> \o Le32(v)
  BY <1>1, <1>3, <1>6, Zenon DEF encode_mov
<1>8. << \h41 >> \in BytesUpTo(1) /\ << \hB8 + 7 >> \in BytesUpTo(1)
  BY DEF BytesUpTo, Byte
<1>9. << \h41 >> \o << \hB8 + 7 >> \in BytesUpTo(2) /\ Len(<< \h41 >> \o << \hB8 + 7 >>) = 2
  BY <1>8 DEF BytesUpTo
<1>10. Le32(v) \in BytesUpTo(4) /\ Len(Le32(v)) = 4
  BY Le32Type
<1> DEFINE opcode == << \h41 >> \o << \hB8 + 7 >>
<1>11. opcode \in BytesUpTo(2) /\ Len(opcode) = 2
  BY <1>9
<1>12. encode_cmd(info) = opcode \o Le32(v)
  BY <1>3, <1>4, <1>5, <1>7
<1> HIDE DEF opcode
<1>13. opcode \o Le32(v) \in BytesUpTo(6) /\ Len(opcode \o Le32(v)) = 6
  <2>1. 2 \in Nat /\ 4 \in Nat /\ 2 + 4 = 6
    OBVIOUS
  <2>2. opcode \o Le32(v) \in BytesUpTo(2 + 4) /\ Len(opcode \o Le32(v)) = Len(opcode) + Len(Le32(v))
    BY <1>10, <1>11, <2>1, JoinedBytes, Zenon
  <2> QED
    BY <1>10, <1>11, <2>1, <2>2
<1> QED
  BY <1>12, <1>13 DEF info, BytesUpTo

(* mov r15 and nops up to byte 10, with or without int3 in front.          *)
LEMMA PrologType ==
  ASSUME tokens \in Seq(Token), NEW at \in 0..1
  PROVE  LET code == SetCallStack \o insert_nops(at + Len(SetCallStack), PROLOG_LENGTH)
         IN  code \in Seq(Byte) /\ at + Len(code) = PROLOG_LENGTH
<1>1. DataMemory + capacity - 8 \in Nat
  <2>1. capacity \in Nat
    BY DEF capacity
  <2> QED
    BY <2>1, ConstantsAssumption
<1>2. SetCallStack \in Seq(Byte) /\ Len(SetCallStack) = 6
  BY <1>1, MovRegisterType DEF SetCallStack
<1>3. insert_nops(at + 6, 10) = [k \in 1 .. 4 - at |-> NOP]
  BY DEF insert_nops
<1>4. 4 - at \in Nat /\ NOP \in Byte
  BY DEF NOP, Byte
<1>5. insert_nops(at + 6, 10) \in Seq(Byte) /\ Len(insert_nops(at + 6, 10)) = 4 - at
  BY <1>3, <1>4
<1> DEFINE nops == insert_nops(at + 6, 10)
<1>6. insert_nops(at + Len(SetCallStack), PROLOG_LENGTH) = nops
  BY <1>2 DEF PROLOG_LENGTH
<1>7. nops \in Seq(Byte) /\ Len(nops) = 4 - at
  BY <1>5
<1> HIDE DEF nops
<1>8. SetCallStack \o nops \in Seq(Byte) /\ at + Len(SetCallStack \o nops) = PROLOG_LENGTH
  <2>1. /\ SetCallStack \o nops \in Seq(Byte)
        /\ Len(SetCallStack \o nops) = Len(SetCallStack) + Len(nops)
    BY <1>2, <1>7, JoinedSeqs
  <2> QED
    BY <1>2, <1>7, <2>1 DEF PROLOG_LENGTH
<1> QED
  BY <1>6, <1>8

LEMMA SetDataBaseType == SetDataBase \in Seq(Byte)
<1>1. ImmedInfo(MOV, RBX, DataMemory) \in Infos(Int)
  <2>1. DataMemory \in Int /\ MOV \in TwoOperandCmds /\ RBX \in Regs
    BY Constants, SmallRegs DEF TwoOperandCmds
  <2> QED
    BY <2>1, ImmedInfoType, Zenon
<1> QED
  BY <1>1, CmdsFit DEF SetDataBase, BytesUpTo

(* The commands that leave a mark of their own are different commands.     *)
LEMMA MarkedCommands ==
  /\ CMD_MY_JMP # CMD_MY_CALL /\ CMD_MY_OUT # CMD_MY_IN
  /\ {CMD_MY_OUT, CMD_MY_IN} \cap {CMD_MY_JMP, CMD_MY_CALL} = {}
  /\ {CMD_MY_JMP, CMD_MY_CALL, CMD_MY_OUT, CMD_MY_IN} \cap CondJmpCmds = {}
BY DEF CMD_MY_JMP, CMD_MY_CALL, CMD_MY_OUT, CMD_MY_IN, CondJmpCmds,
       CMD_MY_JB, CMD_MY_JBE, CMD_MY_JA, CMD_MY_JAE, CMD_MY_JE, CMD_MY_JNE

LEMMA SitesType ==
  ASSUME NEW token \in Token, NEW at \in Nat
  PROVE  SitesOf(token, at) \subseteq Site
<1> DEFINE cmd   == token.my_cmd
           far(f) == f - (JitBuf + at + JMP_LENGTH)
<1>1. token.offset \in Int /\ far(PrintDecimal) \in Int /\ far(ScanDecimal) \in Int
  BY TokenFields, Constants
<1>2. /\ {[at |-> at, kind |-> "jmp", target |-> token.offset]} \subseteq Site
      /\ {[at |-> at + 11, kind |-> "jmp", target |-> token.offset]} \subseteq Site
      /\ {[at |-> at + 5, kind |-> "cond", target |-> token.offset]} \subseteq Site
      /\ {[at |-> at + 1, kind |-> "external", target |-> far(PrintDecimal)]} \subseteq Site
      /\ {[at |-> at, kind |-> "external", target |-> far(ScanDecimal)]} \subseteq Site
  BY <1>1 DEF Site
<1>3. CASE cmd = CMD_MY_JMP
  BY <1>2, <1>3, MarkedCommands, Zenon DEF SitesOf
<1>4. CASE cmd = CMD_MY_CALL
  BY <1>2, <1>4, MarkedCommands, Zenon DEF SitesOf
<1>5. CASE cmd \in CondJmpCmds
  BY <1>2, <1>5, MarkedCommands, Zenon DEF SitesOf
<1>6. CASE cmd = CMD_MY_OUT
  BY <1>2, <1>6, MarkedCommands, Zenon DEF SitesOf
<1>7. CASE cmd = CMD_MY_IN
  BY <1>2, <1>7, MarkedCommands, Zenon DEF SitesOf
<1>8. CASE cmd \notin {CMD_MY_JMP, CMD_MY_CALL, CMD_MY_OUT, CMD_MY_IN} \cup CondJmpCmds
  <2>1. SitesOf(token, at) = {}
    BY <1>8, Zenon DEF SitesOf
  <2> QED
    BY <2>1
<1> QED
  BY <1>3, <1>4, <1>5, <1>6, <1>7, <1>8

(* The table has one entry at most for an offset, so a search finds it.    *)
LEMMA FindLabelType ==
  ASSUME labels \in Seq(Label), LabelsOrdered, NEW offset, HasLabel(offset)
  PROVE  NewAddress(offset) \in Nat /\ NewAddress(offset) \in PROLOG_LENGTH .. size
<1>1. PICK n \in DOMAIN labels : labels[n].my_address = offset
  BY DEF HasLabel
<1>2. ASSUME NEW m \in DOMAIN labels, labels[m].my_address = offset PROVE m = n
  <2>1. /\ m < n => labels[m].my_address < labels[n].my_address
        /\ n < m => labels[n].my_address < labels[m].my_address
    BY DEF LabelsOrdered
  <2>2. m \in Int /\ n \in Int /\ labels[n] \in Label /\ labels[m] \in Label
    OBVIOUS
  <2>3. labels[n].my_address \in Int /\ labels[m].my_address \in Int
    BY <2>2 DEF Label
  <2> QED
    BY <1>1, <1>2, <2>1, <2>2, <2>3
<1>3. find_label(offset) \in DOMAIN labels
  <2>1. n \in Int
    OBVIOUS
  <2>2. /\ labels[n].my_address = offset
        /\ \A m \in DOMAIN labels : labels[m].my_address = offset => n <= m
    BY <1>1, <1>2, <2>1
  <2> QED
    BY <2>2, Zenon DEF find_label
<1>4. labels[find_label(offset)] \in Label
  BY <1>3
<1>5. labels[find_label(offset)].new_address \in PROLOG_LENGTH .. size
  BY <1>3 DEF LabelsOrdered
<1> QED
  BY <1>4, <1>5 DEF NewAddress, Label

-----------------------------------------------------------------------------
(* The steps.                                                              *)

LEMMA InitIInv == Init => IInv
<1> SUFFICES ASSUME Init PROVE IInv
  OBVIOUS
<1>1. IsProgram(tokens) /\ tokens \in Seq(Token) /\ Len(tokens) \in Nat
  BY ProgramsAssumption DEF Init, IsProgram
<1>2. TypeOK
  <2>1. buf \in [0 .. BufLen - 1 -> Byte]
    <3>1. PICK heap \in HeapBytes :
            buf = [k \in 0 .. BufLen - 1 |->
                     IF k = 0 /\ RunWithInt3 THEN INT3 ELSE IF k < capacity THEN RET_BYTE ELSE heap]
      BY DEF Init
    <3>2. heap \in Byte /\ INT3 \in Byte /\ RET_BYTE \in Byte
      BY ConstantsAssumption DEF INT3, RET_BYTE, Byte
    <3> QED
      BY <3>1, <3>2
  <2>2. beyond \in Token /\ size \in Nat
    BY ConstantsAssumption DEF Init
  <2>3. labels \in Seq(Label) /\ phase \in Phases /\ i \in Nat /\ sites \subseteq Site /\ stray \subseteq Nat
    BY DEF Init, Phases
  <2> QED
    BY <1>1, <2>1, <2>2, <2>3 DEF TypeOK
<1>3. Start
  BY DEF Init, Start
<1>4. SizeBound
  <2>1. size <= 1 /\ size \in Nat /\ phase = "prolog"
    BY DEF Init
  <2> QED
    BY <1>1, <2>1 DEF SizeBound, PROLOG_LENGTH, MAX_TOKEN_CODE
<1>5. LabelsFromTokens /\ LabelsOrdered
  BY DEF Init, LabelsFromTokens, LabelsOrdered
<1> QED
  BY <1>1, <1>2, <1>3, <1>4, <1>5 DEF IInv

LEMMA PrologStep == IInv /\ Prolog => IInv'
<1> SUFFICES ASSUME IInv, Prolog PROVE IInv'
  OBVIOUS
<1> DEFINE code == SetCallStack \o insert_nops(size + Len(SetCallStack), PROLOG_LENGTH)
<1>1. TypeOK /\ tokens \in Seq(Token) /\ size \in 0..1 /\ i = 0 /\ labels = << >> /\ Len(tokens) \in Nat
  BY DEF IInv, TypeOK, Start, Prolog
<1>2. code \in Seq(Byte) /\ size + Len(code) = PROLOG_LENGTH
  BY <1>1, PrologType
<1>3. buf' = Paste(buf, size, code) /\ size' = PROLOG_LENGTH
  BY <1>2 DEF Prolog
<1> HIDE DEF code
<1>4. UNCHANGED << tokens, beyond, i, labels, sites, stray >> /\ phase' = "tokens"
  BY DEF Prolog
<1>5. buf' \in [0 .. BufLen - 1 -> Byte]
  BY <1>1, <1>2, <1>3, PasteType DEF TypeOK
<1>6. TypeOK'
  BY <1>1, <1>3, <1>4, <1>5 DEF TypeOK, Phases, PROLOG_LENGTH
<1>7. SizeBound'
  BY <1>1, <1>3, <1>4 DEF SizeBound, PROLOG_LENGTH, MAX_TOKEN_CODE
<1>8. Start' /\ LabelsFromTokens' /\ LabelsOrdered'
  BY <1>1, <1>3, <1>4 DEF Start, LabelsFromTokens, LabelsOrdered, PROLOG_LENGTH
<1>9. IsProgram(tokens')
  BY <1>4 DEF IInv
<1> QED
  BY <1>6, <1>7, <1>8, <1>9 DEF IInv

LEMMA BytesLength ==
  ASSUME NEW n \in Nat, NEW bytes \in BytesUpTo(n)
  PROVE  bytes \in Seq(Byte) /\ Len(bytes) \in Nat /\ Len(bytes) <= n
BY DEF BytesUpTo

(* One more token, at most 16 more bytes.                                  *)
LEMMA RoomGrows ==
  ASSUME NEW n \in Nat, NEW more \in Nat, more <= 16, NEW k \in Nat, NEW next \in Nat, next > k,
         n <= 10 + 16 * k
  PROVE  n + more \in Nat /\ n + more >= n /\ n + more <= 10 + 16 * next
OBVIOUS

(* A round of the loop that appends the code of a fold or of a token.      *)
LEMMA EmitStep ==
  ASSUME IInv, phase = "tokens", i < Len(tokens),
         NEW bytes \in BytesUpTo(16), Emit(bytes),
         i' \in Nat, i' > i, UNCHANGED << tokens, beyond, labels, phase, stray >>,
         sites' \subseteq Site
  PROVE  IInv'
<1>1. TypeOK /\ size \in Nat /\ i \in Nat /\ Len(tokens) \in Nat /\ size >= 10
  BY DEF IInv, TypeOK, Start, PROLOG_LENGTH
<1>2. bytes \in Seq(Byte) /\ Len(bytes) \in Nat /\ Len(bytes) <= 16
  BY BytesLength
<1>3. size' = size + Len(bytes) /\ buf' = Paste(buf, size, bytes)
  BY DEF Emit
<1>4. /\ size' \in Nat /\ size' >= size
      /\ size' <= 10 + 16 * i' /\ size' <= 10 + 16 * Len(tokens)
  <2>1. size <= 10 + 16 * i
    BY <1>1 DEF IInv, SizeBound, PROLOG_LENGTH, MAX_TOKEN_CODE
  <2> QED
    BY <1>1, <1>2, <1>3, <2>1, RoomGrows
<1>5. TypeOK'
  <2>1. buf' \in [0 .. BufLen - 1 -> Byte]
    BY <1>1, <1>2, <1>3, PasteType DEF TypeOK
  <2> QED
    BY <1>1, <1>4, <2>1 DEF TypeOK
<1>6. SizeBound'
  <2>1. phase' = "tokens" /\ tokens' = tokens
    OBVIOUS
  <2> DEFINE consumed == IF i' < Len(tokens) THEN i' ELSE Len(tokens)
  <2>2. consumed \in Nat /\ size' <= 10 + 16 * consumed
    BY <1>1, <1>4
  <2>3. SizeBound' <=> size' <= 10 + 16 * consumed + 0
    BY <2>1 DEF SizeBound, PROLOG_LENGTH, MAX_TOKEN_CODE
  <2> HIDE DEF consumed
  <2>4. 10 + 16 * consumed + 0 = 10 + 16 * consumed
    BY <2>2
  <2> QED
    BY <2>2, <2>3, <2>4
<1>7. Start'
  BY <1>1, <1>4 DEF Start, PROLOG_LENGTH
<1>8. LabelsFromTokens'
  <2>1. ASSUME NEW n \in DOMAIN labels
        PROVE  \E j \in 1..Len(tokens) : /\ j <= i'
                                         /\ tokens[j].my_cmd = CMD_MY_LABEL
                                         /\ tokens[j].offset = labels[n].my_address
    <3>1. PICK j \in 1..Len(tokens) : /\ j <= i
                                      /\ tokens[j].my_cmd = CMD_MY_LABEL
                                      /\ tokens[j].offset = labels[n].my_address
      BY DEF IInv, LabelsFromTokens
    <3>2. j <= i'
      BY <1>1, <3>1
    <3> QED
      BY <3>1, <3>2
  <2> QED
    BY <2>1 DEF LabelsFromTokens
<1>9. LabelsOrdered'
  <2>1. ASSUME NEW n \in DOMAIN labels PROVE labels[n].new_address \in PROLOG_LENGTH .. size'
    <3>1. labels[n].new_address \in PROLOG_LENGTH .. size
      BY DEF IInv, LabelsOrdered
    <3> QED
      BY <1>1, <1>4, <3>1 DEF PROLOG_LENGTH
  <2> QED
    BY <2>1 DEF IInv, LabelsOrdered
<1>10. IsProgram(tokens')
  BY DEF IInv
<1> QED
  BY <1>5, <1>6, <1>7, <1>8, <1>9, <1>10 DEF IInv

LEMMA FoldTokensStep == IInv /\ FoldTokens => IInv'
<1> SUFFICES ASSUME IInv, FoldTokens PROVE IInv'
  OBVIOUS
<1>1. i \in Nat /\ tokens \in Seq(Token) /\ beyond \in Token /\ sites \subseteq Site
  BY DEF IInv, TypeOK
<1>2. Look(i) \in Window
  BY <1>1, WindowType
<1>3. Fold_i.bytes \in BytesUpTo(16) /\ Fold_i.skip \in {0, 1, 2, 3, 5}
  BY <1>2, FoldsFit DEF Fold_i
<1>4. /\ phase = "tokens" /\ i < Len(tokens) /\ Fold_i.skip > 0
      /\ Emit(Fold_i.bytes) /\ i' = i + Fold_i.skip
      /\ UNCHANGED << tokens, beyond, labels, phase, sites, stray >>
  BY DEF FoldTokens
<1>5. i' \in Nat /\ i' > i
  BY <1>1, <1>3, <1>4
<1> QED
  BY <1>1, <1>3, <1>4, <1>5, EmitStep

LEMMA AssembleTokenStep == IInv /\ AssembleToken => IInv'
<1> SUFFICES ASSUME IInv, AssembleToken PROVE IInv'
  OBVIOUS
<1>1. i \in Nat /\ tokens \in Seq(Token) /\ beyond \in Token /\ sites \subseteq Site /\ size \in Nat
  BY DEF IInv, TypeOK
<1>2. TokenAt(i) \in Token
  BY <1>1, WindowType
<1>3. x86_cmd_ctor(TokenAt(i), JitBuf + size) \in BytesUpTo(16)
  <2>1. JitBuf + size \in Nat
    BY <1>1, ConstantsAssumption
  <2> QED
    BY <1>2, <2>1, Constants, TokensFit16
<1>4. /\ phase = "tokens" /\ i < Len(tokens)
      /\ Emit(x86_cmd_ctor(TokenAt(i), JitBuf + size)) /\ i' = i + 1
      /\ sites' = sites \cup SitesOf(TokenAt(i), size)
      /\ UNCHANGED << tokens, beyond, labels, phase, stray >>
  BY DEF AssembleToken
<1>5. i' \in Nat /\ i' > i
  BY <1>1, <1>4
<1>6. sites' \subseteq Site
  BY <1>1, <1>2, <1>4, SitesType
<1> QED
  BY <1>3, <1>4, <1>5, <1>6, EmitStep

LEMMA RoomOfAll ==
  ASSUME IInv, phase # "ready"
  PROVE  size <= 10 + 16 * Len(tokens)
<1>1. size \in Nat /\ i \in Nat /\ Len(tokens) \in Nat
  BY DEF IInv, TypeOK
<1> DEFINE consumed == IF phase = "tokens" /\ i < Len(tokens) THEN i ELSE Len(tokens)
<1>2. size <= 10 + 16 * consumed + 0
  BY DEF IInv, SizeBound, PROLOG_LENGTH, MAX_TOKEN_CODE
<1>3. consumed \in Nat /\ consumed <= Len(tokens)
  BY <1>1
<1> HIDE DEF consumed
<1> QED
  BY <1>1, <1>2, <1>3

(* The steps after the loop that append nothing.                           *)
LEMMA QuietStep ==
  ASSUME IInv, phase \notin {"prolog", "ready"}, phase' \in Phases \ {"prolog", "tokens", "ready"},
         UNCHANGED << tokens, beyond, size, labels >>,
         buf' \in [0 .. BufLen - 1 -> Byte], i' \in Nat, sites' \subseteq Site, stray' \subseteq Nat
  PROVE  IInv'
<1>1. TypeOK'
  BY DEF IInv, TypeOK
<1>2. IsProgram(tokens') /\ Start' /\ LabelsFromTokens'
  BY DEF IInv, Start, LabelsFromTokens
<1>3. LabelsOrdered'
  BY DEF IInv, LabelsOrdered
<1>4. SizeBound'
  <2>1. size <= 10 + 16 * Len(tokens) /\ Len(tokens) \in Nat
    BY RoomOfAll DEF IInv, TypeOK
  <2>2. phase' # "tokens" /\ phase' # "ready" /\ size' = size /\ tokens' = tokens
    OBVIOUS
  <2>3. SizeBound' <=> size <= 10 + 16 * Len(tokens) + 0
    BY <2>2 DEF SizeBound, PROLOG_LENGTH, MAX_TOKEN_CODE
  <2>4. 10 + 16 * Len(tokens) + 0 = 10 + 16 * Len(tokens)
    BY <2>1
  <2> QED
    BY <2>1, <2>3, <2>4
<1> QED
  BY <1>1, <1>2, <1>3, <1>4 DEF IInv

LEMMA InsertLabelStep == IInv /\ InsertLabel => IInv'
<1> SUFFICES ASSUME IInv, InsertLabel PROVE IInv'
  OBVIOUS
<1>1. /\ TypeOK /\ size \in Nat /\ i \in Nat /\ tokens \in Seq(Token) /\ Len(tokens) \in Nat
      /\ labels \in Seq(Label) /\ Len(labels) \in Nat
  BY DEF IInv, TypeOK
<1>2. /\ phase = "tokens" /\ i < Len(tokens) /\ i' = i + 1 /\ TokenAt(i).my_cmd = CMD_MY_LABEL
      /\ UNCHANGED << tokens, beyond, buf, size, sites, stray >>
  BY DEF InsertLabel
<1>3. i + 1 \in 1..Len(tokens) /\ TokenAt(i) = tokens[i + 1] /\ tokens[i + 1] \in Token
  BY <1>1, <1>2 DEF TokenAt
<1>4. CASE phase' = "label_overflow" /\ UNCHANGED labels
  <2>1. /\ phase' \in Phases \ {"prolog", "tokens", "ready"} /\ i' \in Nat
        /\ buf' \in [0 .. BufLen - 1 -> Byte] /\ sites' \subseteq Site /\ stray' \subseteq Nat
    BY <1>1, <1>2, <1>4 DEF Phases, TypeOK
  <2> QED
    BY <1>2, <1>4, <2>1, QuietStep
<1>5. CASE labels' = insert_label(TokenAt(i)) /\ UNCHANGED phase
  <2> DEFINE new == [my_address |-> tokens[i + 1].offset, new_address |-> size]
  <2>1. labels' = Append(labels, new)
    BY <1>3, <1>5 DEF insert_label, LabelOf
  <2>2. /\ new \in Label
        /\ new.my_address = tokens[i + 1].offset /\ new.new_address = size
    BY <1>1, <1>3, TokenFields DEF Label
  <2> HIDE DEF new
  <2>3. /\ labels' \in Seq(Label) /\ DOMAIN labels' = 1 .. Len(labels) + 1 /\ DOMAIN labels = 1..Len(labels)
        /\ labels'[Len(labels) + 1] = new
        /\ \A n \in DOMAIN labels : labels'[n] = labels[n]
    <3>1. labels' \in Seq(Label) /\ Len(labels') = Len(labels) + 1
      BY <1>1, <2>1, <2>2
    <3>2. labels'[Len(labels) + 1] = new
      BY <1>1, <2>1, <2>2
    <3>3. \A n \in DOMAIN labels : labels'[n] = labels[n]
      BY <1>1, <2>1, <2>2
    <3> QED
      BY <1>1, <3>1, <3>2, <3>3
  <2>4. TypeOK'
    BY <1>1, <1>2, <1>5, <2>3 DEF TypeOK
  <2>5. SizeBound'
    <3> DEFINE consumed == IF i + 1 < Len(tokens) THEN i + 1 ELSE Len(tokens)
    <3>1. size <= 10 + 16 * i + 0
      BY <1>1, <1>2 DEF IInv, SizeBound, PROLOG_LENGTH, MAX_TOKEN_CODE
    <3>2. consumed \in Nat /\ i <= consumed
      BY <1>1, <1>2
    <3>3. SizeBound' <=> size <= 10 + 16 * consumed + 0
      BY <1>2, <1>5 DEF SizeBound, PROLOG_LENGTH, MAX_TOKEN_CODE
    <3> HIDE DEF consumed
    <3>4. size <= 10 + 16 * consumed + 0
      BY <1>1, <3>1, <3>2
    <3> QED
      BY <3>3, <3>4
  <2>6. Start'
    BY <1>2, <1>5 DEF IInv, Start
  <2>7. ASSUME NEW n \in DOMAIN labels
        PROVE  \E j \in 1..Len(tokens) : /\ j <= i
                                         /\ tokens[j].my_cmd = CMD_MY_LABEL
                                         /\ tokens[j].offset = labels[n].my_address
    BY <1>2 DEF IInv, LabelsFromTokens
  <2>8. LabelsFromTokens'
    <3>1. ASSUME NEW n \in DOMAIN labels'
          PROVE  \E j \in 1..Len(tokens) : /\ j <= i + 1
                                           /\ tokens[j].my_cmd = CMD_MY_LABEL
                                           /\ tokens[j].offset = labels'[n].my_address
      <4>1. CASE n \in DOMAIN labels
        <5>1. PICK j \in 1..Len(tokens) : /\ j <= i
                                          /\ tokens[j].my_cmd = CMD_MY_LABEL
                                          /\ tokens[j].offset = labels[n].my_address
          BY <2>7, <4>1
        <5>2. j <= i + 1
          BY <1>1, <5>1
        <5> QED
          BY <2>3, <4>1, <5>1, <5>2
      <4>2. CASE n = Len(labels) + 1
        <5>1. i + 1 <= i + 1
          BY <1>1
        <5> QED
          BY <1>2, <1>3, <2>2, <2>3, <4>2, <5>1
      <4> QED
        BY <1>1, <2>3, <4>1, <4>2
    <3> QED
      BY <1>2, <3>1 DEF LabelsFromTokens
  <2>9. ASSUME NEW m \in DOMAIN labels'
        PROVE  labels'[m].new_address \in PROLOG_LENGTH .. size
    <3>1. CASE m \in DOMAIN labels
      BY <2>3, <3>1 DEF IInv, LabelsOrdered
    <3>2. CASE m = Len(labels) + 1
      <4>1. PROLOG_LENGTH \in Nat /\ PROLOG_LENGTH <= size
        BY <1>1, <1>2 DEF IInv, Start, PROLOG_LENGTH
      <4>2. size \in PROLOG_LENGTH .. size
        BY <1>1, <4>1
      <4> QED
        BY <2>2, <2>3, <3>2, <4>2
    <3> QED
      BY <1>1, <2>3, <3>1, <3>2
  <2>10. ASSUME NEW m \in DOMAIN labels', NEW n \in DOMAIN labels', m < n
         PROVE  /\ labels'[m].my_address < labels'[n].my_address
                /\ labels'[m].new_address <= labels'[n].new_address
    <3>1. m \in DOMAIN labels
      BY <1>1, <2>3, <2>10
    <3>2. CASE n \in DOMAIN labels
      BY <2>3, <2>10, <3>1, <3>2 DEF IInv, LabelsOrdered
    <3>3. CASE n = Len(labels) + 1
      <4>1. PICK j \in 1..Len(tokens) : /\ j <= i
                                        /\ tokens[j].my_cmd = CMD_MY_LABEL
                                        /\ tokens[j].offset = labels[m].my_address
        BY <2>7, <3>1
      <4>2. j < i + 1
        BY <1>1, <4>1
      <4>3. tokens[j].offset < tokens[i + 1].offset
        BY <1>2, <1>3, <4>1, <4>2 DEF IInv, IsProgram
      <4>4. labels[m].new_address <= size
        BY <1>1, <3>1 DEF IInv, LabelsOrdered, PROLOG_LENGTH
      <4> QED
        BY <2>2, <2>3, <3>1, <3>3, <4>1, <4>3, <4>4
    <3> QED
      BY <1>1, <2>3, <3>2, <3>3
  <2>11. LabelsOrdered'
    BY <1>2, <2>9, <2>10 DEF LabelsOrdered
  <2>12. IsProgram(tokens')
    BY <1>2 DEF IInv
  <2> QED
    BY <2>4, <2>5, <2>6, <2>8, <2>11, <2>12 DEF IInv
<1> QED
  BY <1>4, <1>5 DEF InsertLabel

LEMMA EndOfTokensStep == IInv /\ EndOfTokens => IInv'
<1> SUFFICES ASSUME IInv, EndOfTokens PROVE IInv'
  OBVIOUS
<1>1. /\ phase = "tokens" /\ phase' = "cond_jmps" /\ i' = 0
      /\ UNCHANGED << tokens, beyond, buf, size, labels, sites >>
  BY DEF EndOfTokens
<1>2. stray' \subseteq Nat
  <2>1. size \in Nat
    BY DEF IInv, TypeOK
  <2>2. stray' \subseteq 0 .. size - 1
    BY DEF EndOfTokens
  <2> QED
    BY <2>1, <2>2
<1>3. /\ phase' \in Phases \ {"prolog", "tokens", "ready"} /\ i' \in Nat
      /\ buf' \in [0 .. BufLen - 1 -> Byte] /\ sites' \subseteq Site
  BY <1>1 DEF Phases, IInv, TypeOK
<1> QED
  BY <1>1, <1>2, <1>3, QuietStep

(* A displacement is four bytes, whatever the label's address.             *)
LEMMA PatchType ==
  ASSUME IInv, NEW k \in Nat, NEW n \in 1..2, NEW offset, HasLabel(offset), Patch(k, n, offset)
  PROVE  buf' \in [0 .. BufLen - 1 -> Byte]
<1>1. NewAddress(offset) \in Nat
  BY FindLabelType DEF IInv, TypeOK
<1> DEFINE d == NewAddress(offset) - (k + n - 1 + JMP_LENGTH)
<1>2. d \in Int
  BY <1>1 DEF JMP_LENGTH
<1>3. buf' = Paste(buf, k + n, Le32(d))
  BY DEF Patch
<1> HIDE DEF d
<1>4. Le32(d) \in Seq(Byte)
  BY <1>2, Le32Type, BytesLength
<1>5. k + n \in Nat /\ buf \in [0 .. BufLen - 1 -> Byte]
  BY DEF IInv, TypeOK
<1> QED
  BY <1>3, <1>4, <1>5, PasteType

LEMMA PatchConditionalJmpStep == IInv /\ PatchConditionalJmp => IInv'
<1> SUFFICES ASSUME IInv, PatchConditionalJmp PROVE IInv'
  OBVIOUS
<1>1. i \in Nat /\ size \in Nat /\ sites \subseteq Site /\ stray \subseteq Nat
  BY DEF IInv, TypeOK
<1>2. PICK k \in i .. size - 1 :
        HasLabel(CondOffset(k)) /\ Patch(k, 2, CondOffset(k)) /\ i' = k + 5
  BY DEF PatchConditionalJmp
<1>3. phase = "cond_jmps" /\ UNCHANGED << tokens, beyond, size, labels, phase, sites, stray >>
  BY DEF PatchConditionalJmp
<1>4. k \in Nat /\ 2 \in 1..2 /\ i' \in Nat
  BY <1>1, <1>2
<1>5. buf' \in [0 .. BufLen - 1 -> Byte]
  BY <1>2, <1>4, PatchType
<1>6. phase' \in Phases \ {"prolog", "tokens", "ready"}
  BY <1>3 DEF Phases
<1> QED
  BY <1>1, <1>3, <1>4, <1>5, <1>6, QuietStep

LEMMA PatchJmpStep == IInv /\ PatchJmp => IInv'
<1> SUFFICES ASSUME IInv, PatchJmp PROVE IInv'
  OBVIOUS
<1>1. i \in Nat /\ size \in Nat /\ sites \subseteq Site /\ stray \subseteq Nat
  BY DEF IInv, TypeOK
<1>2. PICK k \in i .. size - 1 :
        HasLabel(JmpOffset(k)) /\ Patch(k, 1, JmpOffset(k)) /\ i' = k + 5
  BY DEF PatchJmp
<1>3. phase = "calls_jmps" /\ UNCHANGED << tokens, beyond, size, labels, phase, sites, stray >>
  BY DEF PatchJmp
<1>4. k \in Nat /\ 1 \in 1..2 /\ i' \in Nat
  BY <1>1, <1>2
<1>5. buf' \in [0 .. BufLen - 1 -> Byte]
  BY <1>2, <1>4, PatchType
<1>6. phase' \in Phases \ {"prolog", "tokens", "ready"}
  BY <1>3 DEF Phases
<1> QED
  BY <1>1, <1>3, <1>4, <1>5, <1>6, QuietStep

(* The steps that only move on.                                            *)
LEMMA ScanStep ==
  IInv /\ (EndConditionalJmps \/ SkipJmp \/ EndCallsJmps \/ SearchPopRbxForever) => IInv'
<1> SUFFICES ASSUME IInv, EndConditionalJmps \/ SkipJmp \/ EndCallsJmps \/ SearchPopRbxForever
             PROVE  IInv'
  OBVIOUS
<1>1. /\ i \in Nat /\ size \in Nat /\ buf \in [0 .. BufLen - 1 -> Byte]
      /\ sites \subseteq Site /\ stray \subseteq Nat
  BY DEF IInv, TypeOK
<1>2. UNCHANGED << tokens, beyond, buf, size, labels, sites, stray >>
  BY DEF EndConditionalJmps, SkipJmp, EndCallsJmps, SearchPopRbxForever
<1>3. i' \in Nat
  <2>1. CASE SkipJmp
    <3>1. PICK k \in i .. size - 1 : i' = k + 1
      BY <2>1 DEF SkipJmp
    <3> QED
      BY <1>1, <3>1
  <2> QED
    BY <1>1, <2>1 DEF EndConditionalJmps, EndCallsJmps, SearchPopRbxForever
<1>4. phase \notin {"prolog", "ready"} /\ phase' \in Phases \ {"prolog", "tokens", "ready"}
  BY DEF EndConditionalJmps, SkipJmp, EndCallsJmps, SearchPopRbxForever, Phases
<1> QED
  BY <1>1, <1>2, <1>3, <1>4, QuietStep

LEMMA ChangeMemoryOffsetStep == IInv /\ ChangeMemoryOffset => IInv'
<1> SUFFICES ASSUME IInv, ChangeMemoryOffset PROVE IInv'
  OBVIOUS
<1>1. /\ i \in Nat /\ size \in Nat /\ buf \in [0 .. BufLen - 1 -> Byte]
      /\ sites \subseteq Site /\ stray \subseteq Nat
  BY DEF IInv, TypeOK
<1>2. /\ phase = "memory_offset" /\ phase' = "return_value"
      /\ UNCHANGED << tokens, beyond, i, size, labels, sites, stray >>
  BY DEF ChangeMemoryOffset
<1>3. buf' \in [0 .. BufLen - 1 -> Byte]
  <2> DEFINE last == byte_after_first_pop - 1
  <2>1. buf' = [k \in DOMAIN buf |->
                  IF k \in 7 .. 6 + Len(SetDataBase) THEN SetDataBase[k - 6]
                  ELSE IF k \in 7 + Len(SetDataBase) .. last THEN NOP
                  ELSE buf[k]]
    BY DEF ChangeMemoryOffset
  <2> HIDE DEF last
  <2>2. NOP \in Byte
    BY DEF NOP, Byte
  <2>3. ASSUME NEW k \in 7 .. 6 + Len(SetDataBase) PROVE SetDataBase[k - 6] \in Byte
    <3>1. SetDataBase \in Seq(Byte) /\ Len(SetDataBase) \in Nat
      BY SetDataBaseType
    <3>2. k - 6 \in 1..Len(SetDataBase)
      BY <3>1
    <3> QED
      BY <3>1, <3>2
  <2> QED
    BY <1>1, <2>1, <2>2, <2>3
<1>4. phase' \in Phases \ {"prolog", "tokens", "ready"}
  BY <1>2 DEF Phases
<1> QED
  BY <1>1, <1>2, <1>3, <1>4, QuietStep

LEMMA ChangeReturnValueStep == IInv /\ ChangeReturnValue => IInv'
<1> SUFFICES ASSUME IInv, ChangeReturnValue PROVE IInv'
  OBVIOUS
<1>1. TypeOK /\ size \in Nat /\ Len(tokens) \in Nat /\ size >= 10
  BY DEF IInv, TypeOK, Start, ChangeReturnValue, PROLOG_LENGTH
<1>2. /\ phase = "return_value" /\ phase' = "ready" /\ Emit(POP_RAX)
      /\ UNCHANGED << tokens, beyond, i, labels, sites, stray >>
  BY DEF ChangeReturnValue
<1>3. POP_RAX \in Seq(Byte) /\ Len(POP_RAX) = 1
  BY DEF POP_RAX, Byte
<1>4. size' = size + 1 /\ buf' \in [0 .. BufLen - 1 -> Byte]
  <2>1. size' = size + Len(POP_RAX) /\ buf' = Paste(buf, size, POP_RAX)
    BY <1>2 DEF Emit
  <2> QED
    BY <1>1, <1>3, <2>1, PasteType DEF TypeOK
<1>5. TypeOK'
  BY <1>1, <1>2, <1>4 DEF TypeOK, Phases
<1>6. SizeBound'
  <2>1. size <= 10 + 16 * Len(tokens)
    BY <1>2, RoomOfAll
  <2>2. SizeBound' <=> size + 1 <= 10 + 16 * Len(tokens) + 1
    BY <1>2, <1>4 DEF SizeBound, PROLOG_LENGTH, MAX_TOKEN_CODE
  <2> QED
    BY <1>1, <2>1, <2>2
<1>7. Start' /\ LabelsFromTokens' /\ IsProgram(tokens')
  BY <1>1, <1>2, <1>4 DEF IInv, Start, LabelsFromTokens, PROLOG_LENGTH
<1>8. LabelsOrdered'
  <2>1. ASSUME NEW n \in DOMAIN labels PROVE labels[n].new_address \in PROLOG_LENGTH .. size'
    <3>1. labels[n].new_address \in PROLOG_LENGTH .. size
      BY DEF IInv, LabelsOrdered
    <3> QED
      BY <1>1, <1>4, <3>1 DEF PROLOG_LENGTH
  <2> QED
    BY <1>2, <2>1 DEF IInv, LabelsOrdered
<1> QED
  BY <1>5, <1>6, <1>7, <1>8 DEF IInv

LEMMA NextIInv == IInv /\ [Next]_vars => IInv'
<1> SUFFICES ASSUME IInv, [Next]_vars PROVE IInv'
  OBVIOUS
<1>1. CASE Prolog
  BY <1>1, PrologStep
<1>2. CASE TokenStep
  BY <1>2, FoldTokensStep, InsertLabelStep, AssembleTokenStep, EndOfTokensStep DEF TokenStep
<1>3. CASE LinkStep
  BY <1>3, PatchConditionalJmpStep, PatchJmpStep, ScanStep DEF LinkStep
<1>4. CASE LastStep
  BY <1>4, ChangeMemoryOffsetStep, ScanStep, ChangeReturnValueStep DEF LastStep
<1>5. CASE UNCHANGED vars
  BY <1>5 DEF vars, IInv, TypeOK, Start, SizeBound, LabelsFromTokens, LabelsOrdered
<1> QED
  BY <1>1, <1>2, <1>3, <1>4, <1>5 DEF Next, Stopped

-----------------------------------------------------------------------------
(* The results.                                                            *)

(* Every state fill_jit_code_buf passes through satisfies the inductive    *)
(* invariant, for every program, buffer, table and data address.           *)
THEOREM Invariance == Spec => []IInv
BY InitIInv, NextIInv, PTL DEF Spec

(* The buffer holds bytes and the label table labels in every state of     *)
(* fill_jit_code_buf, also while the passes overwrite each other's bytes.  *)
THEOREM TypeCorrect == Spec => []TypeOK
<1>1. IInv => TypeOK
  BY DEF IInv
<1> QED
  BY <1>1, Invariance, PTL

(* However the folds of convert_tokens2nonstack_logic overlap, the code    *)
(* takes at most 16 bytes for each token consumed, the prolog and pop rax  *)
(* apart: 4 * size, what jit_code_ctor reserves, is no such bound.         *)
THEOREM CodeFits16 == Spec => []SizeBound
<1>1. IInv => SizeBound
  BY DEF IInv
<1> QED
  BY <1>1, Invariance, PTL

(* The table insert_label builds is ordered by guest offset and by code    *)
(* address, so that find_label has one entry at most to find, and its      *)
(* address is never outside the code.                                      *)
THEOREM LabelTableOrdered == Spec => []LabelsOrdered
<1>1. IInv => LabelsOrdered
  BY DEF IInv
<1> QED
  BY <1>1, Invariance, PTL

-----------------------------------------------------------------------------

(* Programs of at most 4095 tokens, whose labels lie among the first 65535 *)
(* numbers, and addresses that fit in an int: in longer code a             *)
(* displacement itself can read as a jump with a guest offset.             *)
ShortCode ==
  /\ \A p \in Programs :
       /\ Len(p) <= 4095
       /\ \A j \in 1..Len(p) :
            p[j].my_cmd = CMD_MY_LABEL => 0 <= p[j].offset /\ p[j].offset <= 65534
  /\ JitBuf + 65535 <= 2147483647
  /\ PrintDecimal <= 2147483647 /\ ScanDecimal <= 2147483647

-----------------------------------------------------------------------------
(* The bytes of a jump.                                                    *)

(* From the first byte that belongs to a jump to the one after it: a       *)
(* conditional jump is read with the last two bytes of its cmp.            *)
Begin(s) == IF s.kind = "cond" THEN s.at - 2 ELSE s.at
End(s)   == OperandAt(s) + 4

(* The displacement b holds.                                               *)
Held(b, s) == Word(b, OperandAt(s) - 1)

IsCode(b, s) ==
  /\ s.kind = "cond" => /\ b[s.at - 2] = \h39 /\ b[s.at - 1] = \hD1 /\ b[s.at] = \h0F
                        /\ \h82 <= b[s.at + 1] /\ b[s.at + 1] <= \h87
  /\ s.kind = "jmp" => b[s.at] = \hE9
  /\ s.kind = "external" => b[s.at] = \hE8 /\ Held(b, s) = s.target

(* A jump stands in the first n bytes of b, and what follows it does not   *)
(* begin with 0.                                                           *)
Stands(b, n, s) ==
  /\ Begin(s) >= PROLOG_LENGTH /\ End(s) <= n
  /\ IsCode(b, s)
  /\ End(s) < n => b[End(s)] # 0

Disjoint(s, t) == End(s) <= Begin(t) \/ End(t) <= Begin(s)

Memory == [0 .. BufLen - 1 -> Byte]

LEMMA SiteShape ==
  ASSUME NEW s \in Site
  PROVE  /\ s.at \in Nat /\ s.target \in Int
         /\ OperandAt(s) \in Nat /\ Begin(s) \in Int /\ End(s) \in Nat
         /\ s.kind = "cond" \/ s.kind = "jmp" \/ s.kind = "external"
         /\ s.kind = "cond" => Begin(s) = s.at - 2 /\ OperandAt(s) = s.at + 2 /\ End(s) = s.at + 6
         /\ s.kind # "cond" => Begin(s) = s.at /\ OperandAt(s) = s.at + 1 /\ End(s) = s.at + 5
BY DEF Site, Begin, End, OperandAt

LEMMA ByteAt ==
  ASSUME NEW b \in Memory, NEW k \in 0 .. BufLen - 1
  PROVE  b[k] \in Byte
BY DEF Memory

LEMMA PasteAt ==
  ASSUME NEW b \in Memory, NEW at \in Nat, NEW bytes \in Seq(Byte)
  PROVE  /\ \A k \in 0 .. BufLen - 1 :
              /\ k < at \/ at + Len(bytes) <= k => Paste(b, at, bytes)[k] = b[k]
              /\ at <= k /\ k < at + Len(bytes) => Paste(b, at, bytes)[k] = bytes[k - at + 1]
         /\ Paste(b, at, bytes) \in Memory
<1>1. Paste(b, at, bytes) \in Memory
  BY PasteType DEF Memory
<1>2. ASSUME NEW k \in 0 .. BufLen - 1
      PROVE  /\ k < at \/ at + Len(bytes) <= k => Paste(b, at, bytes)[k] = b[k]
             /\ at <= k /\ k < at + Len(bytes) => Paste(b, at, bytes)[k] = bytes[k - at + 1]
  <2>1. Paste(b, at, bytes)[k] = IF k \in at .. at + Len(bytes) - 1 THEN bytes[k - at + 1] ELSE b[k]
    BY DEF Paste, Memory
  <2>2. k \in Int /\ Len(bytes) \in Nat
    OBVIOUS
  <2>3. k \in at .. at + Len(bytes) - 1 <=> at <= k /\ k < at + Len(bytes)
    BY <2>2
  <2> QED
    BY <2>1, <2>2, <2>3
<1> QED
  BY <1>1, <1>2

(* Where an int has been written it is read again.                         *)
LEMMA HeldWord ==
  ASSUME NEW b, NEW at \in Nat, NEW v \in Int32, \A j \in 1..4 : b[at + (j - 1)] = Le32(v)[j]
  PROVE  Word(b, at - 1) = v
<1> DEFINE w == Le32(v)
<1>1. w[1] + 256 * w[2] + 65536 * w[3] + 16777216 * (IF w[4] < 128 THEN w[4] ELSE w[4] - 256) = v
  BY Le32Word DEF Word
<1>2. (at - 1) + 1 = at /\ (at - 1) + 2 = at + 1 /\ (at - 1) + 3 = at + 2 /\ (at - 1) + 4 = at + 3
  OBVIOUS
<1>3. b[at] = w[1] /\ b[at + 1] = w[2] /\ b[at + 2] = w[3] /\ b[at + 3] = w[4]
  <2>1. at + (1 - 1) = at /\ at + (2 - 1) = at + 1 /\ at + (3 - 1) = at + 2 /\ at + (4 - 1) = at + 3
    OBVIOUS
  <2>2. 1 \in 1..4 /\ 2 \in 1..4 /\ 3 \in 1..4 /\ 4 \in 1..4
    OBVIOUS
  <2> HIDE DEF w
  <2> QED
    BY <2>1, <2>2 DEF w
<1> HIDE DEF w
<1> QED
  BY SMT, <1>1, <1>2, <1>3 DEF Word

(* A number below 256 is its first byte.                                   *)
LEMMA FirstByte ==
  ASSUME NEW b, NEW k, b[k + 1] \in Byte, b[k + 2] \in Byte, b[k + 3] \in Byte, b[k + 4] \in Byte,
         NEW t \in Byte, Word(b, k) = t
  PROVE  b[k + 1] = t
<1> DEFINE b1 == b[k + 1]
           b2 == b[k + 2]
           b3 == b[k + 3]
           b4 == IF b[k + 4] < 128 THEN b[k + 4] ELSE b[k + 4] - 256
<1>1. /\ b1 \in Int /\ 0 <= b1 /\ b1 <= 255 /\ t \in Int /\ 0 <= t /\ t <= 255
      /\ b2 \in Int /\ b3 \in Int /\ b4 \in Int
  BY ByteRange
<1>2. b1 + 256 * b2 + 65536 * b3 + 16777216 * b4 = t
  BY DEF Word
<1> HIDE DEF b1, b2, b3, b4
<1>3. b1 = t
  <2> DEFINE q == b2 + 256 * b3 + 65536 * b4
  <2>1. q \in Int /\ b1 + 256 * q = t
    BY SMT, <1>1, <1>2
  <2> HIDE DEF q
  <2>2. q = 0
    BY SMT, <1>1, <2>1
  <2> QED
    BY SMT, <1>1, <2>1, <2>2
<1> QED
  BY <1>3 DEF b1

-----------------------------------------------------------------------------
(* The smallest element of a set of natural numbers.                       *)
LEMMA SmallestOf ==
  ASSUME NEW S \in SUBSET Nat, S # {}
  PROVE  Min(S) \in S /\ \A x \in S : Min(S) <= x
<1> DEFINE R == OpToRel(<, Nat)
<1>1. R = { pair \in Nat \X Nat : pair[1] < pair[2] }
  BY Zenon DEF OpToRel
<1>2. \E x \in S : \A y \in S : ~ (<< y, x >> \in R)
  BY NatLessThanWellFounded, WFMin
<1> HIDE DEF R
<1>3. PICK x \in S : \A y \in S : ~ (<< y, x >> \in R)
  BY <1>2
<1>4. ASSUME NEW y \in S PROVE x <= y
  <2>1. x \in Nat /\ y \in Nat
    OBVIOUS
  <2>2. ~ (y < x)
    BY <1>1, <1>3, <2>1
  <2> QED
    BY <2>1, <2>2
<1> QED
  BY <1>4, Zenon DEF Min

-----------------------------------------------------------------------------
(* A displacement in short code does not read as a jump with an offset of  *)
(* the guest: its upper bytes are those of its sign, and what follows a    *)
(* jump forward is code.                                                   *)
Signed(b) == IF b < 128 THEN b ELSE b - 256

Short(d) == -65536 < d /\ d < 65536

SmallOffsets == { o \in Nat : o <= 65534 }

LEMMA NotSmall ==
  ASSUME NEW v \in SmallOffsets
  PROVE  ~(v < 0 \/ v >= 65535)
BY SMT DEF SmallOffsets

NotAMark(w, n0, n1) ==
  LET first  == w[2] + 256 * w[3] + 65536 * w[4] + 16777216 * Signed(n0)
      second == w[3] + 256 * w[4] + 65536 * n0 + 16777216 * Signed(n1)
  IN  /\ w[3] = 0 \/ w[3] = 255
      /\ w[4] = 0 \/ w[4] = 255
      /\ w[1] # 0 => first < 0 \/ first >= 65535
      /\ w[2] # 0 => second < 0 \/ second >= 65535

LEMMA NoJumpInside ==
  ASSUME NEW d \in Int, Short(d), NEW n0 \in Byte, NEW n1 \in Byte, d > 0 => n0 # 0
  PROVE  NotAMark(Le32(d), n0, n1)
<1> DEFINE w1 == Le32(d)[1]
           w2 == Le32(d)[2]
           w3 == Le32(d)[3]
           w4 == Le32(d)[4]
           s0 == Signed(n0)
           s1 == Signed(n1)
<1>1. w2 \in Int /\ 0 <= w2 /\ w2 <= 255
  <2>1. w2 = (d \div 256) % 256
    BY DEF Le32
  <2> QED
    BY <2>1
<1>2. /\ n0 \in Int /\ 0 <= n0 /\ n0 <= 255 /\ s0 \in Int /\ -128 <= s0 /\ s0 <= 127
      /\ s1 \in Int /\ -128 <= s1 /\ s1 <= 127 /\ (n0 # 0 => s0 # 0)
      /\ (s0 >= 0 => s0 = n0)
  BY ByteRange DEF Signed
<1>3. /\ d >= 0 => w3 = 0 /\ w4 = 0
      /\ d < 0 => w3 = 255 /\ w4 = 255
      /\ d = 0 => w1 = 0 /\ w2 = 0
  BY SMT, Le32Short DEF Short
<1> HIDE DEF w1, w2, w3, w4, s0, s1
<1>4. CASE d > 0
  <2>1. s0 # 0 /\ n0 # 0 /\ w3 = 0 /\ w4 = 0
    BY SMT, <1>2, <1>3, <1>4
  <2>2. \/ w2 + 256 * w3 + 65536 * w4 + 16777216 * s0 < 0
        \/ w2 + 256 * w3 + 65536 * w4 + 16777216 * s0 >= 65535
    BY SMT, <1>1, <1>2, <2>1
  <2>3. \/ w3 + 256 * w4 + 65536 * n0 + 16777216 * s1 < 0
        \/ w3 + 256 * w4 + 65536 * n0 + 16777216 * s1 >= 65535
    BY SMT, <1>2, <2>1
  <2> QED
    BY SMT, <2>1, <2>2, <2>3 DEF w1, w2, w3, w4, s0, s1, NotAMark
<1>5. CASE d = 0
  <2>1. w1 = 0 /\ w2 = 0 /\ w3 = 0 /\ w4 = 0
    BY SMT, <1>3, <1>5
  <2> QED
    BY SMT, <2>1 DEF w1, w2, w3, w4, s0, s1, NotAMark
<1>6. CASE d < 0
  <2>1. w3 = 255 /\ w4 = 255
    BY SMT, <1>3, <1>6
  <2>2. \/ w2 + 256 * w3 + 65536 * w4 + 16777216 * s0 < 0
        \/ w2 + 256 * w3 + 65536 * w4 + 16777216 * s0 >= 65535
    BY SMT, <1>1, <1>2, <2>1
  <2>3. \/ w3 + 256 * w4 + 65536 * n0 + 16777216 * s1 < 0
        \/ w3 + 256 * w4 + 65536 * n0 + 16777216 * s1 >= 65535
    BY SMT, <1>2, <2>1
  <2> QED
    BY SMT, <2>1, <2>2, <2>3 DEF w1, w2, w3, w4, s0, s1, NotAMark
<1> QED
  BY <1>4, <1>5, <1>6

-----------------------------------------------------------------------------
(* What a token leaves where its jump is.                                  *)

LEMMA CodeOfCommand ==
  ASSUME NEW token, NEW space
  PROVE  LET code == x86_cmd_ctor(token, space)
         IN  /\ token.my_cmd = CMD_MY_JMP => code = pre_encode_jmp(token)
             /\ token.my_cmd = CMD_MY_CALL => code = pre_encode_emitation_of_call(token, space)
             /\ token.my_cmd \in CondJmpCmds => code = encode_cmp \o pre_encode_conditional_jmp(token)
             /\ token.my_cmd = CMD_MY_OUT => code = encode_print(space)
             /\ token.my_cmd = CMD_MY_IN => code = encode_scan(space)
             /\ token.my_cmd \in {CMD_MY_PUSH, CMD_MY_POP} => code = encode_token2push_pop(token)
<1> DEFINE cmd == token.my_cmd
           code == x86_cmd_ctor(token, space)
           Alone == {CMD_MY_OUT, CMD_MY_IN, CMD_MY_RET, CMD_MY_SQRT, CMD_MY_CALL, CMD_MY_JMP}
<1>1. /\ CMD_MY_OUT \notin {CMD_MY_IN, CMD_MY_RET, CMD_MY_SQRT, CMD_MY_CALL, CMD_MY_JMP}
      /\ CMD_MY_IN \notin {CMD_MY_RET, CMD_MY_SQRT, CMD_MY_CALL, CMD_MY_JMP}
      /\ CMD_MY_CALL \notin {CMD_MY_RET, CMD_MY_SQRT}
      /\ CMD_MY_JMP \notin {CMD_MY_RET, CMD_MY_SQRT}
      /\ CMD_MY_CALL # CMD_MY_JMP
      /\ \A c \in Alone : c \notin CondJmpCmds /\ c \notin {CMD_MY_PUSH, CMD_MY_POP}
      /\ \A c \in CondJmpCmds : c \notin {CMD_MY_PUSH, CMD_MY_POP}
  BY DEF CMD_MY_OUT, CMD_MY_IN, CMD_MY_RET, CMD_MY_SQRT, CMD_MY_CALL, CMD_MY_JMP, CMD_MY_PUSH, CMD_MY_POP,
     CondJmpCmds, CMD_MY_JB, CMD_MY_JBE, CMD_MY_JA, CMD_MY_JAE, CMD_MY_JE, CMD_MY_JNE
<1>2. cmd = CMD_MY_JMP => code = pre_encode_jmp(token)
  <2>1. CMD_MY_JMP \notin CondJmpCmds /\ CMD_MY_JMP \notin {CMD_MY_PUSH, CMD_MY_POP}
    BY <1>1
  <2> QED
    BY <1>1, <2>1, Zenon DEF x86_cmd_ctor
<1>3. cmd = CMD_MY_CALL => code = pre_encode_emitation_of_call(token, space)
  <2>1. CMD_MY_CALL \notin CondJmpCmds /\ CMD_MY_CALL \notin {CMD_MY_PUSH, CMD_MY_POP}
    BY <1>1
  <2> QED
    BY <1>1, <2>1, Zenon DEF x86_cmd_ctor
<1>4. cmd = CMD_MY_OUT => code = encode_print(space)
  <2>1. CMD_MY_OUT \notin CondJmpCmds /\ CMD_MY_OUT \notin {CMD_MY_PUSH, CMD_MY_POP}
    BY <1>1
  <2> QED
    BY <1>1, <2>1, Zenon DEF x86_cmd_ctor
<1>5. cmd = CMD_MY_IN => code = encode_scan(space)
  <2>1. CMD_MY_IN \notin CondJmpCmds /\ CMD_MY_IN \notin {CMD_MY_PUSH, CMD_MY_POP}
    BY <1>1
  <2> QED
    BY <1>1, <2>1, Zenon DEF x86_cmd_ctor
<1>6. cmd \in CondJmpCmds => code = encode_cmp \o pre_encode_conditional_jmp(token)
  <2>1. cmd \in CondJmpCmds => cmd \notin Alone /\ cmd \notin {CMD_MY_PUSH, CMD_MY_POP}
    BY <1>1
  <2> QED
    BY <2>1, Zenon DEF x86_cmd_ctor
<1>7. cmd \in {CMD_MY_PUSH, CMD_MY_POP} => code = encode_token2push_pop(token)
  <2>1. cmd \in {CMD_MY_PUSH, CMD_MY_POP} => cmd \notin Alone /\ cmd \notin CondJmpCmds
    BY <1>1
  <2> QED
    BY <2>1, Zenon DEF x86_cmd_ctor
<1> QED
  BY <1>2, <1>3, <1>4, <1>5, <1>6, <1>7

Marked == {CMD_MY_JMP, CMD_MY_CALL, CMD_MY_OUT, CMD_MY_IN} \cup CondJmpCmds

(* The one site of a command that has one.                                 *)
LEMMA SitesOfCommand ==
  ASSUME NEW token, NEW at
  PROVE  /\ token.my_cmd = CMD_MY_JMP =>
              SitesOf(token, at) = {[at |-> at, kind |-> "jmp", target |-> token.offset]}
         /\ token.my_cmd = CMD_MY_CALL =>
              SitesOf(token, at) = {[at |-> at + 11, kind |-> "jmp", target |-> token.offset]}
         /\ token.my_cmd \in CondJmpCmds =>
              SitesOf(token, at) = {[at |-> at + 5, kind |-> "cond", target |-> token.offset]}
         /\ token.my_cmd = CMD_MY_OUT =>
              SitesOf(token, at) = {[at |-> at + 1, kind |-> "external",
                                     target |-> PrintDecimal - (JitBuf + at + JMP_LENGTH)]}
         /\ token.my_cmd = CMD_MY_IN =>
              SitesOf(token, at) = {[at |-> at, kind |-> "external",
                                     target |-> ScanDecimal - (JitBuf + at + JMP_LENGTH)]}
         /\ token.my_cmd \notin Marked => SitesOf(token, at) = {}
<1> DEFINE cmd == token.my_cmd
<1>1. cmd = CMD_MY_JMP =>
        SitesOf(token, at) = {[at |-> at, kind |-> "jmp", target |-> token.offset]}
  BY MarkedCommands, Zenon DEF SitesOf
<1>2. cmd = CMD_MY_CALL =>
        SitesOf(token, at) = {[at |-> at + 11, kind |-> "jmp", target |-> token.offset]}
  BY MarkedCommands, Zenon DEF SitesOf
<1>3. cmd \in CondJmpCmds =>
        SitesOf(token, at) = {[at |-> at + 5, kind |-> "cond", target |-> token.offset]}
  BY MarkedCommands, Zenon DEF SitesOf
<1>4. cmd = CMD_MY_OUT =>
        SitesOf(token, at) = {[at |-> at + 1, kind |-> "external",
                               target |-> PrintDecimal - (JitBuf + at + JMP_LENGTH)]}
  BY MarkedCommands, Zenon DEF SitesOf
<1>5. cmd = CMD_MY_IN =>
        SitesOf(token, at) = {[at |-> at, kind |-> "external",
                               target |-> ScanDecimal - (JitBuf + at + JMP_LENGTH)]}
  BY MarkedCommands, Zenon DEF SitesOf
<1>6. cmd \notin Marked => SitesOf(token, at) = {}
  BY Zenon DEF SitesOf, Marked
<1> QED
  BY <1>1, <1>2, <1>3, <1>4, <1>5, <1>6, Zenon

(* A site s of code at place n: what IsCode and Stands ask of the buffer,  *)
(* asked of the code itself.                                               *)
LaidOut(code, n, s) ==
  LET o == s.at - n
  IN  /\ s \in Site /\ Begin(s) >= n /\ End(s) <= n + Len(code)
      /\ s.kind = "cond" => /\ code[o - 1] = \h39 /\ code[o] = \hD1 /\ code[o + 1] = \h0F
                            /\ \h82 <= code[o + 2] /\ code[o + 2] <= \h87
      /\ s.kind = "jmp" => code[o + 1] = \hE9
      /\ s.kind = "external" => code[o + 1] = \hE8
      /\ Holds(code, OperandAt(s) - n, s.target)
      /\ End(s) < n + Len(code) => code[(End(s) - n) + 1] # 0

LEMMA SiteBytes ==
  ASSUME NEW token \in Token, NEW at \in Nat, NEW s \in SitesOf(token, at)
  PROVE  /\ SitesOf(token, at) = {s}
         /\ LaidOut(x86_cmd_ctor(token, JitBuf + at), at, s)
         /\ s.kind = "external" => \E p \in {PrintDecimal, ScanDecimal} : s.target = p - (JitBuf + at + 5)
<1> DEFINE code == x86_cmd_ctor(token, JitBuf + at)
           cmd == token.my_cmd
<1>1. s \in Site /\ JitBuf + at \in Nat /\ token.offset \in Int
  BY SitesType, TokenFields, ConstantsAssumption
<1>2. /\ s.at \in Nat
      /\ s.kind = "cond" => Begin(s) = s.at - 2 /\ OperandAt(s) = s.at + 2 /\ End(s) = s.at + 6
      /\ s.kind # "cond" => Begin(s) = s.at /\ OperandAt(s) = s.at + 1 /\ End(s) = s.at + 5
  BY <1>1, SiteShape
<1>3. CASE cmd = CMD_MY_JMP
  <2>1. SitesOf(token, at) = {[at |-> at, kind |-> "jmp", target |-> token.offset]}
    BY <1>3, SitesOfCommand
  <2>2. s.at = at /\ s.kind = "jmp" /\ s.target = token.offset /\ SitesOf(token, at) = {s}
    BY <2>1
  <2>3. code = pre_encode_jmp(token)
    BY <1>3, CodeOfCommand
  <2>4. Len(code) = 5 /\ code[1] = \hE9 /\ Holds(code, 1, s.target)
    BY <2>2, <2>3, JmpType
  <2> HIDE DEF code
  <2>5. LaidOut(code, at, s)
    <3>1. s.at - at = 0 /\ OperandAt(s) - at = 1 /\ End(s) = at + 5 /\ Begin(s) = at
      BY <1>2, <2>2
    <3> QED
      BY <1>1, <2>2, <2>4, <3>1 DEF LaidOut
  <2> QED
    BY <2>2, <2>5 DEF code
<1>4. CASE cmd = CMD_MY_CALL
  <2>1. SitesOf(token, at) = {[at |-> at + 11, kind |-> "jmp", target |-> token.offset]}
    BY <1>4, SitesOfCommand
  <2>2. s.at = at + 11 /\ s.kind = "jmp" /\ s.target = token.offset /\ SitesOf(token, at) = {s}
    BY <2>1
  <2>3. code = pre_encode_emitation_of_call(token, JitBuf + at)
    BY <1>4, CodeOfCommand
  <2>4. Len(code) = 16 /\ code[12] = \hE9 /\ Holds(code, 12, s.target)
    BY <1>1, <2>2, <2>3, CallOfTokenType
  <2> HIDE DEF code
  <2>5. LaidOut(code, at, s)
    <3>1. s.at - at = 11 /\ OperandAt(s) - at = 12 /\ End(s) = at + 16 /\ Begin(s) = at + 11
      BY <1>2, <2>2
    <3> QED
      BY <1>1, <2>2, <2>4, <3>1 DEF LaidOut
  <2> QED
    BY <2>2, <2>5 DEF code
<1>5. CASE cmd \in CondJmpCmds
  <2>1. SitesOf(token, at) = {[at |-> at + 5, kind |-> "cond", target |-> token.offset]}
    BY <1>5, SitesOfCommand
  <2>2. s.at = at + 5 /\ s.kind = "cond" /\ s.target = token.offset /\ SitesOf(token, at) = {s}
    BY <2>1
  <2>3. code = encode_cmp \o pre_encode_conditional_jmp(token)
    BY <1>5, CodeOfCommand
  <2>4. /\ Len(code) = 11 /\ code[4] = \h39 /\ code[5] = \hD1 /\ code[6] = \h0F
        /\ \h82 <= code[7] /\ code[7] <= \h87 /\ Holds(code, 7, s.target)
    <3>1. IsCompareAndJump(code, s.target)
      BY <1>5, <2>2, <2>3, ConditionalJmpType
    <3> HIDE DEF code
    <3> QED
      BY <3>1 DEF IsCompareAndJump
  <2> HIDE DEF code
  <2>5. LaidOut(code, at, s)
    <3>1. s.at - at = 5 /\ OperandAt(s) - at = 7 /\ End(s) = at + 11 /\ Begin(s) = at + 3
      BY <1>2, <2>2
    <3> QED
      BY <1>1, <2>2, <2>4, <3>1 DEF LaidOut
  <2> QED
    BY <2>2, <2>5 DEF code
<1>6. CASE cmd = CMD_MY_OUT
  <2>1. SitesOf(token, at) = {[at |-> at + 1, kind |-> "external",
                               target |-> PrintDecimal - (JitBuf + at + JMP_LENGTH)]}
    BY <1>6, SitesOfCommand
  <2>2. /\ s.at = at + 1 /\ s.kind = "external" /\ s.target = PrintDecimal - ((JitBuf + at) + JMP_LENGTH)
        /\ s.target = PrintDecimal - (JitBuf + at + 5)
        /\ SitesOf(token, at) = {s}
    BY <2>1 DEF JMP_LENGTH
  <2>3. code = encode_print(JitBuf + at)
    BY <1>6, CodeOfCommand
  <2>4. Len(code) = 6 /\ code[2] = \hE8 /\ Holds(code, 2, s.target)
    BY <1>1, <2>2, <2>3, Constants, PrintScanType
  <2> HIDE DEF code
  <2>5. LaidOut(code, at, s)
    <3>1. s.at - at = 1 /\ OperandAt(s) - at = 2 /\ End(s) = at + 6 /\ Begin(s) = at + 1
      BY <1>2, <2>2
    <3> QED
      BY <1>1, <2>2, <2>4, <3>1 DEF LaidOut
  <2> QED
    BY <2>2, <2>5 DEF code
<1>7. CASE cmd = CMD_MY_IN
  <2>1. SitesOf(token, at) = {[at |-> at, kind |-> "external",
                               target |-> ScanDecimal - (JitBuf + at + JMP_LENGTH)]}
    BY <1>7, SitesOfCommand
  <2>2. /\ s.at = at /\ s.kind = "external" /\ s.target = ScanDecimal - ((JitBuf + at) + JMP_LENGTH)
        /\ s.target = ScanDecimal - (JitBuf + at + 5)
        /\ SitesOf(token, at) = {s}
    BY <2>1 DEF JMP_LENGTH
  <2>3. code = encode_scan(JitBuf + at)
    BY <1>7, CodeOfCommand
  <2>4. Len(code) = 6 /\ code[1] = \hE8 /\ Holds(code, 1, s.target) /\ code[6] # 0
    BY <1>1, <2>2, <2>3, Constants, PrintScanType
  <2> HIDE DEF code
  <2>5. LaidOut(code, at, s)
    <3>1. s.at - at = 0 /\ OperandAt(s) - at = 1 /\ End(s) = at + 5 /\ (End(s) - at) + 1 = 6 /\ Begin(s) = at
      BY <1>2, <2>2
    <3> QED
      BY <1>1, <2>2, <2>4, <3>1 DEF LaidOut
  <2> QED
    BY <2>2, <2>5 DEF code
<1>8. CASE cmd \notin Marked
  BY <1>8, SitesOfCommand
<1> QED
  BY <1>3, <1>4, <1>5, <1>6, <1>7, <1>8 DEF Marked

-----------------------------------------------------------------------------
(* What writing leaves of a jump.                                          *)

LEMMA HeldSame ==
  ASSUME NEW s \in Site, NEW b, NEW c, \A k \in Int : OperandAt(s) <= k /\ k < End(s) => c[k] = b[k]
  PROVE  Held(c, s) = Held(b, s)
<1> DEFINE at == OperandAt(s)
<1>1. at \in Nat /\ End(s) = at + 4
  BY SiteShape DEF End
<1>2. /\ (at - 1) + 1 \in Int /\ at <= (at - 1) + 1 /\ (at - 1) + 1 < End(s)
      /\ (at - 1) + 2 \in Int /\ at <= (at - 1) + 2 /\ (at - 1) + 2 < End(s)
      /\ (at - 1) + 3 \in Int /\ at <= (at - 1) + 3 /\ (at - 1) + 3 < End(s)
      /\ (at - 1) + 4 \in Int /\ at <= (at - 1) + 4 /\ (at - 1) + 4 < End(s)
  BY <1>1
<1>3. /\ c[(at - 1) + 1] = b[(at - 1) + 1] /\ c[(at - 1) + 2] = b[(at - 1) + 2]
      /\ c[(at - 1) + 3] = b[(at - 1) + 3] /\ c[(at - 1) + 4] = b[(at - 1) + 4]
  BY <1>2
<1> HIDE DEF at
<1>4. Word(c, at - 1) = Word(b, at - 1)
  BY SMT, <1>3 DEF Word
<1> QED
  BY <1>4 DEF Held, at

LEMMA StandsSame ==
  ASSUME NEW s \in Site, NEW b, NEW c, NEW n \in Nat, NEW m \in Nat,
         Stands(b, n, s), End(s) <= m,
         \A k \in Int : Begin(s) <= k /\ k < End(s) => c[k] = b[k],
         End(s) < m => c[End(s)] # 0
  PROVE  Stands(c, m, s) /\ Held(c, s) = Held(b, s)
<1>1. /\ s.at \in Nat /\ OperandAt(s) \in Nat /\ Begin(s) \in Int /\ End(s) \in Nat
      /\ s.kind = "cond" => Begin(s) = s.at - 2 /\ OperandAt(s) = s.at + 2 /\ End(s) = s.at + 6
      /\ s.kind # "cond" => Begin(s) = s.at /\ OperandAt(s) = s.at + 1 /\ End(s) = s.at + 5
  BY SiteShape
<1>2. Held(c, s) = Held(b, s)
  <2>1. \A k \in Int : OperandAt(s) <= k /\ k < End(s) => c[k] = b[k]
    BY <1>1
  <2> QED
    BY <2>1, HeldSame
<1>3. IsCode(c, s)
  <2>1. IsCode(b, s)
    BY DEF Stands
  <2>2. s.kind = "cond" => /\ c[s.at - 2] = b[s.at - 2] /\ c[s.at - 1] = b[s.at - 1]
                           /\ c[s.at] = b[s.at] /\ c[s.at + 1] = b[s.at + 1]
    BY <1>1
  <2>3. c[s.at] = b[s.at]
    BY <1>1
  <2> QED
    BY <1>2, <2>1, <2>2, <2>3 DEF IsCode
<1> QED
  BY <1>2, <1>3 DEF Stands

(* Code appended behind a jump.                                            *)
LEMMA StandsBefore ==
  ASSUME NEW b \in Memory, NEW n \in Nat, NEW code \in Seq(Byte), code \in Started,
         n + Len(code) <= BufLen, NEW s \in Site, Stands(b, n, s)
  PROVE  /\ Stands(Paste(b, n, code), n + Len(code), s)
         /\ Held(Paste(b, n, code), s) = Held(b, s)
<1> DEFINE c == Paste(b, n, code)
           m == n + Len(code)
<1>1. /\ Len(code) \in Nat /\ m \in Nat /\ BufLen \in Nat /\ Begin(s) \in Int /\ End(s) \in Nat
      /\ Begin(s) >= 10 /\ End(s) <= n /\ (End(s) < n => b[End(s)] # 0)
  BY SiteShape, ConstantsAssumption DEF Stands, PROLOG_LENGTH
<1>2. \A k \in 0 .. BufLen - 1 :
        /\ k < n \/ m <= k => c[k] = b[k]
        /\ n <= k /\ k < m => c[k] = code[k - n + 1]
  BY PasteAt
<1> HIDE DEF c
<1>3. \A k \in Int : Begin(s) <= k /\ k < End(s) => c[k] = b[k]
  BY <1>1, <1>2
<1>4. End(s) < m => c[End(s)] # 0
  <2>1. CASE End(s) < n
    BY <1>1, <1>2, <2>1
  <2>2. CASE End(s) = n /\ Len(code) > 0
    <3>1. c[n] = code[n - n + 1] /\ n - n + 1 = 1
      BY <1>1, <1>2, <2>2
    <3>2. code[1] # 0
      BY <2>2 DEF Started
    <3> QED
      BY <2>2, <3>1, <3>2
  <2> QED
    BY <1>1, <2>1, <2>2
<1>5. End(s) <= m
  BY <1>1
<1> HIDE DEF m
<1> QED
  BY <1>1, <1>3, <1>4, <1>5, StandsSame DEF c, m

(* A jump that has just been appended.                                     *)
LEMMA AroundPlace ==
  ASSUME NEW a \in Int, NEW n \in Int
  PROVE  /\ (a - 2) - n + 1 = (a - n) - 1 /\ (a - 1) - n + 1 = a - n
         /\ a - n + 1 = (a - n) + 1 /\ (a + 1) - n + 1 = (a - n) + 2
OBVIOUS

LEMMA StandsNew ==
  ASSUME NEW b \in Memory, NEW n \in Nat, n >= 10, NEW code \in Seq(Byte), n + Len(code) <= BufLen,
         NEW s, LaidOut(code, n, s), s.kind = "external" => s.target \in Int32
  PROVE  /\ Stands(Paste(b, n, code), n + Len(code), s)
         /\ s.target \in Int32 => Held(Paste(b, n, code), s) = s.target
<1> DEFINE c == Paste(b, n, code)
           m == n + Len(code)
           o == s.at - n
<1>1. /\ s \in Site /\ s.at \in Nat /\ OperandAt(s) \in Nat /\ Begin(s) \in Int /\ End(s) \in Nat
      /\ s.kind = "cond" => Begin(s) = s.at - 2 /\ OperandAt(s) = s.at + 2 /\ End(s) = s.at + 6
      /\ s.kind # "cond" => Begin(s) = s.at /\ OperandAt(s) = s.at + 1 /\ End(s) = s.at + 5
      /\ Begin(s) >= n /\ End(s) <= m /\ End(s) = OperandAt(s) + 4
      /\ Len(code) \in Nat /\ m \in Nat /\ BufLen \in Nat
  BY SiteShape, ConstantsAssumption DEF LaidOut, End
<1>2. \A k \in Int : n <= k /\ k < m => c[k] = code[k - n + 1]
  <2>1. \A k \in 0 .. BufLen - 1 : n <= k /\ k < m => c[k] = code[k - n + 1]
    BY PasteAt
  <2> HIDE DEF c, m
  <2>2. ASSUME NEW k \in Int, n <= k, k < m PROVE k \in 0 .. BufLen - 1
    <3>1. m <= BufLen
      BY DEF m
    <3> QED
      BY <1>1, <2>2, <3>1
  <2> QED
    BY <2>1, <2>2, Zenon
<1> HIDE DEF c
<1>7. /\ n <= OperandAt(s) /\ OperandAt(s) + 3 < m /\ s.at \in Int /\ n <= s.at /\ s.at + 1 < m
      /\ s.kind = "cond" => n <= s.at - 2
  <2> HIDE DEF m
  <2>1. CASE s.kind = "cond"
    <3>1. /\ n <= s.at - 2 /\ OperandAt(s) = s.at + 2 /\ s.at + 6 <= m
          /\ s.at \in Int /\ m \in Int /\ n \in Int
      BY <1>1, <2>1
    <3>2. n <= s.at /\ s.at + 1 < m
      BY <3>1
    <3>3. n <= OperandAt(s) /\ OperandAt(s) + 3 < m
      <4>1. n <= s.at + 2 /\ s.at + 2 + 3 < m
        BY <3>1
      <4> QED
        BY <3>1, <4>1, Zenon
    <3> QED
      BY <3>1, <3>2, <3>3, Zenon
  <2>2. CASE s.kind # "cond"
    <3>1. n <= s.at /\ s.at \in Int /\ m \in Int /\ n \in Int
      BY <1>1, <2>2
    <3>3. OperandAt(s) = s.at + 1 /\ s.at + 5 <= m
      BY <1>1, <2>2, Zenon
    <3>2. n <= OperandAt(s) /\ OperandAt(s) + 3 < m /\ s.at + 1 < m
      BY <3>1, <3>3
    <3> QED
      BY <2>2, <3>1, <3>2, Zenon
  <2> QED
    BY <2>1, <2>2
<1>3. s.target \in Int32 => Held(c, s) = s.target
  <2>1. ASSUME NEW j \in 1..4 PROVE c[OperandAt(s) + (j - 1)] = Le32(s.target)[j]
    <3> DEFINE k == OperandAt(s) + (j - 1)
    <3>1. k \in Int /\ n <= k /\ k < m /\ k - n + 1 = (OperandAt(s) - n) + j
      <4> DEFINE at == OperandAt(s)
      <4>1. at \in Nat /\ j \in Int /\ 1 <= j /\ j <= 4 /\ m \in Nat /\ n <= at /\ at + 3 < m
        BY <1>1, <1>7
      <4> HIDE DEF at, m
      <4> QED
        BY <4>1 DEF at
    <3>2. code[(OperandAt(s) - n) + j] = Le32(s.target)[j]
      BY DEF LaidOut, Holds
    <3> HIDE DEF k
    <3>3. c[k] = code[k - n + 1]
      BY <1>2, <3>1
    <3>4. c[k] = Le32(s.target)[j]
      BY <3>1, <3>2, <3>3, Zenon
    <3> QED
      BY <3>4 DEF k
  <2>2. ASSUME s.target \in Int32 PROVE Word(c, OperandAt(s) - 1) = s.target
    BY <1>1, <2>1, <2>2, HeldWord
  <2> QED
    BY <2>2 DEF Held
<1>8. ASSUME NEW k \in Int, NEW j, n <= k, k < m, k - n + 1 = j
      PROVE  c[k] = code[j]
  <2>1. c[k] = code[k - n + 1]
    BY <1>2, <1>8
  <2> QED
    BY <2>1, <1>8, Zenon
<1>4. IsCode(c, s)
  <2>1. s.kind = "cond" => /\ c[s.at - 2] = \h39 /\ c[s.at - 1] = \hD1 /\ c[s.at] = \h0F
                           /\ \h82 <= c[s.at + 1] /\ c[s.at + 1] <= \h87
    <3> SUFFICES ASSUME s.kind = "cond"
                 PROVE  /\ c[s.at - 2] = \h39 /\ c[s.at - 1] = \hD1 /\ c[s.at] = \h0F
                        /\ \h82 <= c[s.at + 1] /\ c[s.at + 1] <= \h87
      OBVIOUS
    <3>1. /\ code[o - 1] = \h39 /\ code[o] = \hD1 /\ code[o + 1] = \h0F
          /\ \h82 <= code[o + 2] /\ code[o + 2] <= \h87
      BY DEF LaidOut
    <3>2. /\ s.at - 2 \in Int /\ n <= s.at - 2 /\ s.at - 2 < m /\ (s.at - 2) - n + 1 = o - 1
          /\ s.at - 1 \in Int /\ n <= s.at - 1 /\ s.at - 1 < m /\ (s.at - 1) - n + 1 = o
          /\ s.at \in Int /\ n <= s.at /\ s.at < m /\ s.at - n + 1 = o + 1
          /\ s.at + 1 \in Int /\ n <= s.at + 1 /\ s.at + 1 < m /\ (s.at + 1) - n + 1 = o + 2
      <4>1. s.at \in Int /\ m \in Int /\ n \in Int /\ n <= s.at - 2 /\ s.at + 1 < m
        BY <1>1, <1>7
      <4> HIDE DEF m
      <4>2. /\ s.at - 2 \in Int /\ s.at - 2 < m /\ s.at - 1 \in Int /\ n <= s.at - 1 /\ s.at - 1 < m
            /\ n <= s.at /\ s.at < m /\ s.at + 1 \in Int /\ n <= s.at + 1
        BY <4>1
      <4>3. /\ (s.at - 2) - n + 1 = (s.at - n) - 1 /\ (s.at - 1) - n + 1 = s.at - n
            /\ s.at - n + 1 = (s.at - n) + 1 /\ (s.at + 1) - n + 1 = (s.at - n) + 2
        BY <4>1, AroundPlace
      <4> QED
        BY <4>1, <4>2, <4>3, Zenon
    <3> HIDE DEF o
    <3>3. /\ c[s.at - 2] = code[o - 1] /\ c[s.at - 1] = code[o]
          /\ c[s.at] = code[o + 1] /\ c[s.at + 1] = code[o + 2]
      <4>1. c[s.at - 2] = code[o - 1] /\ c[s.at - 1] = code[o]
        BY <1>8, <3>2, Zenon
      <4>2. c[s.at] = code[o + 1] /\ c[s.at + 1] = code[o + 2]
        BY <1>8, <3>2, Zenon
      <4> QED
        BY <4>1, <4>2
    <3>4. /\ code[o - 1] = \h39 /\ code[o] = \hD1 /\ code[o + 1] = \h0F
          /\ \h82 <= code[o + 2] /\ code[o + 2] <= \h87
      BY <3>1, Zenon
    <3>5. /\ c[s.at - 2] = \h39 /\ c[s.at - 1] = \hD1 /\ c[s.at] = \h0F
      BY <3>3, <3>4, Zenon
    <3>6. \h82 <= c[s.at + 1] /\ c[s.at + 1] <= \h87
      BY <3>3, <3>4, Zenon
    <3> QED
      BY <3>5, <3>6, Zenon
  <2>2. s.kind # "cond" => c[s.at] = code[o + 1]
    <3> SUFFICES ASSUME s.kind # "cond" PROVE c[s.at] = code[o + 1]
      OBVIOUS
    <3>1. s.at \in Int /\ n <= s.at /\ s.at < m /\ s.at - n + 1 = o + 1
      BY <1>1, <1>7
    <3> QED
      BY <1>8, <3>1
  <2>3. /\ s.kind = "jmp" => code[o + 1] = \hE9
        /\ s.kind = "external" => code[o + 1] = \hE8
    BY DEF LaidOut
  <2> HIDE DEF o
  <2>4. /\ s.kind = "jmp" => c[s.at] = \hE9
        /\ s.kind = "external" => c[s.at] = \hE8 /\ Held(c, s) = s.target
    BY <1>3, <2>2, <2>3
  <2> QED
    BY <2>1, <2>4, Zenon DEF IsCode
<1>5. End(s) < m => c[End(s)] # 0
  <2> SUFFICES ASSUME End(s) < m PROVE c[End(s)] # 0
    OBVIOUS
  <2>1. code[(End(s) - n) + 1] # 0
    BY DEF LaidOut
  <2>2. End(s) \in Int /\ n <= End(s) /\ End(s) - n + 1 = (End(s) - n) + 1
    BY <1>1, <1>7
  <2>3. c[End(s)] = code[(End(s) - n) + 1]
    BY <1>8, <2>2
  <2> QED
    BY <2>1, <2>3, Zenon
<1>6. Begin(s) >= PROLOG_LENGTH
  BY <1>1 DEF PROLOG_LENGTH
<1> QED
  BY <1>1, <1>3, <1>4, <1>5, <1>6 DEF Stands, c

-----------------------------------------------------------------------------
(* What a displacement written into a jump leaves of the code.             *)

LEMMA PatchedBytes ==
  ASSUME NEW b \in Memory, NEW at \in Nat, at + 4 <= BufLen, NEW d \in Int
  PROVE  LET c == Paste(b, at, Le32(d))
         IN  /\ c \in Memory
             /\ \A k \in 0 .. BufLen - 1 : k < at \/ at + 4 <= k => c[k] = b[k]
             /\ c[at] = Le32(d)[1] /\ c[at + 1] = Le32(d)[2]
             /\ c[at + 2] = Le32(d)[3] /\ c[at + 3] = Le32(d)[4]
<1> DEFINE w == Le32(d)
           c == Paste(b, at, w)
<1>1. w \in Seq(Byte) /\ Len(w) = 4
  <2>1. w \in BytesUpTo(4) /\ Len(w) = 4
    BY Le32Type
  <2> HIDE DEF w
  <2> QED
    BY <2>1, BytesAreSeq
<1> HIDE DEF w
<1>2. /\ c \in Memory
      /\ \A k \in 0 .. BufLen - 1 : /\ k < at \/ at + Len(w) <= k => c[k] = b[k]
                                    /\ at <= k /\ k < at + Len(w) => c[k] = w[k - at + 1]
  BY <1>1, PasteAt
<1> HIDE DEF c
<1>3. \A k \in 0 .. BufLen - 1 : /\ k < at \/ at + 4 <= k => c[k] = b[k]
                                 /\ at <= k /\ k < at + 4 => c[k] = w[k - at + 1]
  BY <1>1, <1>2
<1>4. /\ at \in 0 .. BufLen - 1 /\ at + 1 \in 0 .. BufLen - 1
      /\ at + 2 \in 0 .. BufLen - 1 /\ at + 3 \in 0 .. BufLen - 1
  BY ConstantsAssumption
<1>5. /\ at - at + 1 = 1 /\ (at + 1) - at + 1 = 2 /\ (at + 2) - at + 1 = 3 /\ (at + 3) - at + 1 = 4
  OBVIOUS
<1>6. c[at] = w[at - at + 1]
  BY <1>3, <1>4
<1>7. c[at + 1] = w[(at + 1) - at + 1]
  BY <1>3, <1>4
<1>8. c[at + 2] = w[(at + 2) - at + 1]
  BY <1>3, <1>4
<1>9. c[at + 3] = w[(at + 3) - at + 1]
  BY <1>3, <1>4
<1>10. c[at] = w[1] /\ c[at + 1] = w[2] /\ c[at + 2] = w[3] /\ c[at + 3] = w[4]
  BY <1>5, <1>6, <1>7, <1>8, <1>9, Zenon
<1> QED
  BY <1>2, <1>3, <1>10 DEF c, w

(* Every jump stands as before; only the one patched holds another offset. *)
LEMMA OperandPatched ==
  ASSUME NEW b \in Memory, NEW n \in Nat, n <= BufLen,
         NEW s \in Site, s.kind # "external", Stands(b, n, s), NEW d \in Int,
         NEW t \in Site, Stands(b, n, t), t = s \/ Disjoint(s, t)
  PROVE  LET c == Paste(b, OperandAt(s), Le32(d))
         IN  /\ Stands(c, n, t)
             /\ t # s => Held(c, t) = Held(b, t)
             /\ d \in Int32 => Held(c, s) = d
<1> DEFINE c == Paste(b, OperandAt(s), Le32(d))
<1>1. /\ s.at \in Nat /\ OperandAt(s) \in Nat /\ Begin(s) \in Int /\ End(s) = OperandAt(s) + 4
      /\ s.kind = "cond" => Begin(s) = s.at - 2 /\ OperandAt(s) = s.at + 2
      /\ s.kind # "cond" => Begin(s) = s.at /\ OperandAt(s) = s.at + 1
      /\ 10 <= Begin(s) /\ End(s) <= n
  BY SiteShape DEF Stands, End, PROLOG_LENGTH
<1>2. /\ t.at \in Nat /\ OperandAt(t) \in Nat /\ Begin(t) \in Int /\ End(t) = OperandAt(t) + 4
      /\ t.kind = "cond" => Begin(t) = t.at - 2 /\ OperandAt(t) = t.at + 2
      /\ t.kind # "cond" => Begin(t) = t.at /\ OperandAt(t) = t.at + 1
      /\ 10 <= Begin(t) /\ End(t) <= n
  BY SiteShape DEF Stands, End, PROLOG_LENGTH
<1>3. /\ c \in Memory
      /\ \A k \in 0 .. BufLen - 1 : k < OperandAt(s) \/ OperandAt(s) + 4 <= k => c[k] = b[k]
      /\ c[OperandAt(s)] = Le32(d)[1] /\ c[OperandAt(s) + 1] = Le32(d)[2]
      /\ c[OperandAt(s) + 2] = Le32(d)[3] /\ c[OperandAt(s) + 3] = Le32(d)[4]
  <2>1. OperandAt(s) + 4 <= BufLen /\ BufLen \in Nat
    BY <1>1, ConstantsAssumption
  <2> QED
    BY <1>1, <2>1, PatchedBytes
<1> HIDE DEF c
<1>4. BufLen \in Nat
  BY ConstantsAssumption
<1>5. Begin(s) < OperandAt(s) /\ End(s) \in Nat /\ Begin(t) < OperandAt(t) /\ End(t) \in Nat
  BY <1>1, <1>2
<1>6. ASSUME d \in Int32 PROVE Held(c, s) = d
  <2>1. ASSUME NEW j \in 1..4 PROVE c[OperandAt(s) + (j - 1)] = Le32(d)[j]
    <3>1. /\ j = 1 => OperandAt(s) + (j - 1) = OperandAt(s)
          /\ j = 2 => OperandAt(s) + (j - 1) = OperandAt(s) + 1
          /\ j = 3 => OperandAt(s) + (j - 1) = OperandAt(s) + 2
          /\ j = 4 => OperandAt(s) + (j - 1) = OperandAt(s) + 3
      BY <1>1
    <3>2. j = 1 \/ j = 2 \/ j = 3 \/ j = 4
      OBVIOUS
    <3> QED
      BY <1>3, <3>1, <3>2, Zenon
  <2>2. Word(c, OperandAt(s) - 1) = d
    BY <1>1, <1>6, <2>1, HeldWord
  <2> QED
    BY <2>2 DEF Held
<1>7. End(t) < n => c[End(t)] # 0
  <2> SUFFICES ASSUME End(t) < n PROVE c[End(t)] # 0
    OBVIOUS
  <2>1. b[End(t)] # 0
    BY DEF Stands
  <2>2. End(t) < OperandAt(s) \/ OperandAt(s) + 4 <= End(t)
    BY <1>1, <1>2, <1>5 DEF Disjoint
  <2>3. End(t) \in 0 .. BufLen - 1
    BY <1>4, <1>5
  <2> QED
    BY <1>3, <2>1, <2>2, <2>3
<1>8. CASE t # s
  <2>1. Disjoint(s, t)
    BY <1>8
  <2>2. \A k \in Int : Begin(t) <= k /\ k < End(t) => c[k] = b[k]
    <3> SUFFICES ASSUME NEW k \in Int, Begin(t) <= k, k < End(t) PROVE c[k] = b[k]
      OBVIOUS
    <3>1. k \in 0 .. BufLen - 1
      BY <1>2, <1>4, <1>5
    <3>2. k < OperandAt(s) \/ OperandAt(s) + 4 <= k
      BY <1>1, <1>2, <1>5, <2>1 DEF Disjoint
    <3> QED
      BY <1>3, <3>1, <3>2
  <2>3. Stands(c, n, t) /\ Held(c, t) = Held(b, t)
    BY <1>2, <1>7, <2>2, StandsSame
  <2> QED
    BY <1>6, <2>3 DEF c
<1>9. CASE t = s
  <2>1. IsCode(c, s)
    <3>1. IsCode(b, s)
      BY DEF Stands
    <3>2. s.kind = "cond" => /\ c[s.at - 2] = b[s.at - 2] /\ c[s.at - 1] = b[s.at - 1]
                             /\ c[s.at] = b[s.at] /\ c[s.at + 1] = b[s.at + 1]
      <4> SUFFICES ASSUME s.kind = "cond"
                   PROVE  \A k \in {s.at - 2, s.at - 1, s.at, s.at + 1} : c[k] = b[k]
        OBVIOUS
      <4>1. s.at - 2 >= 10 /\ OperandAt(s) = s.at + 2 /\ s.at + 6 <= BufLen
        BY <1>1, <1>4
      <4>2. \A k \in {s.at - 2, s.at - 1, s.at, s.at + 1} : k \in 0 .. BufLen - 1 /\ k < OperandAt(s)
        BY <1>1, <1>4, <4>1
      <4> QED
        BY <1>3, <4>2
    <3>3. s.kind # "cond" => c[s.at] = b[s.at]
      <4> SUFFICES ASSUME s.kind # "cond" PROVE c[s.at] = b[s.at]
        OBVIOUS
      <4>1. s.at \in 0 .. BufLen - 1 /\ s.at < OperandAt(s)
        BY <1>1, <1>4
      <4> QED
        BY <1>3, <4>1
    <3> QED
      BY <3>1, <3>2, <3>3 DEF IsCode
  <2>2. Stands(c, n, t)
    BY <1>7, <1>9, <2>1 DEF Stands
  <2> QED
    BY <1>6, <1>9, <2>2 DEF c
<1> QED
  BY <1>8, <1>9

-----------------------------------------------------------------------------
(* The marks the passes look for, and what a patch does to them.           *)

CondMark(b, k) == b[k] = \h0F /\ b[k + 1] >= \h80

(* The second pass would take the byte: A are the labels' offsets and what *)
(* is smaller than the code.                                               *)
JmpMark(b, A, k) == b[k] \in {\hE8, \hE9} /\ Word(b, k) \in A

CondMarksAreJumps(b, n, S, from) ==
  \A k \in Int : from <= k /\ k < n /\ CondMark(b, k) => \E s \in S : s.at = k /\ s.kind = "cond"

JmpMarksAreJumps(b, n, S, A, from) ==
  \A k \in Int : from <= k /\ k < n /\ JmpMark(b, A, k) =>
    \E s \in S : s.at = k /\ s.kind \in {"jmp", "external"}

Jumps(b, n, S) ==
  /\ \A s \in S : Stands(b, n, s)
  /\ \A s, t \in S : s # t => Disjoint(s, t)

LEMMA SameMark ==
  ASSUME NEW b, NEW c, NEW k \in Int, \A j \in Int : k <= j /\ j <= k + 4 => c[j] = b[j]
  PROVE  /\ CondMark(c, k) <=> CondMark(b, k)
         /\ \A A : JmpMark(c, A, k) <=> JmpMark(b, A, k)
<1>1. /\ k \in Int /\ k <= k /\ k <= k + 4 /\ k + 1 \in Int /\ k <= k + 1 /\ k + 1 <= k + 4
      /\ k + 2 \in Int /\ k <= k + 2 /\ k + 2 <= k + 4 /\ k + 3 \in Int /\ k <= k + 3 /\ k + 3 <= k + 4
      /\ k + 4 \in Int /\ k <= k + 4 /\ k + 4 <= k + 4
  OBVIOUS
<1>2. c[k] = b[k] /\ c[k + 1] = b[k + 1] /\ c[k + 2] = b[k + 2] /\ c[k + 3] = b[k + 3] /\ c[k + 4] = b[k + 4]
  BY <1>1
<1>3. Word(c, k) = Word(b, k)
  BY SMT, <1>2 DEF Word
<1> QED
  BY <1>2, <1>3, Zenon DEF CondMark, JmpMark

(* How far a displacement reaches.                                         *)
LEMMA ShortReach ==
  ASSUME NEW n \in Nat, n - 1 \in SmallOffsets, NEW s \in Site, End(s) <= n, NEW to \in Nat, to <= n
  PROVE  /\ to - End(s) \in Int /\ to - End(s) \in Int32
         /\ Short(to - End(s))
         /\ to - End(s) > 0 => End(s) < n
<1>1. End(s) \in Nat
  BY SiteShape
<1> DEFINE d == to - End(s)
<1>2. d \in Int /\ -65536 < d /\ d < 65536 /\ (d > 0 => End(s) < n)
  BY SMT, <1>1 DEF SmallOffsets
<1> HIDE DEF d
<1>3. d \in Int32
  BY SMT, <1>2 DEF Int32
<1> QED
  BY SMT, <1>2, <1>3 DEF d, Short

(* After a patch no byte of the displacement opens a mark of the second    *)
(* pass, and no byte before it that was not one already.                   *)
LEMMA NoMarkInside ==
  ASSUME NEW b \in Memory, NEW c \in Memory, NEW n \in Nat, NEW at \in Nat,
         12 <= at, at + 6 <= n, n + 8 <= BufLen,
         b[at - 2] = \h39, b[at - 1] = \hD1, b[at] = \h0F, \h82 <= b[at + 1], b[at + 1] <= \h87,
         NEW d \in Int, Short(d), d > 0 => b[at + 6] # 0,
         \A j \in 0 .. BufLen - 1 : j < at + 2 \/ at + 6 <= j => c[j] = b[j],
         c[at + 2] = Le32(d)[1], c[at + 3] = Le32(d)[2], c[at + 4] = Le32(d)[3], c[at + 5] = Le32(d)[4],
         NEW A \in SUBSET SmallOffsets,
         NEW k \in Int, 0 <= k, k < n, JmpMark(c, A, k)
  PROVE  JmpMark(b, A, k)
<1>1. BufLen \in Nat
  BY ConstantsAssumption
<1>5. CASE k <= at - 3 \/ at + 6 <= k
  <2>1. ASSUME NEW j \in Int, k <= j, j <= k + 4 PROVE c[j] = b[j]
    <3>1. j \in 0 .. BufLen - 1 /\ (j < at + 2 \/ at + 6 <= j)
      BY <1>1, <1>5, <2>1
    <3> QED
      BY <3>1
  <2> QED
    BY <2>1, SameMark
<1>6. CASE at - 3 < k /\ k < at + 2
  <2>2. k \in 0 .. BufLen - 1 /\ k < at + 2
    BY <1>1, <1>6
  <2>3. c[k] = b[k]
    BY <2>2
  <2>4. c[k] \in {\hE8, \hE9}
    BY DEF JmpMark
  <2>5. k = at - 2 \/ k = at - 1 \/ k = at \/ k = at + 1
    BY <1>6
  <2>6. b[k] \in {\h39, \hD1, \h0F} \/ (\h82 <= b[k] /\ b[k] <= \h87)
    <3>1. ASSUME k = at - 2 \/ k = at - 1 \/ k = at PROVE b[k] \in {\h39, \hD1, \h0F}
      BY <3>1
    <3>2. ASSUME k = at + 1 PROVE \h82 <= b[k] /\ b[k] <= \h87
      BY <3>2
    <3> QED
      BY <2>5, <3>1, <3>2
  <2> QED
    BY <2>3, <2>4, <2>6
<1>7. c[at + 6] \in Byte /\ c[at + 7] \in Byte /\ (d > 0 => c[at + 6] # 0)
  <2>1. at + 6 \in 0 .. BufLen - 1 /\ at + 7 \in 0 .. BufLen - 1 /\ at + 6 <= at + 6
    BY <1>1
  <2>2. c[at + 6] = b[at + 6]
    BY <2>1
  <2>3. c[at + 6] \in Byte /\ c[at + 7] \in Byte
    BY <2>1, ByteAt
  <2>4. d > 0 => c[at + 6] # 0
    BY <2>2, Zenon
  <2> QED
    BY <2>3, <2>4, Zenon
<1>8. NotAMark(Le32(d), c[at + 6], c[at + 7])
  BY <1>7, NoJumpInside
<1>9. c[k] \in {\hE8, \hE9} /\ Word(c, k) \in SmallOffsets
  BY Zenon DEF JmpMark
<1>10. CASE k = at + 2
  <2>1. /\ k + 1 = at + 3 /\ k + 2 = at + 4 /\ k + 3 = at + 5 /\ k + 4 = at + 6
    BY <1>10
  <2>2. /\ c[k] = Le32(d)[1] /\ c[k + 1] = Le32(d)[2] /\ c[k + 2] = Le32(d)[3] /\ c[k + 3] = Le32(d)[4]
        /\ c[k + 4] = c[at + 6] /\ c[k] # 0
    BY <1>9, <1>10, <2>1
  <2> DEFINE v == Le32(d)[2] + 256 * Le32(d)[3] + 65536 * Le32(d)[4] + 16777216 * Signed(c[at + 6])
  <2>3. Word(c, k) = v
    BY SMT, <2>2 DEF Word, Signed
  <2>4. v < 0 \/ v >= 65535
    BY SMT, <1>8, <2>2 DEF NotAMark
  <2> HIDE DEF v
  <2> QED
    BY <1>9, <2>3, <2>4, NotSmall
<1>11. CASE k = at + 3
  <2>1. /\ k + 1 = at + 4 /\ k + 2 = at + 5 /\ k + 3 = at + 6 /\ k + 4 = at + 7
    BY <1>11
  <2>2. /\ c[k] = Le32(d)[2] /\ c[k + 1] = Le32(d)[3] /\ c[k + 2] = Le32(d)[4]
        /\ c[k + 3] = c[at + 6] /\ c[k + 4] = c[at + 7] /\ c[k] # 0
    BY <1>9, <1>11, <2>1
  <2> DEFINE v == Le32(d)[3] + 256 * Le32(d)[4] + 65536 * c[at + 6] + 16777216 * Signed(c[at + 7])
  <2>3. Word(c, k) = v
    BY SMT, <2>2 DEF Word, Signed
  <2>4. v < 0 \/ v >= 65535
    BY SMT, <1>8, <2>2 DEF NotAMark
  <2> HIDE DEF v
  <2> QED
    BY <1>9, <2>3, <2>4, NotSmall
<1>12. CASE k = at + 4 \/ k = at + 5
  <2>1. /\ Le32(d)[3] = 0 \/ Le32(d)[3] = 255
        /\ Le32(d)[4] = 0 \/ Le32(d)[4] = 255
    BY SMT, <1>8 DEF NotAMark
  <2> QED
    BY <1>9, <1>12, <2>1
<1> QED
  BY <1>5, <1>6, <1>10, <1>11, <1>12

LEMMA NoNewJmpMark ==
  ASSUME NEW b \in Memory, NEW n \in Nat, n - 1 \in SmallOffsets, n + 8 <= BufLen,
         NEW A \in SUBSET SmallOffsets,
         NEW s \in Site, s.kind = "cond", Stands(b, n, s), NEW to \in Nat, to <= n,
         NEW k \in Int, 0 <= k, k < n,
         JmpMark(Paste(b, OperandAt(s), Le32(to - End(s))), A, k)
  PROVE  JmpMark(b, A, k)
<1>1. /\ s.at \in Nat /\ Begin(s) = s.at - 2 /\ OperandAt(s) = s.at + 2 /\ End(s) = s.at + 6
      /\ 12 <= s.at /\ s.at + 6 <= n /\ BufLen \in Nat
  BY SiteShape, ConstantsAssumption DEF Stands, PROLOG_LENGTH
<1>2. PICK d : d = to - End(s)
  OBVIOUS
<1>3. d \in Int /\ d \in Int32 /\ Short(d) /\ (d > 0 => End(s) < n)
  BY <1>1, <1>2, ShortReach
<1>4. PICK c : c = Paste(b, OperandAt(s), Le32(d))
  OBVIOUS
<1>5. /\ c \in Memory
      /\ \A j \in 0 .. BufLen - 1 : j < s.at + 2 \/ s.at + 6 <= j => c[j] = b[j]
      /\ c[s.at + 2] = Le32(d)[1] /\ c[s.at + 3] = Le32(d)[2]
      /\ c[s.at + 4] = Le32(d)[3] /\ c[s.at + 5] = Le32(d)[4]
  <2>1. OperandAt(s) \in Nat /\ OperandAt(s) + 4 <= BufLen
    BY <1>1
  <2>2. /\ c \in Memory
        /\ \A j \in 0 .. BufLen - 1 : j < OperandAt(s) \/ OperandAt(s) + 4 <= j => c[j] = b[j]
        /\ c[OperandAt(s)] = Le32(d)[1] /\ c[OperandAt(s) + 1] = Le32(d)[2]
        /\ c[OperandAt(s) + 2] = Le32(d)[3] /\ c[OperandAt(s) + 3] = Le32(d)[4]
    BY <1>3, <1>4, <2>1, PatchedBytes
  <2>3. /\ OperandAt(s) + 4 = s.at + 6 /\ OperandAt(s) + 1 = s.at + 3
        /\ OperandAt(s) + 2 = s.at + 4 /\ OperandAt(s) + 3 = s.at + 5 /\ OperandAt(s) = s.at + 2
    BY <1>1
  <2> QED
    BY <2>2, <2>3
<1>6. /\ b[s.at - 2] = \h39 /\ b[s.at - 1] = \hD1 /\ b[s.at] = \h0F
      /\ \h82 <= b[s.at + 1] /\ b[s.at + 1] <= \h87
  BY DEF Stands, IsCode
<1>7. d > 0 => b[s.at + 6] # 0
  BY <1>1, <1>3 DEF Stands
<1>8. JmpMark(c, A, k)
  BY <1>2, <1>4
<1>9. 12 <= s.at /\ s.at + 6 <= n /\ s.at \in Nat /\ c \in Memory /\ d \in Int /\ Short(d)
  BY <1>1, <1>3, <1>5
<1> QED
  BY <1>5, <1>6, <1>7, <1>8, <1>9, NoMarkInside

-----------------------------------------------------------------------------
(* All jumps of the code together.                                         *)

LEMMA JumpsApart ==
  ASSUME NEW b, NEW n, NEW S \in SUBSET Site, Jumps(b, n, S), NEW s \in S, NEW t \in S, s.at < t.at
  PROVE  End(s) <= Begin(t) /\ s.at + 5 <= t.at
<1>1. /\ s.at \in Nat /\ End(s) \in Nat /\ Begin(s) \in Int /\ s.at + 5 <= End(s) /\ Begin(s) <= s.at
  <2>1. s \in Site
    OBVIOUS
  <2> QED
    BY <2>1, SiteShape
<1>2. /\ t.at \in Nat /\ End(t) \in Nat /\ Begin(t) \in Int /\ t.at + 5 <= End(t) /\ Begin(t) <= t.at
  <2>1. t \in Site
    OBVIOUS
  <2> QED
    BY <2>1, SiteShape
<1>3. Disjoint(s, t)
  <2>1. s # t
    BY <1>1, <1>2
  <2> QED
    BY <2>1 DEF Jumps
<1> QED
  BY <1>1, <1>2, <1>3 DEF Disjoint

LEMMA JumpsAppended ==
  ASSUME NEW b \in Memory, NEW n \in Nat, NEW code \in Seq(Byte), code \in Started,
         n + Len(code) <= BufLen, NEW S \in SUBSET Site, Jumps(b, n, S)
  PROVE  /\ Jumps(Paste(b, n, code), n + Len(code), S)
         /\ \A t \in S : Held(Paste(b, n, code), t) = Held(b, t)
<1>1. ASSUME NEW t \in S
      PROVE  /\ Stands(Paste(b, n, code), n + Len(code), t)
             /\ Held(Paste(b, n, code), t) = Held(b, t)
  <2>1. t \in Site /\ Stands(b, n, t)
    BY DEF Jumps
  <2> QED
    BY <2>1, StandsBefore
<1> QED
  BY <1>1, Zenon DEF Jumps

(* Code at the end of b whose one jump is s.                               *)
JumpAtEnd(b, n, code, S, s) ==
  /\ b \in Memory /\ n \in Nat /\ n >= 10 /\ code \in Seq(Byte) /\ code \in Started
  /\ n + Len(code) <= BufLen /\ S \in SUBSET Site /\ Jumps(b, n, S)
  /\ LaidOut(code, n, s) /\ (s.kind = "external" => s.target \in Int32)

OneJumpMore(b, n, code, S, s) ==
  /\ Jumps(Paste(b, n, code), n + Len(code), S \cup {s})
  /\ \A t \in S : Held(Paste(b, n, code), t) = Held(b, t)
  /\ s.target \in Int32 => Held(Paste(b, n, code), s) = s.target

LEMMA JumpAdded ==
  ASSUME NEW b, NEW n, NEW code, NEW S, NEW s, JumpAtEnd(b, n, code, S, s)
  PROVE  OneJumpMore(b, n, code, S, s)
<1> USE DEF JumpAtEnd
<1>1. PICK c : c = Paste(b, n, code)
  OBVIOUS
<1>2. PICK m : m = n + Len(code)
  OBVIOUS
<1>3. Jumps(c, m, S) /\ \A t \in S : Held(c, t) = Held(b, t)
  BY <1>1, <1>2, JumpsAppended
<1>4. Stands(c, m, s) /\ (s.target \in Int32 => Held(c, s) = s.target)
  BY <1>1, <1>2, StandsNew
<1>5. ASSUME NEW t \in S PROVE Disjoint(s, t) /\ Disjoint(t, s)
  <2>1. End(t) <= n /\ t \in Site
    BY DEF Jumps, Stands
  <2>2. s \in Site /\ n <= Begin(s)
    BY DEF LaidOut
  <2>3. End(t) \in Nat /\ Begin(s) \in Int
    BY <2>1, <2>2, SiteShape
  <2>4. End(t) <= Begin(s)
    BY <2>1, <2>2, <2>3
  <2> QED
    BY <2>4, Zenon DEF Disjoint
<1>6. Jumps(c, m, S \cup {s})
  <2>1. \A t \in S \cup {s} : Stands(c, m, t)
    BY <1>3, <1>4, Zenon DEF Jumps
  <2>2. \A t, u \in S : t # u => Disjoint(t, u)
    BY Zenon DEF Jumps
  <2>3. \A t, u \in S \cup {s} : t # u => Disjoint(t, u)
    BY <1>5, <2>2, Zenon
  <2> QED
    BY <2>1, <2>3, Zenon DEF Jumps
<1> QED
  BY <1>1, <1>2, <1>3, <1>4, <1>6 DEF OneJumpMore

LEMMA JumpsPatched ==
  ASSUME NEW b \in Memory, NEW n \in Nat, n <= BufLen, NEW S \in SUBSET Site, Jumps(b, n, S),
         NEW s \in S, s.kind # "external", NEW d \in Int
  PROVE  LET c == Paste(b, OperandAt(s), Le32(d))
         IN  /\ Jumps(c, n, S)
             /\ \A t \in S : t # s => Held(c, t) = Held(b, t)
             /\ d \in Int32 => Held(c, s) = d
<1> DEFINE c == Paste(b, OperandAt(s), Le32(d))
<1>1. ASSUME NEW t \in S
      PROVE  /\ Stands(c, n, t)
             /\ t # s => Held(c, t) = Held(b, t)
             /\ d \in Int32 => Held(c, s) = d
  <2>1. s \in Site /\ t \in Site /\ Stands(b, n, s) /\ Stands(b, n, t) /\ (t = s \/ Disjoint(s, t))
    BY DEF Jumps
  <2> QED
    BY <2>1, OperandPatched
<1> HIDE DEF c
<1>2. Jumps(c, n, S)
  BY <1>1, Zenon DEF Jumps
<1> QED
  BY <1>1, <1>2, Zenon DEF c

(* What the first pass leaves of the marks, beyond the jump it has patched.*)
LEMMA CondPatchMarks ==
  ASSUME NEW b \in Memory, NEW n \in Nat, n - 1 \in SmallOffsets, n + 8 <= BufLen,
         NEW S \in SUBSET Site, Jumps(b, n, S), NEW A \in SUBSET SmallOffsets,
         NEW s \in S, s.kind = "cond", NEW to \in Nat, to <= n,
         NEW from \in Int, from <= s.at,
         CondMarksAreJumps(b, n, S, from), JmpMarksAreJumps(b, n, S, A, 0)
  PROVE  LET c == Paste(b, OperandAt(s), Le32(to - End(s)))
         IN  /\ CondMarksAreJumps(c, n, S, s.at + 5)
             /\ JmpMarksAreJumps(c, n, S, A, 0)
<1>1. s \in Site /\ Stands(b, n, s)
  BY DEF Jumps
<1>2. /\ s.at \in Nat /\ OperandAt(s) = s.at + 2 /\ End(s) = s.at + 6 /\ s.at + 6 <= n
      /\ BufLen \in Nat /\ OperandAt(s) \in Nat
  BY <1>1, SiteShape, ConstantsAssumption DEF Stands
<1>3. PICK d : d = to - End(s)
  OBVIOUS
<1>4. d \in Int /\ Short(d)
  BY <1>1, <1>2, <1>3, ShortReach
<1>5. PICK c : c = Paste(b, OperandAt(s), Le32(d))
  OBVIOUS
<1>6. /\ \A j \in 0 .. BufLen - 1 : OperandAt(s) + 4 <= j => c[j] = b[j]
      /\ c[OperandAt(s) + 3] = Le32(d)[4]
  <2>1. OperandAt(s) + 4 <= BufLen
    BY <1>2
  <2> QED
    BY ZenonT(40), <1>2, <1>4, <1>5, <2>1, PatchedBytes
<1>7. c[s.at + 5] # \h0F
  <2>1. Le32(d)[4] = 0 \/ Le32(d)[4] = 255
    <3>1. NotAMark(Le32(d), 1, 1)
      <4>1. 1 \in Byte
        BY ByteRange
      <4> QED
        BY <1>4, <4>1, NoJumpInside
    <3> QED
      BY SMT, <3>1 DEF NotAMark
  <2>2. OperandAt(s) + 3 = s.at + 5
    BY <1>2
  <2> QED
    BY <1>6, <2>1, <2>2
<1>8. ASSUME NEW k \in Int, s.at + 5 <= k, k < n, CondMark(c, k)
      PROVE  \E t \in S : t.at = k /\ t.kind = "cond"
  <2>1. k # s.at + 5
    BY <1>7, <1>8 DEF CondMark
  <2>2. s.at + 6 <= k
    BY <1>2, <1>8, <2>1
  <2>3. ASSUME NEW j \in Int, k <= j, j <= k + 4 PROVE c[j] = b[j]
    <3>1. j \in 0 .. BufLen - 1 /\ OperandAt(s) + 4 <= j
      BY <1>2, <1>8, <2>2, <2>3
    <3> QED
      BY <1>6, <3>1
  <2>4. CondMark(b, k)
    BY <1>8, <2>3, SameMark
  <2>5. from <= k
    BY <1>2, <1>8
  <2> QED
    BY <1>8, <2>4, <2>5 DEF CondMarksAreJumps
<1>9. ASSUME NEW k \in Int, 0 <= k, k < n, JmpMark(c, A, k)
      PROVE  \E t \in S : t.at = k /\ t.kind \in {"jmp", "external"}
  <2>1. JmpMark(b, A, k)
    BY <1>1, <1>3, <1>5, <1>9, NoNewJmpMark
  <2> QED
    BY <1>9, <2>1 DEF JmpMarksAreJumps
<1>10. CondMarksAreJumps(c, n, S, s.at + 5) /\ JmpMarksAreJumps(c, n, S, A, 0)
  BY <1>8, <1>9 DEF CondMarksAreJumps, JmpMarksAreJumps
<1> QED
  BY <1>3, <1>5, <1>10

(* The second pass goes on behind what it has written.                     *)
LEMMA JmpPatchMarks ==
  ASSUME NEW b \in Memory, NEW n \in Nat, n + 8 <= BufLen,
         NEW S \in SUBSET Site, Jumps(b, n, S), NEW A,
         NEW s \in S, s.kind = "jmp", NEW d \in Int,
         NEW from \in Int, from <= s.at, JmpMarksAreJumps(b, n, S, A, from)
  PROVE  JmpMarksAreJumps(Paste(b, OperandAt(s), Le32(d)), n, S, A, s.at + 5)
<1>1. s \in Site /\ Stands(b, n, s)
  BY DEF Jumps
<1>2. /\ s.at \in Nat /\ OperandAt(s) = s.at + 1 /\ End(s) = s.at + 5 /\ s.at + 5 <= n
      /\ BufLen \in Nat /\ OperandAt(s) \in Nat
  BY <1>1, SiteShape, ConstantsAssumption DEF Stands
<1>3. PICK c : c = Paste(b, OperandAt(s), Le32(d))
  OBVIOUS
<1>4. \A j \in 0 .. BufLen - 1 : OperandAt(s) + 4 <= j => c[j] = b[j]
  <2>1. OperandAt(s) + 4 <= BufLen
    BY <1>2
  <2> QED
    BY <1>2, <1>3, <2>1, PatchedBytes
<1>5. ASSUME NEW k \in Int, s.at + 5 <= k, k < n, JmpMark(c, A, k)
      PROVE  \E t \in S : t.at = k /\ t.kind \in {"jmp", "external"}
  <2>1. ASSUME NEW j \in Int, k <= j, j <= k + 4 PROVE c[j] = b[j]
    <3>1. j \in 0 .. BufLen - 1 /\ OperandAt(s) + 4 <= j
      BY <1>2, <1>5, <2>1
    <3> QED
      BY <1>4, <3>1
  <2>2. JmpMark(b, A, k)
    BY <1>5, <2>1, SameMark
  <2>3. from <= k
    BY <1>2, <1>5
  <2> QED
    BY <1>5, <2>2, <2>3 DEF JmpMarksAreJumps
<1> QED
  BY <1>3, <1>5 DEF JmpMarksAreJumps

-----------------------------------------------------------------------------
(* The inductive invariant of the linking.                                 *)

(* What is behind the code is the filling.                                 *)
Filled(b, from, to) == \A k \in Int : from <= k /\ k < to => b[k] = RET_BYTE

(* The values the second pass takes for offsets of the guest.              *)
Offsets == { o \in Int : HasLabel(o) \/ o \in 0 .. size - 1 }

Pending(s)  == s.target \in Int32 => Held(buf, s) = s.target
Resolved(s) == End(s) + Held(buf, s) = NewAddress(s.target)

LabelsShort == \A n \in DOMAIN labels : labels[n].my_address \in SmallOffsets

Linking == phase \in {"cond_jmps", "calls_jmps", "memory_offset"}

Laid == Jumps(buf, size, sites) /\ Filled(buf, size, capacity)

(* Every mark a pass has still before it is that of a jump.                *)
MarksAreJumps ==
  /\ phase = "cond_jmps" => /\ CondMarksAreJumps(buf, size, sites, i)
                            /\ JmpMarksAreJumps(buf, size, sites, Offsets, 0)
  /\ phase = "calls_jmps" => JmpMarksAreJumps(buf, size, sites, Offsets, i)

(* A pass has resolved the jumps of its kind that it has behind it.        *)
HalfLinked ==
  \A s \in sites :
    /\ s.kind = "cond" => /\ phase = "cond_jmps" /\ s.at >= i => Pending(s)
                          /\ phase # "cond_jmps" \/ s.at < i => Resolved(s)
    /\ s.kind = "jmp" => /\ phase = "cond_jmps" => Pending(s)
                         /\ phase = "calls_jmps" /\ s.at >= i => Pending(s)
                         /\ phase = "calls_jmps" /\ s.at < i => Resolved(s)
                         /\ phase = "memory_offset" => Resolved(s)

InProlog  == phase = "prolog" => sites = {} /\ Filled(buf, 1, capacity)
InTokens  == phase = "tokens" => Laid /\ \A s \in sites : Pending(s)
InLinking == Linking /\ Unmistakable => Laid /\ MarksAreJumps
InOrder   == Linking /\ Linkable => HalfLinked
AtEnd     == phase = "return_value" /\ Unmistakable /\ size >= 12 => Filled(buf, size + 1, capacity)

LInv ==
  /\ tokens \in Programs
  /\ LabelsShort
  /\ InProlog /\ InTokens /\ InLinking /\ InOrder /\ AtEnd
  /\ EndsInRet

-----------------------------------------------------------------------------
(* Room and types.                                                         *)

LEMMA ShortSize ==
  ASSUME ShortCode, IInv, tokens \in Programs, phase # "ready"
  PROVE  size <= 65530
<1>1. size \in Nat /\ Len(tokens) \in Nat
  BY DEF IInv, TypeOK
<1>2. size <= 10 + 16 * Len(tokens)
  BY RoomOfAll
<1>3. Len(tokens) <= 4095
  BY SMT DEF ShortCode
<1> QED
  BY SMT, <1>1, <1>2, <1>3

LEMMA Room ==
  ASSUME ShortCode, IInv, tokens \in Programs, phase \notin {"prolog", "ready"}
  PROVE  /\ size \in Nat /\ size >= 10 /\ size - 1 \in SmallOffsets /\ size + 22 <= BufLen
         /\ phase = "tokens" /\ i < Len(tokens) => size + 38 <= BufLen
         /\ BufLen \in Nat /\ capacity \in Nat /\ capacity <= BufLen
         /\ buf \in Memory /\ sites \in SUBSET Site /\ i \in Nat /\ Len(tokens) \in Nat
<1>1. /\ size \in Nat /\ i \in Nat /\ buf \in Memory /\ sites \in SUBSET Site /\ Len(tokens) \in Nat
      /\ BufLen \in Nat
  BY ConstantsAssumption DEF IInv, TypeOK, Memory
<1>2. size >= 10
  BY DEF IInv, Start, PROLOG_LENGTH
<1>3. 32 + 16 * Len(tokens) <= BufLen
  BY DEF IInv, IsProgram
<1>6. ASSUME phase = "tokens", i < Len(tokens) PROVE size + 38 <= BufLen
  <2>1. size <= 10 + 16 * i
    <3>1. size <= 10 + 16 * i + 0
      BY <1>6, <1>1 DEF IInv, SizeBound, PROLOG_LENGTH, MAX_TOKEN_CODE
    <3> QED
      BY <1>1, <3>1
  <2>2. 16 * i + 16 <= 16 * Len(tokens)
    BY <1>1, <1>6
  <2> QED
    BY <1>1, <1>3, <2>1, <2>2
<1>7. size - 1 \in SmallOffsets
  <2>1. size - 1 \in Nat /\ size - 1 <= 65534
    BY SMT, <1>1, <1>2, ShortSize
  <2> QED
    BY SMT, <2>1 DEF SmallOffsets
<1>8. capacity \in Nat /\ capacity <= BufLen
  BY <1>1, <1>3 DEF capacity
<1>9. size + 22 <= BufLen
  BY <1>1, <1>3, RoomOfAll
<1> QED
  BY <1>1, <1>2, <1>3, <1>6, <1>7, <1>8, <1>9

LEMMA Downwards ==
  ASSUME NEW a \in SmallOffsets, NEW o \in Nat, o <= a
  PROVE  o \in SmallOffsets
BY SMT DEF SmallOffsets

LEMMA OffsetsShort ==
  ASSUME LabelsShort, size \in Nat, size - 1 \in SmallOffsets
  PROVE  Offsets \in SUBSET SmallOffsets
<1>1. ASSUME NEW o \in Int, HasLabel(o) PROVE o \in SmallOffsets
  BY <1>1 DEF HasLabel, LabelsShort
<1>2. ASSUME NEW o \in Int, o \in 0 .. size - 1 PROVE o \in SmallOffsets
  <2>1. o \in Nat /\ o <= size - 1
    BY <1>2
  <2> QED
    BY <2>1, Downwards
<1> QED
  BY <1>1, <1>2, Zenon DEF Offsets

LEMMA WordInt ==
  ASSUME NEW b \in Memory, NEW k \in Nat, k + 4 < BufLen
  PROVE  Word(b, k) \in Int
<1> DEFINE b1 == b[k + 1]
           b2 == b[k + 2]
           b3 == b[k + 3]
           b4 == IF b[k + 4] < 128 THEN b[k + 4] ELSE b[k + 4] - 256
<1>1. b[k + 1] \in Byte /\ b[k + 2] \in Byte /\ b[k + 3] \in Byte /\ b[k + 4] \in Byte
  BY ConstantsAssumption DEF Memory
<1>2. b1 \in Int /\ b2 \in Int /\ b3 \in Int /\ b4 \in Int
  BY <1>1, ByteRange
<1>3. Word(b, k) = b1 + 256 * b2 + 65536 * b3 + 16777216 * b4
  BY SMT DEF Word
<1> HIDE DEF b1, b2, b3, b4
<1> QED
  BY SMT, <1>2, <1>3

(* The marks of the model are those of the proof.                          *)
LEMMA SameMarks ==
  ASSUME NEW k \in Nat, k + 4 < BufLen, buf \in Memory
  PROVE  /\ IsCondMark(k) <=> CondMark(buf, k)
         /\ JmpOffset(k) = Word(buf, k) /\ JmpOffset(k) \in Int
         /\ IsJmpMark(k) /\ (HasLabel(JmpOffset(k)) \/ JmpOffset(k) \in 0 .. size - 1)
              <=> JmpMark(buf, Offsets, k)
<1>1. IsCondMark(k) <=> CondMark(buf, k)
  BY Zenon DEF IsCondMark, CondMark
<1>2. JmpOffset(k) = Word(buf, k)
  BY SMT DEF JmpOffset, Word
<1>3. JmpOffset(k) \in Int
  BY <1>2, WordInt
<1>4. IsJmpMark(k) <=> buf[k] \in {\hE8, \hE9}
  BY Zenon DEF IsJmpMark
<1>5. JmpOffset(k) \in Offsets <=> HasLabel(JmpOffset(k)) \/ JmpOffset(k) \in 0 .. size - 1
  BY <1>3, Zenon DEF Offsets
<1> QED
  BY <1>1, <1>2, <1>3, <1>4, <1>5, Zenon DEF JmpMark

LEMMA FilledAppended ==
  ASSUME NEW b \in Memory, NEW n \in Nat, NEW code \in Seq(Byte), NEW from \in Nat,
         n + Len(code) >= from, NEW to \in Nat, to <= BufLen, Filled(b, from, to)
  PROVE  Filled(Paste(b, n, code), n + Len(code), to)
<1>1. PICK c : c = Paste(b, n, code)
  OBVIOUS
<1>2. \A k \in 0 .. BufLen - 1 : n + Len(code) <= k => c[k] = b[k]
  BY <1>1, PasteAt
<1>3. ASSUME NEW k \in Int, n + Len(code) <= k, k < to PROVE c[k] = RET_BYTE
  <2>1. k \in 0 .. BufLen - 1 /\ from <= k
    BY <1>3, ConstantsAssumption
  <2> QED
    BY <1>2, <1>3, <2>1 DEF Filled
<1> QED
  BY <1>1, <1>3 DEF Filled

LEMMA FilledPatched ==
  ASSUME NEW b \in Memory, NEW at \in Nat, NEW d \in Int, NEW n \in Nat, at + 4 <= n, n <= BufLen,
         NEW to \in Nat, to <= BufLen, Filled(b, n, to)
  PROVE  Filled(Paste(b, at, Le32(d)), n, to)
<1>1. PICK c : c = Paste(b, at, Le32(d))
  OBVIOUS
<1>2. \A k \in 0 .. BufLen - 1 : at + 4 <= k => c[k] = b[k]
  <2>1. at + 4 <= BufLen
    BY ConstantsAssumption
  <2> QED
    BY <1>1, <2>1, PatchedBytes
<1>3. ASSUME NEW k \in Int, n <= k, k < to PROVE c[k] = RET_BYTE
  <2>1. k \in 0 .. BufLen - 1 /\ at + 4 <= k
    BY <1>3, ConstantsAssumption
  <2> QED
    BY <1>2, <1>3, <2>1 DEF Filled
<1> QED
  BY <1>1, <1>3 DEF Filled
-----------------------------------------------------------------------------
(* The steps that write the code.                                          *)

LEMMA LInit == ASSUME ShortCode, Init PROVE LInv
<1>1. /\ tokens \in Programs /\ IsProgram(tokens) /\ labels = << >> /\ phase = "prolog" /\ sites = {}
      /\ Len(tokens) \in Nat
  BY ProgramsAssumption DEF Init, IsProgram
<1>2. PICK heap \in HeapBytes :
        buf = [k \in 0 .. BufLen - 1 |->
                 IF k = 0 /\ RunWithInt3 THEN INT3 ELSE IF k < capacity THEN RET_BYTE ELSE heap]
  BY DEF Init
<1>3. capacity \in Nat /\ capacity <= BufLen /\ BufLen \in Nat
  BY <1>1, ConstantsAssumption DEF IsProgram, capacity
<1>4. Filled(buf, 1, capacity)
  BY <1>2, <1>3 DEF Filled
<1>5. LabelsShort
  BY <1>1 DEF LabelsShort
<1> QED
  BY <1>1, <1>4, <1>5 DEF LInv, InProlog, InTokens, InLinking, InOrder, AtEnd, EndsInRet, Linking

LEMMA TokensPhase ==
  ASSUME phase' = "tokens", tokens' \in Programs, LabelsShort', Laid', (\A s \in sites : Pending(s))'
  PROVE  LInv'
BY DEF LInv, InProlog, InTokens, InLinking, InOrder, AtEnd, EndsInRet, Linking

LEMMA LProlog == ASSUME ShortCode, IInv, LInv, Prolog PROVE LInv'
<1> DEFINE code == SetCallStack \o insert_nops(size + Len(SetCallStack), PROLOG_LENGTH)
<1>1. /\ tokens \in Seq(Token) /\ size \in 0..1 /\ size \in Nat /\ buf \in Memory /\ Len(tokens) \in Nat
      /\ IsProgram(tokens) /\ tokens \in Programs /\ LabelsShort
  BY DEF IInv, TypeOK, Start, Prolog, LInv, Memory
<1>2. code \in Seq(Byte) /\ size + Len(code) = 10
  BY <1>1, PrologType DEF PROLOG_LENGTH
<1>3. buf' = Paste(buf, size, code) /\ size' = size + Len(code)
  BY DEF Prolog
<1> HIDE DEF code
<1>4. UNCHANGED << tokens, beyond, i, labels, sites, stray >> /\ phase' = "tokens"
  BY DEF Prolog
<1>5. sites = {} /\ Filled(buf, 1, capacity)
  BY DEF LInv, InProlog, Prolog
<1>6. capacity \in Nat /\ capacity <= BufLen /\ capacity' = capacity
  BY <1>1, <1>4, ConstantsAssumption DEF IsProgram, capacity
<1>7. Filled(Paste(buf, size, code), size + Len(code), capacity)
  <2>1. 1 \in Nat /\ size + Len(code) >= 1
    BY <1>2
  <2> QED
    BY <1>1, <1>2, <1>5, <1>6, <2>1, FilledAppended
<1>8. Laid'
  <2>1. Jumps(buf', size', {})
    BY DEF Jumps
  <2> QED
    BY <1>3, <1>4, <1>5, <1>6, <1>7, <2>1, Zenon DEF Laid
<1>9. LabelsShort'
  BY <1>1, <1>4 DEF LabelsShort
<1> QED
  BY <1>1, <1>4, <1>5, <1>8, <1>9, TokensPhase

LEMMA EmitLaid ==
  ASSUME ShortCode, IInv, LInv, phase = "tokens", i < Len(tokens),
         NEW code \in BytesUpTo(16), code \in Started, Emit(code)
  PROVE  /\ buf' = Paste(buf, size, code) /\ size' = size + Len(code)
         /\ code \in Seq(Byte) /\ Len(code) \in Nat /\ size + Len(code) <= BufLen
         /\ Jumps(buf', size', sites) /\ Filled(buf', size', capacity)
         /\ \A s \in sites : Held(buf', s) = Held(buf, s)
<1>1. buf' = Paste(buf, size, code) /\ size' = size + Len(code)
  BY Zenon DEF Emit
<1>2. code \in Seq(Byte) /\ Len(code) \in Nat /\ Len(code) <= 16
  BY BytesLength
<1>3. tokens \in Programs /\ phase \notin {"prolog", "ready"}
  BY DEF LInv
<1>4. /\ size \in Nat /\ size + 38 <= BufLen /\ capacity \in Nat /\ capacity <= BufLen
      /\ buf \in Memory /\ sites \in SUBSET Site /\ BufLen \in Nat
  BY <1>3, Room
<1>5. size + Len(code) <= BufLen /\ size + Len(code) >= size
  BY <1>2, <1>4
<1>6. Jumps(buf, size, sites) /\ Filled(buf, size, capacity)
  BY DEF LInv, InTokens, Laid
<1>7. /\ Jumps(Paste(buf, size, code), size + Len(code), sites)
      /\ \A s \in sites : Held(Paste(buf, size, code), s) = Held(buf, s)
  BY <1>2, <1>4, <1>5, <1>6, JumpsAppended
<1>8. Filled(Paste(buf, size, code), size + Len(code), capacity)
  BY <1>2, <1>4, <1>5, <1>6, FilledAppended
<1> QED
  BY <1>1, <1>2, <1>5, <1>7, <1>8, Zenon

LEMMA LFoldTokens == ASSUME ShortCode, IInv, LInv, FoldTokens PROVE LInv'
<1>1. i \in Nat /\ tokens \in Seq(Token) /\ beyond \in Token
  BY DEF IInv, TypeOK
<1>2. Look(i) \in Window
  BY <1>1, WindowType
<1>3. Fold_i.bytes \in BytesUpTo(16) /\ Fold_i.bytes \in Started
  BY <1>2, FoldsFit DEF Fold_i
<1>4. /\ phase = "tokens" /\ i < Len(tokens) /\ Emit(Fold_i.bytes)
      /\ UNCHANGED << tokens, beyond, labels, phase, sites, stray >>
  BY DEF FoldTokens
<1>5. /\ Jumps(buf', size', sites) /\ Filled(buf', size', capacity)
      /\ \A s \in sites : Held(buf', s) = Held(buf, s)
  BY <1>3, <1>4, EmitLaid
<1>6. Laid'
  BY <1>4, <1>5, Zenon DEF Laid, capacity
<1>7. (\A s \in sites : Pending(s))'
  <2>1. \A s \in sites : Pending(s)
    BY <1>4 DEF LInv, InTokens
  <2>2. ASSUME NEW s \in sites' PROVE s.target \in Int32 => Held(buf', s) = s.target
    BY <1>4, <1>5, <2>1 DEF Pending
  <2> QED
    BY <2>2 DEF Pending
<1>8. tokens' \in Programs /\ LabelsShort' /\ phase' = "tokens"
  BY <1>4 DEF LInv, LabelsShort
<1> QED
  BY <1>6, <1>7, <1>8, TokensPhase

LEMMA LInsertLabel == ASSUME ShortCode, IInv, LInv, InsertLabel PROVE LInv'
<1>1. /\ size \in Nat /\ i \in Nat /\ tokens \in Seq(Token) /\ Len(tokens) \in Nat
      /\ labels \in Seq(Label) /\ Len(labels) \in Nat /\ tokens \in Programs /\ LabelsShort
  BY DEF IInv, TypeOK, LInv
<1>2. /\ phase = "tokens" /\ i < Len(tokens) /\ TokenAt(i).my_cmd = CMD_MY_LABEL
      /\ UNCHANGED << tokens, beyond, buf, size, sites, stray >>
  BY DEF InsertLabel
<1>3. i + 1 \in 1..Len(tokens) /\ TokenAt(i) = tokens[i + 1] /\ tokens[i + 1] \in Token
  BY <1>1, <1>2 DEF TokenAt
<1>4. TokenAt(i).offset \in SmallOffsets
  <2>1. tokens[i + 1].offset \in Int
    BY <1>3, TokenFields
  <2>2. 0 <= tokens[i + 1].offset /\ tokens[i + 1].offset <= 65534
    BY SMT, <1>1, <1>2, <1>3 DEF ShortCode
  <2> QED
    BY SMT, <1>3, <2>1, <2>2 DEF SmallOffsets
<1>5. CASE phase' = "label_overflow" /\ UNCHANGED labels
  BY <1>1, <1>2, <1>5
     DEF LInv, LabelsShort, InProlog, InTokens, InLinking, InOrder, AtEnd, EndsInRet, Linking
<1>6. CASE phase' = phase /\ labels' = insert_label(TokenAt(i))
  <2>1. labels' = Append(labels, LabelOf(TokenAt(i)))
    BY <1>6, Zenon DEF insert_label
  <2>2. LabelOf(TokenAt(i)).my_address \in SmallOffsets
    BY <1>4 DEF LabelOf
  <2>3. LabelsShort'
    <3>1. LabelOf(TokenAt(i)) \in Label
      <4>1. TokenAt(i).offset \in Int
        BY <1>3, TokenFields
      <4> QED
        BY <1>1, <4>1 DEF LabelOf, Label
    <3> DEFINE entry == LabelOf(TokenAt(i))
    <3>2. entry \in Label /\ entry.my_address \in SmallOffsets /\ labels' = Append(labels, entry)
      BY <2>1, <2>2, <3>1
    <3> HIDE DEF entry
    <3>3. ASSUME NEW n \in DOMAIN labels' PROVE labels'[n].my_address \in SmallOffsets
      <4>1. CASE n = Len(labels) + 1
        BY <1>1, <3>2, <4>1
      <4>2. CASE n \in DOMAIN labels
        <5>1. labels'[n] = labels[n]
          BY <1>1, <3>2, <4>2
        <5> QED
          BY <1>1, <4>2, <5>1 DEF LabelsShort
      <4>3. n = Len(labels) + 1 \/ n \in DOMAIN labels
        BY <1>1, <3>2
      <4> QED
        BY <4>1, <4>2, <4>3
    <3> QED
      BY <3>3 DEF LabelsShort
  <2>4. Laid' /\ (\A s \in sites : Pending(s))'
    <3>1. Laid /\ \A s \in sites : Pending(s)
      BY <1>2 DEF LInv, InTokens
    <3> QED
      BY <1>2, <3>1 DEF Laid, capacity, Pending
  <2> QED
    BY <1>1, <1>2, <1>6, <2>3, <2>4, TokensPhase
<1> QED
  BY <1>5, <1>6 DEF InsertLabel

LEMMA LAssembleToken == ASSUME ShortCode, IInv, LInv, AssembleToken PROVE LInv'
<1>1. /\ i \in Nat /\ tokens \in Seq(Token) /\ beyond \in Token
      /\ tokens \in Programs /\ LabelsShort
  BY DEF IInv, TypeOK, LInv
<1>2. /\ phase = "tokens" /\ i < Len(tokens)
      /\ Emit(x86_cmd_ctor(TokenAt(i), JitBuf + size))
      /\ sites' = sites \cup SitesOf(TokenAt(i), size)
      /\ UNCHANGED << tokens, beyond, labels, phase, stray >>
  BY DEF AssembleToken
<1>3. /\ size \in Nat /\ size >= 10 /\ buf \in Memory /\ sites \in SUBSET Site
      /\ size - 1 \in SmallOffsets /\ phase \notin {"prolog", "ready"}
  BY <1>1, <1>2, Room
<1>4. PICK token \in Token : token = TokenAt(i)
  BY <1>1, WindowType
<1>5. PICK code : code = x86_cmd_ctor(token, JitBuf + size)
  OBVIOUS
<1>6. code \in BytesUpTo(16) /\ code \in Started
  <2>1. JitBuf + size \in Nat /\ PrintDecimal \in Int /\ ScanDecimal \in Int
    BY <1>3, ConstantsAssumption
  <2> QED
    BY <1>5, <2>1, TokensFit16
<1>7. Emit(code)
  BY <1>2, <1>4, <1>5
<1>8. /\ buf' = Paste(buf, size, code) /\ size' = size + Len(code)
      /\ code \in Seq(Byte) /\ Len(code) \in Nat /\ size + Len(code) <= BufLen
      /\ Jumps(buf', size', sites) /\ Filled(buf', size', capacity)
      /\ \A s \in sites : Held(buf', s) = Held(buf, s)
  BY <1>2, <1>6, <1>7, EmitLaid
<1>9. Jumps(buf, size, sites) /\ \A s \in sites : Pending(s)
  BY <1>2 DEF LInv, InTokens, Laid
<1>10. ASSUME NEW s \in SitesOf(token, size)
       PROVE  /\ SitesOf(token, size) = {s}
              /\ Jumps(buf', size', sites \cup {s})
              /\ s.target \in Int32 => Held(buf', s) = s.target
  <2>1. /\ SitesOf(token, size) = {s} /\ LaidOut(code, size, s)
        /\ s.kind = "external" => \E p \in {PrintDecimal, ScanDecimal} : s.target = p - (JitBuf + size + 5)
    BY <1>3, <1>5, SiteBytes
  <2>2. ASSUME s.kind = "external" PROVE s.target \in Int32
    <3>1. PICK p \in {PrintDecimal, ScanDecimal} : s.target = p - (JitBuf + size + 5)
      BY <2>1, <2>2
    <3>2. p \in Nat /\ JitBuf \in Nat
      BY ConstantsAssumption
    <3>3. p <= 2147483647 /\ JitBuf + 65535 <= 2147483647
      BY SMT, <3>1 DEF ShortCode
    <3>4. size <= 65530
      BY <1>1, <1>2, ShortSize
    <3> QED
      BY SMT, <1>3, <3>1, <3>2, <3>3, <3>4 DEF Int32
  <2>3. /\ Jumps(Paste(buf, size, code), size + Len(code), sites \cup {s})
        /\ s.target \in Int32 => Held(Paste(buf, size, code), s) = s.target
    <3>1. JumpAtEnd(buf, size, code, sites, s)
      BY <1>3, <1>6, <1>8, <1>9, <2>1, <2>2 DEF JumpAtEnd
    <3>2. OneJumpMore(buf, size, code, sites, s)
      BY <3>1, JumpAdded, Zenon
    <3> QED
      BY <3>2, Zenon DEF OneJumpMore
  <2> QED
    BY <1>8, <2>1, <2>3, Zenon
<1>11. Jumps(buf', size', sites') /\ \A s \in sites' : s.target \in Int32 => Held(buf', s) = s.target
  <2>1. CASE SitesOf(token, size) = {}
    <3>1. sites' = sites
      BY <1>2, <1>4, <2>1
    <3> QED
      BY <1>8, <1>9, <3>1 DEF Pending
  <2>2. CASE SitesOf(token, size) # {}
    <3>1. PICK s \in SitesOf(token, size) : TRUE
      BY <2>2
    <3>2. /\ SitesOf(token, size) = {s} /\ Jumps(buf', size', sites \cup {s})
          /\ s.target \in Int32 => Held(buf', s) = s.target
      BY <1>10
    <3>3. sites' = sites \cup {s}
      BY <1>2, <1>4, <3>2
    <3> QED
      BY <1>8, <1>9, <3>2, <3>3 DEF Pending
  <2> QED
    BY <2>1, <2>2
<1>12. Laid'
  BY <1>2, <1>8, <1>11, Zenon DEF Laid, capacity
<1>13. (\A s \in sites : Pending(s))'
  BY <1>11 DEF Pending
<1>14. tokens' \in Programs /\ LabelsShort' /\ phase' = "tokens"
  BY <1>1, <1>2 DEF LabelsShort
<1> QED
  BY <1>12, <1>13, <1>14, TokensPhase
-----------------------------------------------------------------------------
(* The steps of the two passes.                                            *)

(* What holds while the passes run, whatever the step is.                  *)
LEMMA LinkingPhase ==
  ASSUME Linking', tokens' \in Programs, LabelsShort', InLinking', InOrder'
  PROVE  LInv'
BY DEF LInv, InProlog, InTokens, AtEnd, EndsInRet, Linking

LEMMA EndOfTokensMarks ==
  ASSUME ShortCode, IInv, LInv, EndOfTokens, stray' = {}
  PROVE  /\ CondMarksAreJumps(buf, size, sites, 0)
         /\ JmpMarksAreJumps(buf, size, sites, Offsets, 0)
<1>1. phase = "tokens" /\ tokens \in Programs
  BY DEF EndOfTokens, LInv
<1>2. /\ size \in Nat /\ size + 22 <= BufLen /\ buf \in Memory /\ sites \in SUBSET Site /\ BufLen \in Nat
  BY <1>1, Room
<1>3. ASSUME NEW k \in 0 .. size - 1, IsTaken(k)
      PROVE  \E s \in sites : s.at = k /\ s.kind \in KindsOf(k)
  BY <1>3, Zenon DEF EndOfTokens
<1>4. ASSUME NEW k \in Int, 0 <= k, k < size, CondMark(buf, k)
      PROVE  \E s \in sites : s.at = k /\ s.kind = "cond"
  <2>1. k \in Nat /\ k + 4 < BufLen /\ k \in 0 .. size - 1
    BY <1>2, <1>4
  <2>2. IsCondMark(k)
    BY <1>2, <1>4, <2>1, SameMarks
  <2>3. IsTaken(k) /\ KindsOf(k) = {"cond"}
    BY <2>2, Zenon DEF IsTaken, KindsOf
  <2> QED
    BY <1>3, <2>1, <2>3
<1>5. ASSUME NEW k \in Int, 0 <= k, k < size, JmpMark(buf, Offsets, k)
      PROVE  \E s \in sites : s.at = k /\ s.kind \in {"jmp", "external"}
  <2>1. k \in Nat /\ k + 4 < BufLen /\ k \in 0 .. size - 1
    BY <1>2, <1>5
  <2>2. IsJmpMark(k) /\ (HasLabel(JmpOffset(k)) \/ JmpOffset(k) \in 0 .. size - 1)
    BY <1>2, <1>5, <2>1, SameMarks
  <2>3. ~IsCondMark(k)
    BY <2>2 DEF IsCondMark, IsJmpMark
  <2>4. IsTaken(k) /\ KindsOf(k) = {"jmp", "external"}
    BY <2>2, <2>3, Zenon DEF IsTaken, KindsOf
  <2> QED
    BY <1>3, <2>1, <2>4
<1> QED
  BY <1>4, <1>5, Zenon DEF CondMarksAreJumps, JmpMarksAreJumps

LEMMA LEndOfTokens == ASSUME ShortCode, IInv, LInv, EndOfTokens PROVE LInv'
<1>1. /\ phase = "tokens" /\ phase' = "cond_jmps" /\ i' = 0
      /\ UNCHANGED << tokens, beyond, buf, size, labels, sites >>
  BY DEF EndOfTokens
<1>2. /\ tokens \in Programs /\ LabelsShort /\ Laid /\ \A s \in sites : Pending(s)
      /\ sites \in SUBSET Site
  BY <1>1 DEF LInv, InTokens, IInv, TypeOK
<1>3. tokens' \in Programs /\ LabelsShort' /\ Laid'
  BY <1>1, <1>2 DEF LabelsShort, Laid, capacity
<1>4. InLinking'
  <2>1. ASSUME Unmistakable' PROVE MarksAreJumps'
    <3>1. stray' = {}
      BY <2>1 DEF Unmistakable
    <3>2. CondMarksAreJumps(buf, size, sites, 0) /\ JmpMarksAreJumps(buf, size, sites, Offsets, 0)
      BY <3>1, EndOfTokensMarks
    <3>3. Offsets' = Offsets
      BY <1>1 DEF Offsets, HasLabel
    <3> QED
      BY <1>1, <3>2, <3>3 DEF MarksAreJumps
  <2> QED
    BY <1>3, <2>1 DEF InLinking
<1>5. InOrder'
  <2>1. ASSUME NEW s \in sites PROVE s.at >= 0
    <3>1. s \in Site
      BY <1>2
    <3>2. s.at \in Nat
      BY <3>1, SiteShape
    <3> QED
      BY <3>2
  <2>2. ASSUME NEW s \in sites PROVE Pending(s)' /\ ~(s.at < 0)
    <3>1. Pending(s) /\ s \in Site
      BY <1>2
    <3>2. Pending(s)'
      BY <1>1, <3>1 DEF Pending
    <3>3. s.at \in Nat
      BY <3>1, SiteShape
    <3> QED
      BY <3>2, <3>3
  <2>3. HalfLinked'
    BY <1>1, <2>2 DEF HalfLinked
  <2> QED
    BY <2>3 DEF InOrder
<1> QED
  BY <1>1, <1>3, <1>4, <1>5, LinkingPhase DEF Linking

(* The target of a jump and the offset a pass reads.                       *)
LEMMA LabelAddress ==
  ASSUME IInv, NEW o, HasLabel(o)
  PROVE  NewAddress(o) \in Nat /\ NewAddress(o) <= size
<1>1. NewAddress(o) \in Nat /\ NewAddress(o) \in PROLOG_LENGTH .. size
  BY FindLabelType DEF IInv, TypeOK
<1> QED
  BY <1>1 DEF PROLOG_LENGTH, IInv, TypeOK

LEMMA ShortTarget ==
  ASSUME LabelsShort, NEW o, HasLabel(o)
  PROVE  o \in SmallOffsets /\ o \in Int32
<1>1. o \in SmallOffsets
  BY DEF HasLabel, LabelsShort
<1> QED
  BY SMT, <1>1 DEF SmallOffsets, Int32

(* What a step of the first pass that patches has before it.               *)
LEMMA CondSite ==
  ASSUME ShortCode, IInv, LInv, phase = "cond_jmps", Unmistakable,
         NEW k \in i .. size - 1, NextCond(k)
  PROVE  \E s \in sites : s.at = k /\ s.kind = "cond"
<1>1. tokens \in Programs /\ Laid /\ MarksAreJumps
  BY DEF LInv, InLinking, Linking
<1>2. /\ size \in Nat /\ size + 22 <= BufLen /\ buf \in Memory /\ BufLen \in Nat /\ i \in Nat
  BY <1>1, Room
<1>3. k \in Nat /\ k + 4 < BufLen /\ i <= k /\ k < size /\ k \in Int
  BY <1>2
<1>4. CondMark(buf, k)
  BY <1>2, <1>3, SameMarks DEF NextCond
<1> QED
  BY <1>1, <1>3, <1>4, Zenon DEF MarksAreJumps, CondMarksAreJumps

(* A conditional jump is a mark: the pass passes none.                     *)
LEMMA NoCondPassed ==
  ASSUME ShortCode, IInv, LInv, phase = "cond_jmps", Unmistakable,
         NEW k \in Int, \A j \in i .. k - 1 : ~IsCondMark(j), NEW s \in sites, s.kind = "cond", s.at < k
  PROVE  s.at < i
<1>1. Laid /\ s \in Site /\ i \in Nat
  BY DEF LInv, InLinking, Linking, IInv, TypeOK
<1>2. IsCode(buf, s) /\ s.at \in Nat
  BY <1>1, SiteShape DEF Laid, Jumps, Stands
<1>3. IsCondMark(s.at)
  <2>1. buf[s.at] = \h0F /\ \h82 <= buf[s.at + 1] /\ buf[s.at + 1] <= \h87
    BY <1>2, Zenon DEF IsCode
  <2>2. buf[s.at + 1] \in Int
    <3>1. tokens \in Programs
      BY DEF LInv
    <3>2. /\ size \in Nat /\ size + 22 <= BufLen /\ buf \in Memory /\ BufLen \in Nat
      BY <3>1, Room
    <3>3. s.at + 6 <= size
      BY <1>1, SiteShape DEF Laid, Jumps, Stands
    <3>4. s.at + 1 \in 0 .. BufLen - 1
      BY <1>2, <3>2, <3>3
    <3> QED
      BY <3>2, <3>4, ByteRange DEF Memory
  <2> QED
    BY <2>1, <2>2 DEF IsCondMark
<1> QED
  BY <1>1, <1>2, <1>3

LEMMA PatchedCond ==
  ASSUME ShortCode, IInv, LInv, phase = "cond_jmps", Unmistakable, PatchConditionalJmp
  PROVE  \E s \in sites :
           /\ s.kind = "cond" /\ s.at \in i .. size - 1 /\ NextCond(s.at) /\ i' = s.at + 5
           /\ HasLabel(CondOffset(s.at))
           /\ buf' = Paste(buf, OperandAt(s), Le32(NewAddress(CondOffset(s.at)) - End(s)))
<1>1. PICK k \in i .. size - 1 :
        NextCond(k) /\ HasLabel(CondOffset(k)) /\ Patch(k, 2, CondOffset(k)) /\ i' = k + 5
  BY DEF PatchConditionalJmp
<1>2. PICK s \in sites : s.at = k /\ s.kind = "cond"
  BY <1>1, CondSite
<1>3. s \in Site
  BY DEF IInv, TypeOK
<1>4. s.at \in Nat /\ OperandAt(s) = s.at + 2 /\ End(s) = s.at + 6
  BY <1>2, <1>3, SiteShape
<1>5. NewAddress(CondOffset(k)) \in Nat
  BY <1>1, LabelAddress
<1>6. buf' = Paste(buf, k + 2, Le32(NewAddress(CondOffset(k)) - (k + 2 - 1 + JMP_LENGTH)))
  BY <1>1, Zenon DEF Patch
<1>7. /\ k + 2 = OperandAt(s)
      /\ NewAddress(CondOffset(k)) - (k + 2 - 1 + JMP_LENGTH) = NewAddress(CondOffset(k)) - End(s)
  <2>1. k + 2 - 1 + 5 = k + 6
    BY <1>2, <1>4
  <2> QED
    BY <1>2, <1>4, <1>5, <2>1 DEF JMP_LENGTH
<1>8. buf' = Paste(buf, OperandAt(s), Le32(NewAddress(CondOffset(s.at)) - End(s)))
  BY <1>2, <1>6, <1>7, Zenon
<1> QED
  BY <1>1, <1>2, <1>8
(* Unmistakable and Linkable are about what the passes do not touch.       *)
LEMMA SameProgram ==
  ASSUME UNCHANGED << tokens, size, labels, sites, stray >>
  PROVE  /\ Unmistakable' = Unmistakable /\ Linkable' = Linkable
         /\ Offsets' = Offsets /\ capacity' = capacity
         /\ LabelsShort' = LabelsShort
         /\ \A o : NewAddress(o)' = NewAddress(o)
<1>1. ASSUME NEW o PROVE HasLabel(o)' = HasLabel(o) /\ NewAddress(o)' = NewAddress(o)
  BY DEF HasLabel, NewAddress, find_label
<1>2. Unmistakable' = Unmistakable
  BY <1>1 DEF Unmistakable, HasLabel, External
<1>3. Linkable' = Linkable
  BY <1>2 DEF Linkable, HasLabel, External
<1> QED
  BY <1>1, <1>2, <1>3 DEF Offsets, HasLabel, capacity, LabelsShort

(* The byte the first pass reads is all of a target below 256.             *)
LEMMA CondTarget ==
  ASSUME LabelsShort, size \in Nat, size + 22 <= BufLen, BufLen \in Nat, buf \in Memory,
         NEW s, s.at \in Nat, OperandAt(s) = s.at + 2, End(s) = s.at + 6, End(s) <= size,
         Pending(s), HasLabel(s.target), s.target \in Byte
  PROVE  CondOffset(s.at) = s.target
<1>1. s.target \in Int32
  BY ShortTarget
<1>2. Word(buf, OperandAt(s) - 1) = s.target
  BY <1>1 DEF Pending, Held
<1>3. OperandAt(s) - 1 = s.at + 1
  OBVIOUS
<1>4. Word(buf, s.at + 1) = s.target
  BY <1>2, <1>3
<1>5. /\ s.at + 2 \in 0 .. BufLen - 1 /\ s.at + 3 \in 0 .. BufLen - 1
      /\ s.at + 4 \in 0 .. BufLen - 1 /\ s.at + 5 \in 0 .. BufLen - 1
  OBVIOUS
<1>6. /\ (s.at + 1) + 1 = s.at + 2 /\ (s.at + 1) + 2 = s.at + 3
      /\ (s.at + 1) + 3 = s.at + 4 /\ (s.at + 1) + 4 = s.at + 5
  OBVIOUS
<1>7. /\ buf[(s.at + 1) + 1] \in Byte /\ buf[(s.at + 1) + 2] \in Byte
      /\ buf[(s.at + 1) + 3] \in Byte /\ buf[(s.at + 1) + 4] \in Byte
  BY <1>5, <1>6 DEF Memory
<1>8. buf[(s.at + 1) + 1] = s.target
  <2>1. s.at + 1 \in Nat
    OBVIOUS
  <2> QED
    BY <1>4, <1>7, <2>1, FirstByte
<1> QED
  BY <1>6, <1>8 DEF CondOffset

LEMMA LPatchConditionalJmp == ASSUME ShortCode, IInv, LInv, PatchConditionalJmp PROVE LInv'
<1>1. /\ phase = "cond_jmps" /\ phase' = "cond_jmps"
      /\ UNCHANGED << tokens, beyond, size, labels, phase, sites, stray >>
  BY DEF PatchConditionalJmp
<1>2. tokens \in Programs /\ LabelsShort /\ InLinking /\ InOrder
  BY DEF LInv
<1>3. /\ Unmistakable' = Unmistakable /\ Linkable' = Linkable /\ Offsets' = Offsets
      /\ capacity' = capacity /\ LabelsShort' = LabelsShort
      /\ \A o : NewAddress(o)' = NewAddress(o)
  BY <1>1, SameProgram
<1>4. /\ size \in Nat /\ size - 1 \in SmallOffsets /\ size + 22 <= BufLen /\ BufLen \in Nat
      /\ capacity \in Nat /\ capacity <= BufLen /\ buf \in Memory /\ sites \in SUBSET Site /\ i \in Nat
  BY <1>1, <1>2, Room
<1>5. Offsets \in SUBSET SmallOffsets
  BY <1>2, <1>4, OffsetsShort
<1>6. CASE ~Unmistakable
  BY <1>1, <1>2, <1>3, <1>6, LinkingPhase DEF InLinking, InOrder, Linkable, Linking
<1>7. CASE Unmistakable
  <2>1. Laid /\ CondMarksAreJumps(buf, size, sites, i) /\ JmpMarksAreJumps(buf, size, sites, Offsets, 0)
    BY <1>1, <1>2, <1>7 DEF InLinking, Linking, MarksAreJumps
  <2>2. PICK s \in sites :
          /\ s.kind = "cond" /\ s.at \in i .. size - 1 /\ NextCond(s.at) /\ i' = s.at + 5
          /\ HasLabel(CondOffset(s.at))
          /\ buf' = Paste(buf, OperandAt(s), Le32(NewAddress(CondOffset(s.at)) - End(s)))
    BY <1>1, <1>7, PatchedCond
  <2>3. /\ s \in Site /\ Stands(buf, size, s) /\ s.kind # "external"
        /\ s.at \in Nat /\ OperandAt(s) = s.at + 2 /\ End(s) = s.at + 6 /\ End(s) <= size
    <3>1. s \in Site /\ Stands(buf, size, s)
      BY <1>4, <2>1 DEF Laid, Jumps
    <3> QED
      BY <2>2, <3>1, SiteShape DEF Stands
  <2>4. PICK to : to = NewAddress(CondOffset(s.at))
    OBVIOUS
  <2>5. to \in Nat /\ to <= size
    BY <2>2, <2>4, LabelAddress
  <2>6. to - End(s) \in Int /\ to - End(s) \in Int32
    BY <1>4, <2>3, <2>5, ShortReach
  <2>7. buf' = Paste(buf, OperandAt(s), Le32(to - End(s)))
    BY <2>2, <2>4
  <2>8. size <= BufLen /\ size + 8 <= BufLen
    BY <1>4
  <2>9. /\ Jumps(buf', size, sites)
        /\ \A t \in sites : t # s => Held(buf', t) = Held(buf, t)
        /\ Held(buf', s) = to - End(s)
    <3>1. Jumps(buf, size, sites)
      BY <2>1 DEF Laid
    <3> QED
      BY <1>4, <2>3, <2>6, <2>7, <2>8, <3>1, JumpsPatched
  <2>10. Filled(buf', size, capacity)
    <3>1. OperandAt(s) \in Nat /\ OperandAt(s) + 4 <= size
      BY <1>4, <2>3
    <3>2. Filled(buf, size, capacity)
      BY <2>1 DEF Laid
    <3> QED
      BY <1>4, <2>6, <2>7, <2>8, <3>1, <3>2, FilledPatched
  <2>11. CondMarksAreJumps(buf', size, sites, i') /\ JmpMarksAreJumps(buf', size, sites, Offsets, 0)
    <3>1. i \in Int /\ i <= s.at /\ Jumps(buf, size, sites)
      BY <1>4, <2>1, <2>2 DEF Laid
    <3>2. /\ CondMarksAreJumps(buf', size, sites, s.at + 5)
          /\ JmpMarksAreJumps(buf', size, sites, Offsets, 0)
      BY <1>4, <1>5, <2>1, <2>2, <2>5, <2>7, <2>8, <3>1, CondPatchMarks
    <3> QED
      BY <2>2, <3>2
  <2>12. InLinking'
    BY <1>1, <1>3, <2>9, <2>10, <2>11, Zenon DEF InLinking, Laid, MarksAreJumps
  <2>13. ASSUME Linkable PROVE HalfLinked'
    <3>1. HalfLinked
      BY <1>1, <1>2, <2>13 DEF InOrder, Linking
    <3>2. ASSUME NEW t \in sites, t # s, t.kind = "cond", t.at >= s.at + 5 PROVE Pending(t)'
      <4>1. Pending(t) /\ Held(buf', t) = Held(buf, t)
        <5>1. t.at >= i
          <6>1. t \in Site
            BY <1>4
          <6>2. t.at \in Nat
            BY <6>1, SiteShape
          <6> QED
            BY <1>4, <2>2, <2>3, <3>2, <6>2
        <5> QED
          BY <1>1, <2>9, <3>1, <3>2, <5>1 DEF HalfLinked
      <4> QED
        BY <4>1 DEF Pending
    <3>3. ASSUME NEW t \in sites, t # s, t.kind = "cond", t.at < s.at + 5 PROVE Resolved(t)'
      <4>1. t \in Site /\ t.at \in Nat
        <5>1. t \in Site
          BY <1>4
        <5> QED
          BY <5>1, SiteShape
      <4>2. t.at < s.at
        <5>1. t.at # s.at
          <6>1. Disjoint(s, t)
            BY <2>1, <3>3 DEF Laid, Jumps
          <6>2. Begin(t) = t.at - 2 /\ End(t) = t.at + 6 /\ Begin(s) = s.at - 2
            BY <2>2, <2>3, <3>3, <4>1, SiteShape
          <6> QED
            BY <2>3, <4>1, <6>1, <6>2 DEF Disjoint
        <5>2. ~(s.at < t.at)
          <6>1. s.at < t.at => s.at + 5 <= t.at
            BY <1>4, <2>1, JumpsApart DEF Laid
          <6> QED
            BY <2>3, <3>3, <4>1, <6>1
        <5> QED
          BY <2>3, <4>1, <5>1, <5>2
      <4>3. \A j \in i .. s.at - 1 : ~IsCondMark(j)
        BY <2>2 DEF NextCond
      <4>4. t.at < i
        BY <1>1, <1>7, <2>3, <3>3, <4>2, <4>3, NoCondPassed
      <4>5. Resolved(t) /\ Held(buf', t) = Held(buf, t)
        BY <2>9, <3>1, <3>3, <4>4 DEF HalfLinked
      <4> QED
        BY <1>3, <4>5 DEF Resolved
    <3>4. Resolved(s)'
      <4>1. Pending(s)
        BY <1>1, <1>4, <2>2, <3>1 DEF HalfLinked
      <4>2. HasLabel(s.target) /\ s.target \in Byte
        BY <2>2, <2>13 DEF Linkable, External
      <4>5. CondOffset(s.at) = s.target
        BY <1>2, <1>4, <2>3, <4>1, <4>2, CondTarget
      <4>6. to = NewAddress(s.target)
        BY <2>4, <4>5
      <4>7. End(s) + Held(buf', s) = to
        <5>1. End(s) \in Int
          BY <2>3
        <5> QED
          BY <2>5, <2>9, <5>1
      <4> QED
        BY <1>3, <4>6, <4>7 DEF Resolved
    <3>5. ASSUME NEW t \in sites, t.kind = "jmp" PROVE Pending(t)'
      <4>1. t # s
        BY <2>2, <3>5
      <4>2. Pending(t) /\ Held(buf', t) = Held(buf, t)
        BY <1>1, <2>9, <3>1, <3>5, <4>1 DEF HalfLinked
      <4> QED
        BY <4>2 DEF Pending
    <3>6. ~(s.at >= s.at + 5)
      BY <2>3
    <3> QED
      BY <1>1, <2>2, <3>2, <3>3, <3>4, <3>5, <3>6 DEF HalfLinked
  <2>14. InOrder'
    BY <1>3, <2>13 DEF InOrder
  <2> QED
    BY <1>1, <1>2, <1>3, <2>12, <2>14, LinkingPhase DEF Linking
<1> QED
  BY <1>6, <1>7

LEMMA LEndConditionalJmps == ASSUME ShortCode, IInv, LInv, EndConditionalJmps PROVE LInv'
<1>1. /\ phase = "cond_jmps" /\ phase' = "calls_jmps" /\ i' = 0
      /\ UNCHANGED << tokens, beyond, buf, size, labels, sites, stray >>
  BY DEF EndConditionalJmps
<1>2. tokens \in Programs /\ LabelsShort /\ InLinking /\ InOrder
  BY DEF LInv
<1>3. /\ Unmistakable' = Unmistakable /\ Linkable' = Linkable /\ Offsets' = Offsets
      /\ capacity' = capacity /\ LabelsShort' = LabelsShort
      /\ \A o : NewAddress(o)' = NewAddress(o)
  BY <1>1, SameProgram
<1>4. /\ size \in Nat /\ size + 22 <= BufLen /\ BufLen \in Nat
      /\ buf \in Memory /\ sites \in SUBSET Site /\ i \in Nat
  BY <1>1, <1>2, Room
<1>5. InLinking'
  <2>1. ASSUME Unmistakable PROVE Laid /\ JmpMarksAreJumps(buf, size, sites, Offsets, 0)
    BY <1>1, <1>2, <2>1 DEF InLinking, Linking, MarksAreJumps
  <2>2. ASSUME Unmistakable PROVE Laid' /\ JmpMarksAreJumps(buf', size', sites', Offsets', i')
    BY <1>1, <1>3, <2>1, <2>2 DEF Laid
  <2> QED
    BY <1>1, <1>3, <2>2 DEF InLinking, MarksAreJumps
<1>6. InOrder'
  <2>1. ASSUME Linkable PROVE HalfLinked'
    <3>1. HalfLinked /\ Unmistakable /\ Laid
      BY <1>1, <1>2, <2>1 DEF InOrder, InLinking, Linking, Linkable
    <3>2. ASSUME NEW s \in sites PROVE s.at \in Nat /\ s \in Site /\ Stands(buf, size, s)
      <4>1. s \in Site /\ Stands(buf, size, s)
        BY <1>4, <3>1 DEF Laid, Jumps
      <4> QED
        BY <4>1, SiteShape
    <3>3. ASSUME NEW s \in sites, s.kind = "cond" PROVE Resolved(s)
      <4>1. CASE \E k \in i .. size - 1 : NextCond(k) /\ ~HasLabel(CondOffset(k))
        <5>1. PICK k \in i .. size - 1 : NextCond(k) /\ ~HasLabel(CondOffset(k))
          BY <4>1
        <5>2. PICK t \in sites : t.at = k /\ t.kind = "cond"
          BY <1>1, <3>1, <5>1, CondSite
        <5>3. /\ Pending(t) /\ HasLabel(t.target) /\ t.target \in Byte /\ t \in Site
              /\ OperandAt(t) = t.at + 2 /\ End(t) = t.at + 6 /\ t.at \in Nat /\ End(t) <= size
          <6>1. Pending(t)
            <7>1. t.at >= i
              BY <1>4, <5>2
            <7> QED
              BY <1>1, <3>1, <5>2, <7>1 DEF HalfLinked
          <6>2. HasLabel(t.target) /\ t.target \in Byte
            BY <2>1, <5>2 DEF Linkable, External
          <6> QED
            BY <3>2, <5>2, <6>1, <6>2, SiteShape DEF Stands
        <5>4. CondOffset(t.at) = t.target
          BY <1>2, <1>4, <5>3, CondTarget
        <5> QED
          BY <5>1, <5>2, <5>3, <5>4
      <4>2. CASE \A k \in i .. size - 1 : ~IsCondMark(k)
        <5>1. s.at < size
          BY <1>4, <3>2, <3>3, SiteShape DEF Stands
        <5>2. \A j \in i .. size - 1 : ~IsCondMark(j)
          BY <4>2
        <5>3. s.at < i
          BY <1>1, <1>4, <3>1, <3>3, <5>1, <5>2, NoCondPassed
        <5> QED
          BY <3>1, <3>3, <5>3 DEF HalfLinked
      <4> QED
        BY <4>1, <4>2 DEF EndConditionalJmps
    <3>4. ASSUME NEW s \in sites, s.kind = "jmp" PROVE Pending(s)
      BY <1>1, <3>1, <3>4 DEF HalfLinked
    <3>5. ASSUME NEW s \in sites
          PROVE  /\ s.kind = "cond" => Resolved(s)'
                 /\ s.kind = "jmp" => Pending(s)' /\ ~(s.at < i')
      <4>1. s.kind = "cond" => Resolved(s)'
        BY <1>1, <1>3, <3>3 DEF Resolved
      <4>2. s.kind = "jmp" => Pending(s)'
        BY <1>1, <3>4 DEF Pending
      <4>3. ~(s.at < i')
        BY <1>1, <3>2
      <4> QED
        BY <4>1, <4>2, <4>3
    <3> QED
      BY <1>1, <3>5 DEF HalfLinked
  <2> QED
    BY <1>3, <2>1 DEF InOrder
<1> QED
  BY <1>1, <1>2, <1>3, <1>5, <1>6, LinkingPhase DEF Linking
(* A byte the second pass takes for a jump's is that of one.               *)
LEMMA JmpSite ==
  ASSUME ShortCode, IInv, LInv, phase = "calls_jmps", Unmistakable,
         NEW k \in i .. size - 1, NextJmp(k), HasLabel(JmpOffset(k)) \/ JmpOffset(k) \in 0 .. size - 1
  PROVE  \E s \in sites : s.at = k /\ s.kind = "jmp" /\ Held(buf, s) = JmpOffset(k)
<1>1. tokens \in Programs /\ Laid /\ JmpMarksAreJumps(buf, size, sites, Offsets, i)
  BY DEF LInv, InLinking, Linking, MarksAreJumps
<1>2. /\ size \in Nat /\ size + 22 <= BufLen /\ buf \in Memory /\ BufLen \in Nat /\ i \in Nat
      /\ sites \in SUBSET Site
  BY <1>1, Room
<1>3. k \in Nat /\ k + 4 < BufLen /\ i <= k /\ k < size /\ k \in Int
  BY <1>2
<1>4. JmpMark(buf, Offsets, k) /\ JmpOffset(k) = Word(buf, k)
  BY <1>2, <1>3, SameMarks DEF NextJmp
<1>5. PICK s \in sites : s.at = k /\ s.kind \in {"jmp", "external"}
  BY <1>1, <1>3, <1>4, Zenon DEF JmpMarksAreJumps
<1>6. s \in Site /\ IsCode(buf, s) /\ s.kind # "cond"
  BY <1>1, <1>2, <1>5 DEF Laid, Jumps, Stands
<1>7. OperandAt(s) - 1 = k
  <2>1. OperandAt(s) = s.at + 1
    BY <1>6, SiteShape
  <2> QED
    BY <1>3, <1>5, <2>1
<1>8. Held(buf, s) = JmpOffset(k)
  BY <1>4, <1>7 DEF Held
<1>9. s.kind # "external"
  <2> SUFFICES ASSUME s.kind = "external" PROVE FALSE
    OBVIOUS
  <2>1. s.target = JmpOffset(k)
    BY <1>6, <1>8 DEF IsCode
  <2>2. ~HasLabel(s.target) /\ s.target \notin 0 .. size - 1
    BY DEF Unmistakable, External
  <2> QED
    BY <2>1, <2>2
<1> QED
  BY <1>5, <1>8, <1>9

LEMMA NoJmpPassed ==
  ASSUME ShortCode, IInv, LInv, phase = "calls_jmps", Unmistakable,
         NEW k \in Int, \A j \in i .. k - 1 : ~IsJmpMark(j), NEW s \in sites, s.kind = "jmp", s.at < k
  PROVE  s.at < i
<1>1. Laid /\ s \in Site /\ i \in Nat
  BY DEF LInv, InLinking, Linking, IInv, TypeOK
<1>2. IsCode(buf, s) /\ s.at \in Nat
  BY <1>1, SiteShape DEF Laid, Jumps, Stands
<1>3. IsJmpMark(s.at)
  BY <1>2 DEF IsCode, IsJmpMark
<1> QED
  BY <1>1, <1>2, <1>3

LEMMA PatchedJmp ==
  ASSUME ShortCode, IInv, LInv, phase = "calls_jmps", Unmistakable, PatchJmp
  PROVE  \E s \in sites :
           /\ s.kind = "jmp" /\ s.at \in i .. size - 1 /\ NextJmp(s.at) /\ i' = s.at + 5
           /\ HasLabel(Held(buf, s))
           /\ buf' = Paste(buf, OperandAt(s), Le32(NewAddress(Held(buf, s)) - End(s)))
<1>1. PICK k \in i .. size - 1 :
        NextJmp(k) /\ HasLabel(JmpOffset(k)) /\ Patch(k, 1, JmpOffset(k)) /\ i' = k + 5
  BY DEF PatchJmp
<1>2. PICK s \in sites : s.at = k /\ s.kind = "jmp" /\ Held(buf, s) = JmpOffset(k)
  BY <1>1, JmpSite
<1>3. s \in Site
  BY DEF IInv, TypeOK
<1>4. s.at \in Nat /\ OperandAt(s) = s.at + 1 /\ End(s) = s.at + 5
  BY <1>2, <1>3, SiteShape
<1>5. NewAddress(JmpOffset(k)) \in Nat
  BY <1>1, LabelAddress
<1>6. buf' = Paste(buf, k + 1, Le32(NewAddress(JmpOffset(k)) - (k + 1 - 1 + JMP_LENGTH)))
  BY <1>1, Zenon DEF Patch
<1>7. /\ k + 1 = OperandAt(s)
      /\ NewAddress(JmpOffset(k)) - (k + 1 - 1 + JMP_LENGTH) = NewAddress(JmpOffset(k)) - End(s)
  <2>1. k + 1 - 1 + 5 = k + 5
    BY <1>2, <1>4
  <2> QED
    BY <1>2, <1>4, <1>5, <2>1 DEF JMP_LENGTH
<1>8. buf' = Paste(buf, OperandAt(s), Le32(NewAddress(Held(buf, s)) - End(s)))
  BY <1>2, <1>6, <1>7, Zenon
<1> QED
  BY <1>1, <1>2, <1>8

LEMMA LPatchJmp == ASSUME ShortCode, IInv, LInv, PatchJmp PROVE LInv'
<1>1. /\ phase = "calls_jmps" /\ phase' = "calls_jmps"
      /\ UNCHANGED << tokens, beyond, size, labels, phase, sites, stray >>
  BY DEF PatchJmp
<1>2. tokens \in Programs /\ LabelsShort /\ InLinking /\ InOrder
  BY DEF LInv
<1>3. /\ Unmistakable' = Unmistakable /\ Linkable' = Linkable /\ Offsets' = Offsets
      /\ capacity' = capacity /\ LabelsShort' = LabelsShort
      /\ \A o : NewAddress(o)' = NewAddress(o)
  BY <1>1, SameProgram
<1>4. /\ size \in Nat /\ size - 1 \in SmallOffsets /\ size + 22 <= BufLen /\ BufLen \in Nat
      /\ capacity \in Nat /\ capacity <= BufLen /\ buf \in Memory /\ sites \in SUBSET Site /\ i \in Nat
  BY <1>1, <1>2, Room
<1>6. CASE ~Unmistakable
  BY <1>1, <1>2, <1>3, <1>6, LinkingPhase DEF InLinking, InOrder, Linkable, Linking
<1>7. CASE Unmistakable
  <2>1. Laid /\ JmpMarksAreJumps(buf, size, sites, Offsets, i)
    BY <1>1, <1>2, <1>7 DEF InLinking, Linking, MarksAreJumps
  <2>2. PICK s \in sites :
          /\ s.kind = "jmp" /\ s.at \in i .. size - 1 /\ NextJmp(s.at) /\ i' = s.at + 5
          /\ HasLabel(Held(buf, s))
          /\ buf' = Paste(buf, OperandAt(s), Le32(NewAddress(Held(buf, s)) - End(s)))
    BY <1>1, <1>7, PatchedJmp
  <2>3. /\ s \in Site /\ Stands(buf, size, s) /\ s.kind # "external"
        /\ s.at \in Nat /\ OperandAt(s) = s.at + 1 /\ End(s) = s.at + 5 /\ End(s) <= size
    <3>1. s \in Site /\ Stands(buf, size, s)
      BY <1>4, <2>1 DEF Laid, Jumps
    <3> QED
      BY <2>2, <3>1, SiteShape DEF Stands
  <2>4. PICK to : to = NewAddress(Held(buf, s))
    OBVIOUS
  <2>5. to \in Nat /\ to <= size
    BY <2>2, <2>4, LabelAddress
  <2>6. to - End(s) \in Int /\ to - End(s) \in Int32
    BY <1>4, <2>3, <2>5, ShortReach
  <2>7. buf' = Paste(buf, OperandAt(s), Le32(to - End(s)))
    BY <2>2, <2>4
  <2>8. size <= BufLen /\ size + 8 <= BufLen
    BY <1>4
  <2>9. /\ Jumps(buf', size, sites)
        /\ \A t \in sites : t # s => Held(buf', t) = Held(buf, t)
        /\ Held(buf', s) = to - End(s)
    <3>1. Jumps(buf, size, sites)
      BY <2>1 DEF Laid
    <3> QED
      BY <1>4, <2>3, <2>6, <2>7, <2>8, <3>1, JumpsPatched
  <2>10. Filled(buf', size, capacity)
    <3>1. OperandAt(s) \in Nat /\ OperandAt(s) + 4 <= size
      BY <1>4, <2>3
    <3>2. Filled(buf, size, capacity)
      BY <2>1 DEF Laid
    <3> QED
      BY <1>4, <2>6, <2>7, <2>8, <3>1, <3>2, FilledPatched
  <2>11. JmpMarksAreJumps(buf', size, sites, Offsets, i')
    <3>1. i \in Int /\ i <= s.at /\ Jumps(buf, size, sites)
      BY <1>4, <2>1, <2>2 DEF Laid
    <3>2. JmpMarksAreJumps(buf', size, sites, Offsets, s.at + 5)
      BY <1>4, <2>1, <2>2, <2>6, <2>7, <2>8, <3>1, JmpPatchMarks
    <3> QED
      BY <2>2, <3>2
  <2>12. InLinking'
    BY <1>1, <1>3, <2>9, <2>10, <2>11, Zenon DEF InLinking, Laid, MarksAreJumps
  <2>13. ASSUME Linkable PROVE HalfLinked'
    <3>1. HalfLinked
      BY <1>1, <1>2, <2>13 DEF InOrder, Linking
    <3>2. ASSUME NEW t \in sites, t # s, t.kind = "jmp", t.at >= s.at + 5 PROVE Pending(t)'
      <4>1. t \in Site
        BY <1>4
      <4>2. t.at \in Nat
        BY <4>1, SiteShape
      <4>3. t.at >= i
        BY <1>4, <2>2, <2>3, <3>2, <4>2
      <4>4. Pending(t) /\ Held(buf', t) = Held(buf, t)
        BY <1>1, <2>9, <3>1, <3>2, <4>3 DEF HalfLinked
      <4> QED
        BY <4>4 DEF Pending
    <3>3. ASSUME NEW t \in sites, t # s, t.kind = "jmp", t.at < s.at + 5 PROVE Resolved(t)'
      <4>1. t \in Site /\ t.at \in Nat
        <5>1. t \in Site
          BY <1>4
        <5> QED
          BY <5>1, SiteShape
      <4>2. t.at < s.at
        <5>1. t.at # s.at
          <6>1. Disjoint(s, t)
            BY <2>1, <3>3 DEF Laid, Jumps
          <6>2. Begin(t) = t.at /\ End(t) = t.at + 5 /\ Begin(s) = s.at
            BY <2>2, <2>3, <3>3, <4>1, SiteShape
          <6> QED
            BY <2>3, <4>1, <6>1, <6>2 DEF Disjoint
        <5>2. ~(s.at < t.at)
          <6>1. s.at < t.at => s.at + 5 <= t.at
            BY <1>4, <2>1, JumpsApart DEF Laid
          <6> QED
            BY <2>3, <3>3, <4>1, <6>1
        <5> QED
          BY <2>3, <4>1, <5>1, <5>2
      <4>3. \A j \in i .. s.at - 1 : ~IsJmpMark(j)
        BY <2>2 DEF NextJmp
      <4>4. t.at < i
        BY <1>1, <1>7, <2>3, <3>3, <4>2, <4>3, NoJmpPassed
      <4>5. Resolved(t) /\ Held(buf', t) = Held(buf, t)
        BY <1>1, <2>9, <3>1, <3>3, <4>4 DEF HalfLinked
      <4> QED
        BY <1>3, <4>5 DEF Resolved
    <3>4. Resolved(s)'
      <4>1. s.at >= i
        BY <1>4, <2>2
      <4>2. Pending(s)
        BY <1>1, <2>2, <3>1, <4>1 DEF HalfLinked
      <4>3. HasLabel(s.target)
        BY <2>2, <2>13 DEF Linkable, External
      <4>4. s.target \in Int32
        BY <1>2, <4>3, ShortTarget
      <4>5. to = NewAddress(s.target)
        BY <2>4, <4>2, <4>4 DEF Pending
      <4>6. End(s) + Held(buf', s) = to
        <5>1. End(s) \in Int
          BY <2>3
        <5> QED
          BY <2>5, <2>9, <5>1
      <4> QED
        BY <1>3, <4>5, <4>6 DEF Resolved
    <3>5. ASSUME NEW t \in sites, t.kind = "cond" PROVE Resolved(t)'
      <4>1. t # s
        BY <2>2, <3>5
      <4>2. Resolved(t) /\ Held(buf', t) = Held(buf, t)
        BY <1>1, <2>9, <3>1, <3>5, <4>1 DEF HalfLinked
      <4> QED
        BY <1>3, <4>2 DEF Resolved
    <3>6. ~(s.at >= s.at + 5)
      BY <2>3
    <3> QED
      BY <1>1, <2>2, <3>2, <3>3, <3>4, <3>5, <3>6 DEF HalfLinked
  <2>14. InOrder'
    BY <1>3, <2>13 DEF InOrder
  <2> QED
    BY <1>1, <1>2, <1>3, <2>12, <2>14, LinkingPhase DEF Linking
<1> QED
  BY <1>6, <1>7

(* A jump that is still to be resolved has a label, so no scan steps over  *)
(* it or ends before it.                                                   *)
LEMMA JmpHasLabel ==
  ASSUME ShortCode, IInv, LInv, phase = "calls_jmps", Linkable,
         NEW s \in sites, s.kind = "jmp", s.at >= i
  PROVE  s.target = JmpOffset(s.at) /\ HasLabel(JmpOffset(s.at))
<1>1. HalfLinked /\ LabelsShort /\ s \in Site
  BY DEF LInv, InOrder, Linking, IInv, TypeOK
<1>2. Pending(s) /\ HasLabel(s.target)
  BY <1>1 DEF HalfLinked, Linkable, External
<1>3. s.target \in Int32
  BY <1>1, <1>2, ShortTarget
<1>4. Word(buf, OperandAt(s) - 1) = s.target
  BY <1>2, <1>3 DEF Pending, Held
<1>5. OperandAt(s) - 1 = s.at
  <2>1. OperandAt(s) = s.at + 1 /\ s.at \in Nat
    BY <1>1, SiteShape
  <2> QED
    BY <2>1
<1>6. JmpOffset(s.at) = Word(buf, s.at)
  BY SMT DEF JmpOffset, Word
<1> QED
  BY <1>2, <1>4, <1>5, <1>6

LEMMA LSkipJmp == ASSUME ShortCode, IInv, LInv, SkipJmp PROVE LInv'
<1>1. /\ phase = "calls_jmps" /\ phase' = "calls_jmps"
      /\ UNCHANGED << tokens, beyond, buf, size, labels, phase, sites, stray >>
  BY DEF SkipJmp
<1>2. tokens \in Programs /\ LabelsShort /\ InLinking /\ InOrder
  BY DEF LInv
<1>3. /\ Unmistakable' = Unmistakable /\ Linkable' = Linkable /\ Offsets' = Offsets
      /\ capacity' = capacity /\ LabelsShort' = LabelsShort
      /\ \A o : NewAddress(o)' = NewAddress(o)
  BY <1>1, SameProgram
<1>4. PICK k \in i .. size - 1 : NextJmp(k) /\ ~HasLabel(JmpOffset(k)) /\ i' = k + 1
  BY DEF SkipJmp
<1>5. i \in Nat /\ size \in Nat /\ k \in Nat /\ i <= k /\ sites \in SUBSET Site
  <2>1. i \in Nat /\ size \in Nat /\ sites \in SUBSET Site
    BY DEF IInv, TypeOK
  <2> QED
    BY <2>1
<1>6. InLinking'
  <2>1. ASSUME Unmistakable PROVE Laid' /\ JmpMarksAreJumps(buf', size', sites', Offsets', i')
    <3>1. Laid /\ JmpMarksAreJumps(buf, size, sites, Offsets, i)
      BY <1>1, <1>2, <2>1 DEF InLinking, Linking, MarksAreJumps
    <3>2. JmpMarksAreJumps(buf, size, sites, Offsets, k + 1)
      <4>1. \A j \in Int : k + 1 <= j => i <= j
        BY <1>5
      <4> QED
        BY <3>1, <4>1, Zenon DEF JmpMarksAreJumps
    <3> QED
      BY <1>1, <1>3, <1>4, <3>1, <3>2 DEF Laid
  <2> QED
    BY <1>1, <1>3, <2>1 DEF InLinking, MarksAreJumps
<1>7. InOrder'
  <2>1. ASSUME Linkable PROVE HalfLinked'
    <3>1. HalfLinked /\ Unmistakable
      BY <1>1, <1>2, <2>1 DEF InOrder, Linking, Linkable
    <3>2. ASSUME NEW s \in sites, s.kind = "jmp", s.at < k + 1 PROVE s.at < i
      <4>1. s.at \in Nat
        <5>1. s \in Site
          BY <1>5
        <5> QED
          BY <5>1, SiteShape
      <4>2. CASE s.at = k
        <5>1. s.at < i
          BY <1>1, <1>4, <1>5, <2>1, <3>2, <4>1, <4>2, JmpHasLabel
        <5> QED
          BY <5>1
      <4>3. CASE s.at < k
        <5>1. k \in Int /\ \A j \in i .. k - 1 : ~IsJmpMark(j)
          BY <1>4, <1>5 DEF NextJmp
        <5> QED
          BY <1>1, <3>1, <3>2, <4>3, <5>1, NoJmpPassed
      <4> QED
        BY <1>5, <3>2, <4>1, <4>2, <4>3
    <3>3. ASSUME NEW s \in sites
          PROVE  /\ s.kind = "cond" => Resolved(s)'
                 /\ s.kind = "jmp" => /\ s.at >= i' => Pending(s)'
                                      /\ s.at < i' => Resolved(s)'
      <4>1. s.at \in Nat
        <5>1. s \in Site
          BY <1>5
        <5> QED
          BY <5>1, SiteShape
      <4>2. s.kind = "cond" => Resolved(s)
        BY <1>1, <3>1 DEF HalfLinked
      <4>3. s.kind = "jmp" /\ s.at >= k + 1 => Pending(s)
        <5>1. s.at >= k + 1 => s.at >= i
          BY <1>5, <4>1
        <5> QED
          BY <1>1, <3>1, <5>1 DEF HalfLinked
      <4>4. s.kind = "jmp" /\ s.at < k + 1 => Resolved(s)
        BY <1>1, <3>1, <3>2 DEF HalfLinked
      <4>5. Pending(s)' = Pending(s) /\ Resolved(s)' = Resolved(s)
        BY <1>1, <1>3 DEF Pending, Resolved
      <4> QED
        BY <1>4, <4>2, <4>3, <4>4, <4>5
    <3> QED
      BY <1>1, <3>3 DEF HalfLinked
  <2> QED
    BY <1>3, <2>1 DEF InOrder
<1> QED
  BY <1>1, <1>2, <1>3, <1>6, <1>7, LinkingPhase DEF Linking

LEMMA LEndCallsJmps == ASSUME ShortCode, IInv, LInv, EndCallsJmps PROVE LInv'
<1>1. /\ phase = "calls_jmps" /\ phase' = "memory_offset" /\ i' = 0
      /\ UNCHANGED << tokens, beyond, buf, size, labels, sites, stray >>
  BY DEF EndCallsJmps
<1>2. tokens \in Programs /\ LabelsShort /\ InLinking /\ InOrder
  BY DEF LInv
<1>3. /\ Unmistakable' = Unmistakable /\ Linkable' = Linkable /\ Offsets' = Offsets
      /\ capacity' = capacity /\ LabelsShort' = LabelsShort
      /\ \A o : NewAddress(o)' = NewAddress(o)
  BY <1>1, SameProgram
<1>4. i \in Nat /\ size \in Nat /\ sites \in SUBSET Site
  BY DEF IInv, TypeOK
<1>5. InLinking'
  <2>1. ASSUME Unmistakable PROVE Laid'
    <3>1. Laid
      BY <1>1, <1>2, <2>1 DEF InLinking, Linking
    <3> QED
      BY <1>1, <1>3, <3>1 DEF Laid
  <2> QED
    BY <1>1, <1>3, <2>1 DEF InLinking, MarksAreJumps
<1>6. InOrder'
  <2>1. ASSUME Linkable PROVE HalfLinked'
    <3>1. HalfLinked /\ Unmistakable /\ Laid
      BY <1>1, <1>2, <2>1 DEF InOrder, InLinking, Linking, Linkable
    <3>2. ASSUME NEW s \in sites, s.kind = "jmp" PROVE Resolved(s)
      <4>1. s.at \in Nat /\ s.at < size
        <5>1. s \in Site /\ Stands(buf, size, s)
          BY <1>4, <3>1 DEF Laid, Jumps
        <5>2. s.at \in Nat /\ End(s) = s.at + 5 /\ End(s) <= size
          BY <3>2, <5>1, SiteShape DEF Stands
        <5> QED
          BY <1>4, <5>2
      <4>2. CASE \E k \in i .. size - 1 :
                   NextJmp(k) /\ ~HasLabel(JmpOffset(k)) /\ JmpOffset(k) \in 0 .. size - 1
        <5>1. PICK k \in i .. size - 1 :
                     NextJmp(k) /\ ~HasLabel(JmpOffset(k)) /\ JmpOffset(k) \in 0 .. size - 1
          BY <4>2
        <5>2. PICK t \in sites : t.at = k /\ t.kind = "jmp"
          BY <1>1, <3>1, <5>1, JmpSite
        <5>3. t.at >= i
          BY <1>4, <5>2
        <5>4. HasLabel(JmpOffset(k))
          BY <1>1, <2>1, <5>2, <5>3, JmpHasLabel
        <5> QED
          BY <5>1, <5>4
      <4>3. CASE \A k \in i .. size - 1 : ~IsJmpMark(k)
        <5>1. s.at < i
          BY <1>1, <1>4, <3>1, <3>2, <4>1, <4>3, NoJmpPassed
        <5> QED
          BY <1>1, <3>1, <3>2, <5>1 DEF HalfLinked
      <4> QED
        BY <4>2, <4>3 DEF EndCallsJmps
    <3>3. ASSUME NEW s \in sites, s.kind = "cond" PROVE Resolved(s)
      BY <1>1, <3>1, <3>3 DEF HalfLinked
    <3>4. \A s \in sites : Resolved(s)' = Resolved(s)
      BY <1>1, <1>3 DEF Resolved
    <3> QED
      BY <1>1, <3>2, <3>3, <3>4 DEF HalfLinked
  <2> QED
    BY <1>3, <2>1 DEF InOrder
<1> QED
  BY <1>1, <1>2, <1>3, <1>5, <1>6, LinkingPhase DEF Linking
-----------------------------------------------------------------------------
(* The last steps.                                                         *)

LEMMA SetDataBaseLength == Len(SetDataBase) = 5
<1> DEFINE info == ImmedInfo(MOV, RBX, DataMemory)
<1>1. /\ info.cmd_encode = MOV /\ info.dest_reg = RBX /\ info.src_reg = INVALID_REG
      /\ info.immed_val = DataMemory /\ ~info.use_memory4src /\ ~info.use_memory4dest
  BY DEF ImmedInfo, RegInfo
<1> HIDE DEF info
<1>2. ~Exchanged(info) /\ ~IsHigh(info.dest_reg) /\ ~IsHigh(info.src_reg) /\ ~Wide(info)
  BY <1>1 DEF Exchanged, IsHigh, Wide, RBX, RDI, INVALID_REG
<1>3. RmOperand(info) = 3 /\ RmOperand(info) # INVALID_REG /\ RegOperand(info) = INVALID_REG
  BY <1>1, <1>2 DEF RmOperand, RegOperand, Low, IsHigh, RBX, R8, RDI, INVALID_REG
<1>4. Prefix(info) = << >>
  BY <1>2, Zenon DEF Prefix
<1>5. encode_cmd(info) = encode_mov(info)
  <2>1. MOV \in TwoOperandCmds /\ MOV \notin {PUSH, POP} /\ MOV # CALL /\ MOV # RET
    BY DEF TwoOperandCmds, MOV, PUSH, POP, CALL, RET
  <2> QED
    BY <1>1, <2>1, Zenon DEF encode_cmd, encode_two_operands_cmds
<1>6. DataMemory # -1
  BY Constants
<1>7. encode_mov(info) = Prefix(info) \o << \hB8 + RmOperand(info) >> \o Le32(DataMemory)
  BY <1>1, <1>3, <1>6, Zenon DEF encode_mov
<1>8. << >> \in BytesUpTo(0) /\ << \hB8 + 3 >> \in BytesUpTo(1)
  BY DEF BytesUpTo, Byte
<1>9. << >> \o << \hB8 + 3 >> \in BytesUpTo(1) /\ Len(<< >> \o << \hB8 + 3 >>) = 1
  BY <1>8 DEF BytesUpTo
<1>10. Le32(DataMemory) \in BytesUpTo(4) /\ Len(Le32(DataMemory)) = 4
  BY Le32Type, Constants
<1>11. PICK opcode \in BytesUpTo(1) : opcode = << >> \o << \hB8 + 3 >> /\ Len(opcode) = 1
  BY <1>9
<1>12. encode_cmd(info) = opcode \o Le32(DataMemory)
  <2>1. << >> \o << \hB8 + RmOperand(info) >> = opcode
    BY <1>3, <1>11, Zenon
  <2> QED
    <3>1. encode_mov(info) = (<< >> \o << \hB8 + RmOperand(info) >>) \o Le32(DataMemory)
      BY <1>4, <1>7, Zenon
    <3> QED
      BY <1>5, <2>1, <3>1, Zenon
<1>13. Len(opcode \o Le32(DataMemory)) = Len(opcode) + Len(Le32(DataMemory))
  <2>1. opcode \in Seq(Byte) /\ Le32(DataMemory) \in Seq(Byte)
    BY ZenonT(40), <1>10, <1>11, BytesLength
  <2> QED
    BY <2>1, JoinedSeqs
<1> QED
  BY <1>10, <1>11, <1>12, <1>13 DEF info, SetDataBase

(* The patch of the set-up changes no byte after the one behind the code.  *)
LEMMA PatchStops ==
  ASSUME size \in Nat, size >= 12, PopRbxStops # {}
  PROVE  byte_after_first_pop - 1 \in Int /\ byte_after_first_pop - 1 <= size
<1>1. PopRbxStops \in SUBSET Nat
  BY DEF PopRbxStops
<1>2. PICK m : m = Min(PopRbxStops)
  OBVIOUS
<1>3. m \in PopRbxStops /\ \A n \in PopRbxStops : m <= n
  BY <1>1, <1>2, SmallestOf
<1>4. m \in Nat /\ m <= 255
  BY <1>3 DEF PopRbxStops
<1>5. m <= size
  <2>1. CASE size <= 255
    <3>1. size \in PopRbxStops
      BY <2>1 DEF PopRbxStops
    <3> QED
      BY <1>3, <3>1
  <2> QED
    BY <1>4, <2>1
<1>6. byte_after_first_pop = (m + 1) % 256
  BY <1>2, Zenon DEF byte_after_first_pop
<1>7. (m + 1) % 256 = IF m = 255 THEN 0 ELSE m + 1
  BY <1>4, SMT
<1> QED
  BY <1>4, <1>5, <1>6, <1>7

LEMMA LChangeMemoryOffset == ASSUME ShortCode, IInv, LInv, ChangeMemoryOffset PROVE LInv'
<1>1. /\ phase = "memory_offset" /\ phase' = "return_value" /\ PopRbxStops # {}
      /\ UNCHANGED << tokens, beyond, i, size, labels, sites, stray >>
  BY DEF ChangeMemoryOffset
<1>2. tokens \in Programs /\ LabelsShort /\ InLinking
  BY DEF LInv
<1>3. /\ Unmistakable' = Unmistakable /\ capacity' = capacity /\ LabelsShort' = LabelsShort
  BY <1>1, SameProgram
<1>4. size \in Nat /\ buf \in Memory /\ capacity \in Nat /\ capacity <= BufLen /\ BufLen \in Nat
  BY <1>1, <1>2, Room
<1>5. PICK last : last = byte_after_first_pop - 1
  OBVIOUS
<1>6. buf' = [k \in DOMAIN buf |->
                IF k \in 7 .. 11 THEN SetDataBase[k - 6]
                ELSE IF k \in 12 .. last THEN NOP
                ELSE buf[k]]
  <2>1. buf' = [k \in DOMAIN buf |->
                  IF k \in 7 .. 6 + Len(SetDataBase) THEN SetDataBase[k - 6]
                  ELSE IF k \in 7 + Len(SetDataBase) .. last THEN NOP
                  ELSE buf[k]]
    BY <1>5, Zenon DEF ChangeMemoryOffset
  <2>2. 6 + Len(SetDataBase) = 11 /\ 7 + Len(SetDataBase) = 12
    BY SetDataBaseLength
  <2> QED
    BY <2>1, <2>2, Zenon
<1>7. ASSUME Unmistakable, size >= 12 PROVE Filled(buf', size + 1, capacity)
  <2>1. Filled(buf, size, capacity)
    BY <1>1, <1>2, <1>7 DEF InLinking, Linking, Laid
  <2>2. last \in Int /\ last <= size
    BY <1>1, <1>4, <1>5, <1>7, PatchStops
  <2>3. ASSUME NEW k \in Int, size + 1 <= k, k < capacity PROVE buf'[k] = RET_BYTE
    <3>1. k \in DOMAIN buf
      BY <1>4, <2>3 DEF Memory
    <3>2. k \notin 7 .. 11 /\ k \notin 12 .. last
      BY <1>4, <1>7, <2>2, <2>3
    <3>3. buf'[k] = buf[k]
      BY <1>6, <3>1, <3>2, Zenon
    <3> QED
      BY <1>4, <2>1, <2>3, <3>3 DEF Filled
  <2> QED
    BY <2>3 DEF Filled
<1>8. AtEnd'
  BY <1>1, <1>3, <1>7, Zenon DEF AtEnd
<1> QED
  BY <1>1, <1>2, <1>3, <1>8 DEF LInv, InProlog, InTokens, InLinking, InOrder, EndsInRet, Linking

LEMMA LSearchPopRbxForever == ASSUME ShortCode, IInv, LInv, SearchPopRbxForever PROVE LInv'
<1>1. /\ phase = "memory_offset" /\ phase' = "endless"
      /\ UNCHANGED << tokens, beyond, i, buf, size, labels, sites, stray >>
  BY DEF SearchPopRbxForever
<1>2. tokens \in Programs /\ LabelsShort
  BY DEF LInv
<1>3. LabelsShort' = LabelsShort
  BY <1>1, SameProgram
<1> QED
  BY <1>1, <1>2, <1>3 DEF LInv, InProlog, InTokens, InLinking, InOrder, AtEnd, EndsInRet, Linking

LEMMA LChangeReturnValue == ASSUME ShortCode, IInv, LInv, ChangeReturnValue PROVE LInv'
<1>1. /\ phase = "return_value" /\ phase' = "ready" /\ Emit(POP_RAX)
      /\ UNCHANGED << tokens, beyond, i, labels, sites, stray >>
  BY DEF ChangeReturnValue
<1>2. tokens \in Programs /\ LabelsShort /\ AtEnd
  BY DEF LInv
<1>3. size \in Nat /\ buf \in Memory /\ capacity \in Nat /\ capacity <= BufLen /\ BufLen \in Nat
  BY <1>1, <1>2, Room
<1>4. POP_RAX \in Seq(Byte) /\ Len(POP_RAX) = 1
  BY DEF POP_RAX, Byte
<1>5. buf' = Paste(buf, size, POP_RAX) /\ size' = size + 1
  BY <1>1, <1>4, Zenon DEF Emit
<1>6. capacity' = capacity /\ LabelsShort' = LabelsShort
  BY <1>1 DEF capacity, LabelsShort
<1>7. ASSUME Unmistakable', size' > 12, size' < capacity
      PROVE  buf'[size' - 1] = POP_RAX[1] /\ buf'[size'] = \hC3
  <2>1. size >= 12 /\ size' - 1 = size /\ size + 1 < capacity
    BY <1>3, <1>5, <1>7
  <2>2. Unmistakable
    <3>1. \A s \in sites : External(s) => ~HasLabel(s.target) /\ s.target \notin 0 .. size
      BY <1>1, <1>3, <1>5, <1>7 DEF Unmistakable, External, HasLabel
    <3>2. ASSUME NEW x, x \notin 0 .. size PROVE x \notin 0 .. size - 1
      BY <1>3, <3>2
    <3>3. stray = {}
      BY <1>1, <1>7 DEF Unmistakable
    <3> QED
      BY <3>1, <3>2, <3>3 DEF Unmistakable
  <2>3. buf[size + 1] = RET_BYTE
    <3>1. Filled(buf, size + 1, capacity)
      BY <1>1, <1>2, <2>1, <2>2 DEF AtEnd
    <3> QED
      BY <1>3, <2>1, <3>1 DEF Filled
  <2>4. /\ \A k \in 0 .. BufLen - 1 : size + 1 <= k => buf'[k] = buf[k]
        /\ \A k \in 0 .. BufLen - 1 : size <= k /\ k < size + 1 => buf'[k] = POP_RAX[k - size + 1]
    BY <1>3, <1>4, <1>5, PasteAt
  <2>5. buf'[size + 1] = buf[size + 1] /\ buf'[size] = POP_RAX[1]
    <3>1. size \in 0 .. BufLen - 1 /\ size + 1 \in 0 .. BufLen - 1 /\ size - size + 1 = 1
      BY <1>3, <2>1
    <3>2. size <= size /\ size < size + 1 /\ size + 1 <= size + 1
      BY <1>3
    <3> QED
      BY <2>4, <3>1, <3>2
  <2> QED
    BY <1>5, <2>1, <2>3, <2>5 DEF RET_BYTE
<1>8. EndsInRet'
  BY <1>6, <1>7, Zenon DEF EndsInRet
<1> QED
  BY <1>1, <1>2, <1>6, <1>8 DEF LInv, InProlog, InTokens, InLinking, InOrder, AtEnd, Linking

-----------------------------------------------------------------------------
(* The results.                                                            *)

LEMMA LNext == ASSUME ShortCode, IInv, LInv, [Next]_vars PROVE LInv'
<1>1. CASE Prolog
  BY <1>1, LProlog
<1>2. CASE TokenStep
  BY <1>2, LFoldTokens, LInsertLabel, LAssembleToken, LEndOfTokens DEF TokenStep
<1>3. CASE LinkStep
  BY <1>3, LPatchConditionalJmp, LEndConditionalJmps, LPatchJmp, LSkipJmp, LEndCallsJmps DEF LinkStep
<1>4. CASE LastStep
  BY <1>4, LChangeMemoryOffset, LSearchPopRbxForever, LChangeReturnValue DEF LastStep
<1>5. CASE UNCHANGED vars
  <2>1. UNCHANGED << tokens, beyond, i, buf, size, labels, phase, sites, stray >>
    BY <1>5 DEF vars
  <2>2. /\ Unmistakable' = Unmistakable /\ Linkable' = Linkable /\ Offsets' = Offsets
        /\ capacity' = capacity /\ LabelsShort' = LabelsShort
        /\ \A o : NewAddress(o)' = NewAddress(o)
    BY <2>1, SameProgram
  <2>3. /\ \A s : Pending(s)' = Pending(s) /\ Resolved(s)' = Resolved(s)
        /\ Laid' = Laid /\ MarksAreJumps' = MarksAreJumps
    BY <2>1, <2>2 DEF Pending, Resolved, Laid, MarksAreJumps
  <2>4. HalfLinked' = HalfLinked
    BY <2>1, <2>3 DEF HalfLinked
  <2> QED
    BY <2>1, <2>2, <2>3, <2>4
    DEF LInv, InProlog, InTokens, InLinking, InOrder, AtEnd, EndsInRet, Linking
<1> QED
  BY <1>1, <1>2, <1>3, <1>4, <1>5 DEF Next, Stopped

(* The bytes of every jump are accounted for in every state of             *)
(* fill_jit_code_buf, up to the last pass.                                 *)
THEOREM LinkingInvariance == ShortCode /\ Spec => []LInv
<1> DEFINE Kept == ShortCode /\ IInv /\ LInv
<1>1. ShortCode /\ Init => Kept
  BY InitIInv, LInit
<1>2. Kept /\ [Next]_vars => Kept'
  BY NextIInv, LNext
<1> QED
  BY <1>1, <1>2, PTL DEF Spec

(* In code that can be linked, and short enough for no displacement to     *)
(* read as a jump, the two passes leave every jump with the distance to    *)
(* the first byte of what follows its label: what a pass has written the   *)
(* other one passes over (encode_conditional_jmps, encode_calls_jmps).     *)
THEOREM JumpsLand == ShortCode /\ Spec => []JumpsResolved
<1>1. IInv /\ LInv => JumpsResolved
  <2> SUFFICES ASSUME IInv, LInv, phase = "memory_offset", Linkable, NEW s \in sites, ~External(s)
               PROVE  OperandAt(s) + 4 + Displacement(s) = NewAddress(s.target)
    BY DEF JumpsResolved
  <2>1. HalfLinked /\ Laid
    BY DEF LInv, InOrder, InLinking, Linking, Linkable
  <2>2. Resolved(s)
    <3>1. s.kind = "cond" \/ s.kind = "jmp"
      <4>1. s \in Site
        BY DEF IInv, TypeOK
      <4> QED
        BY <4>1, SiteShape DEF External
    <3> QED
      BY <2>1, <3>1 DEF HalfLinked
  <2>3. Displacement(s) = Held(buf, s)
    BY SMT DEF Displacement, Held, JmpOffset, Word
  <2> QED
    BY <2>2, <2>3 DEF Resolved, End
<1> QED
  BY <1>1, Invariance, LinkingInvariance, PTL

LEMMA PatchesOperand ==
  ASSUME buf \in Memory, NEW s \in sites, s.kind # "external", OperandAt(s) \in Nat,
         OperandAt(s) + 4 <= BufLen, NEW d \in Int, buf' = Paste(buf, OperandAt(s), Le32(d)),
         NEW k \in DOMAIN buf, buf'[k] # buf[k]
  PROVE  IsOperand(k)
<1>1. k \in 0 .. BufLen - 1 /\ BufLen \in Nat
  BY ConstantsAssumption DEF Memory
<1>2. ~(k < OperandAt(s) \/ OperandAt(s) + 4 <= k)
  BY <1>1, PatchedBytes
<1>3. k \in OperandAt(s) .. OperandAt(s) + 3
  BY <1>1, <1>2
<1> QED
  BY <1>3 DEF IsOperand, External

LEMMA LinkStepPatches ==
  ASSUME ShortCode, IInv, LInv, [Next]_vars, Unmistakable, phase \in {"cond_jmps", "calls_jmps"},
         NEW k \in DOMAIN buf, buf'[k] # buf[k]
  PROVE  IsOperand(k)
<1>1. tokens \in Programs /\ Laid /\ phase \notin {"prolog", "ready"}
  BY DEF LInv, InLinking, Linking
<1>2. /\ size \in Nat /\ size + 22 <= BufLen /\ BufLen \in Nat /\ buf \in Memory
      /\ sites \in SUBSET Site
  BY <1>1, Room
<1>3. ASSUME NEW s \in sites, s.kind # "external", NEW o, HasLabel(o),
             buf' = Paste(buf, OperandAt(s), Le32(NewAddress(o) - End(s)))
      PROVE  IsOperand(k)
  <2>1. /\ OperandAt(s) \in Nat /\ End(s) \in Nat /\ End(s) <= size /\ End(s) = OperandAt(s) + 4
    BY <1>1, <1>2, SiteShape DEF Laid, Jumps, Stands, End
  <2>2. NewAddress(o) \in Nat
    BY <1>3, LabelAddress
  <2>3. OperandAt(s) + 4 <= BufLen /\ NewAddress(o) - End(s) \in Int
    BY <1>2, <2>1, <2>2
  <2> QED
    BY <1>2, <1>3, <2>1, <2>3, PatchesOperand
<1>4. CASE PatchConditionalJmp
  <2>1. PICK s \in sites :
          /\ s.kind = "cond" /\ HasLabel(CondOffset(s.at))
          /\ buf' = Paste(buf, OperandAt(s), Le32(NewAddress(CondOffset(s.at)) - End(s)))
    BY <1>4, PatchedCond DEF PatchConditionalJmp
  <2> QED
    BY <1>3, <2>1
<1>5. CASE PatchJmp
  <2>1. PICK s \in sites :
          /\ s.kind = "jmp" /\ HasLabel(Held(buf, s))
          /\ buf' = Paste(buf, OperandAt(s), Le32(NewAddress(Held(buf, s)) - End(s)))
    BY <1>5, PatchedJmp DEF PatchJmp
  <2> QED
    BY <1>3, <2>1
<1>6. CASE EndConditionalJmps \/ SkipJmp \/ EndCallsJmps \/ UNCHANGED vars
  <2>1. buf' = buf
    BY <1>6 DEF EndConditionalJmps, SkipJmp, EndCallsJmps, vars
  <2> QED
    BY <2>1
<1>7. ~Prolog /\ ~TokenStep /\ ~LastStep
  BY DEF Prolog, TokenStep, FoldTokens, InsertLabel, AssembleToken, EndOfTokens,
         LastStep, ChangeMemoryOffset, SearchPopRbxForever, ChangeReturnValue
<1> QED
  BY <1>4, <1>5, <1>6, <1>7 DEF Next, LinkStep, Stopped

(* Where every mark is a jump no step of the passes changes a byte outside *)
(* the operands of jumps: not the calls of in and out, and no instruction  *)
(* that is no jump.                                                        *)
THEOREM OnlyOperandsPatched == ShortCode /\ Spec => PatchesOnlyOperands
<1>1. ASSUME ShortCode, IInv, LInv, [Next]_vars
      PROVE  [ Unmistakable /\ phase \in {"cond_jmps", "calls_jmps"}
                 => \A k \in DOMAIN buf : buf'[k] # buf[k] => IsOperand(k) ]_vars
  BY <1>1, LinkStepPatches
<1>2. ShortCode /\ IInv /\ LInv /\ [Next]_vars
        => [ Unmistakable /\ phase \in {"cond_jmps", "calls_jmps"}
               => \A k \in DOMAIN buf : buf'[k] # buf[k] => IsOperand(k) ]_vars
  BY <1>1
<1>3. ShortCode /\ Init => ShortCode
  OBVIOUS
<1>4. ShortCode /\ [Next]_vars => ShortCode'
  OBVIOUS
<1> QED
  BY <1>2, <1>3, <1>4, Invariance, LinkingInvariance, PTL DEF Spec, PatchesOnlyOperands

(* Code longer than the place of mov rbx that ends inside the buffer ends  *)
(* in pop rax; ret: neither a pass nor the patch of the set-up reaches     *)
(* beyond the first byte of the filling (change_return_value_src2rax).     *)
THEOREM RetFollows == ShortCode /\ Spec => []EndsInRet
<1>1. LInv => EndsInRet
  BY DEF LInv
<1> QED
  BY <1>1, LinkingInvariance, PTL

-----------------------------------------------------------------------------
(* The set-up of the guest's data base, from its two tokens to its patch.  *)

(* The code of push N; pop rbx, and no jump in it.                         *)
SetUpDone ==
  /\ SetUpEnd \in Nat /\ size >= SetUpEnd /\ buf[SetUpEnd - 1] = POP_RBX
  /\ \A s \in sites : Begin(s) >= SetUpEnd

SetUpKept ==
  IsSetUp =>
    /\ phase = "prolog" => i = 0
    /\ phase = "tokens" /\ i = 0 => size = PROLOG_LENGTH /\ sites = {}
    /\ phase = "tokens" /\ i = 1 => size = SetUpEnd - 1 /\ sites = {}
    /\ phase = "tokens" /\ i >= 2 => SetUpDone
    /\ Linking /\ Unmistakable => SetUpDone

LEMMA SetUpFields ==
  ASSUME tokens \in Seq(Token), IsSetUp
  PROVE  /\ Len(tokens) \in Nat /\ Len(tokens) >= 2
         /\ tokens[1] \in Token /\ tokens[2] \in Token /\ TokenAt(0) = tokens[1] /\ TokenAt(1) = tokens[2]
         /\ tokens[1].my_cmd = CMD_MY_PUSH /\ tokens[1].reg # RBX /\ tokens[1].use_immed
         /\ tokens[2].my_cmd = CMD_MY_POP /\ ~tokens[2].use_immed /\ ~tokens[2].use_r8plus_regs
         /\ tokens[2].mode = MODE_8_BYTE_IN_ADDRESS /\ tokens[2].reg = RBX
         /\ TokenAt(2).my_cmd \notin MathCmds
<1>1. Len(tokens) \in Nat /\ Len(tokens) >= 2
  BY DEF IsSetUp
<1>2. 0 < Len(tokens) /\ 1 < Len(tokens) /\ 0 + 1 = 1 /\ 1 + 1 = 2 /\ 1 \in 1..Len(tokens) /\ 2 \in 1..Len(tokens)
  BY <1>1
<1>3. TokenAt(0) = tokens[1] /\ TokenAt(1) = tokens[2]
  BY <1>2, Zenon DEF TokenAt
<1>4. tokens[1] \in Token /\ tokens[2] \in Token
  BY <1>2
<1> QED
  BY <1>1, <1>3, <1>4 DEF IsSetUp

(* push N leaves 2 to 5 bytes; pop rbx one.                                *)
LEMMA SetUpCode ==
  ASSUME tokens \in Seq(Token), IsSetUp, NEW space
  PROVE  /\ x86_cmd_ctor(tokens[1], space) \in Seq(Byte)
         /\ SetUpEnd = PROLOG_LENGTH + Len(x86_cmd_ctor(tokens[1], space)) + 1
         /\ SetUpEnd \in Nat /\ 12 <= SetUpEnd /\ SetUpEnd <= 16
         /\ x86_cmd_ctor(tokens[2], space) = << POP_RBX >>
<1>1. PICK push \in Token : push = tokens[1] /\ push.my_cmd = CMD_MY_PUSH /\ push.use_immed
  BY SetUpFields
<1>2. PICK pop \in Token :
        /\ pop = tokens[2] /\ pop.my_cmd = CMD_MY_POP /\ ~pop.use_immed /\ ~pop.use_r8plus_regs
        /\ pop.mode = MODE_8_BYTE_IN_ADDRESS /\ pop.reg = RBX
  BY SetUpFields
<1>3. /\ x86_cmd_ctor(push, space) = encode_token2push_pop(push)
      /\ x86_cmd_ctor(pop, space) = encode_token2push_pop(pop)
  BY <1>1, <1>2, CodeOfCommand
<1>4. PICK code : code = encode_token2push_pop(push)
  OBVIOUS
<1>5. code \in Seq(Byte) /\ Len(code) \in Nat /\ Len(code) <= 5
  BY <1>4, TokenPushPopType, BytesLength
<1>6. Len(code) >= 1
  <2>1. PICK opcode : opcode = IF push.immed <= ASCII_MAX_SYMBOL THEN \h6A ELSE \h68
    OBVIOUS
  <2>2. opcode \in Byte
    BY <2>1, ByteRange
  <2>3. code = << opcode >> \o NumberBytes(push.immed)
    BY <1>1, <1>4, <2>1, Zenon DEF encode_token2push_pop
  <2>4. NumberBytes(push.immed) \in Seq(Byte)
    BY TokenFields, NumberBytesType, BytesAreSeq
  <2>5. << opcode >> \in Seq(Byte) /\ Len(<< opcode >>) = 1
    BY <2>2
  <2>6. Len(code) = Len(<< opcode >>) + Len(NumberBytes(push.immed)) /\ Len(NumberBytes(push.immed)) \in Nat
    BY <2>3, <2>4, <2>5, JoinedSeqs
  <2> QED
    BY <2>5, <2>6
<1>7. SetUpEnd = PROLOG_LENGTH + Len(code) + 1
  BY <1>1, <1>4 DEF SetUpEnd
<1>8. encode_token2push_pop(pop) = << POP_RBX >>
  <2>1. MODE_8_BYTE_IN_ADDRESS # MODE_REG_ADDRESS /\ MODE_8_BYTE_IN_ADDRESS # MODE_NONE /\ CMD_MY_POP # CMD_MY_PUSH
    BY DEF MODE_NONE, MODE_REG_ADDRESS, MODE_8_BYTE_IN_ADDRESS, CMD_MY_POP, CMD_MY_PUSH
  <2>2. encode_token2push_pop(pop) = R8PlusPrefix(pop) \o << \h58 + RBX >>
    BY <1>2, <2>1, Zenon DEF encode_token2push_pop
  <2>3. R8PlusPrefix(pop) = << >>
    BY <1>2, Zenon DEF R8PlusPrefix
  <2>4. \h58 + RBX = POP_RBX
    BY DEF RBX, POP_RBX
  <2>5. << >> \o << POP_RBX >> = << POP_RBX >>
    BY DEF POP_RBX
  <2> QED
    BY <2>2, <2>3, <2>4, <2>5
<1> QED
  BY <1>1, <1>2, <1>3, <1>4, <1>5, <1>6, <1>7, <1>8 DEF PROLOG_LENGTH

(* Neither of the two tokens begins a fold.                                *)
LEMMA SetUpNotFolded ==
  ASSUME tokens \in Seq(Token), IsSetUp, i = 0 \/ i = 1
  PROVE  Fold_i.skip = 0
<1>1. PICK look : look = Look(i)
  OBVIOUS
<1>2. look[0] = TokenAt(i) /\ look[1] = TokenAt(i + 1) /\ look[2] = TokenAt(i + 2)
  BY <1>1 DEF Look
<1>3. CMD_MY_POP # CMD_MY_PUSH /\ CMD_MY_POP \notin MathCmds /\ CMD_MY_PUSH \notin MathCmds
  BY DEF MathCmds, CMD_MY_PUSH, CMD_MY_POP, CMD_MY_ADD, CMD_MY_SUB, CMD_MY_MUL, CMD_MY_DIV
<1>4. CASE i = 0
  <2>1. look[0] = tokens[1] /\ look[1] = tokens[2] /\ look[2] = TokenAt(2)
    BY <1>2, <1>4, SetUpFields
  <2>2. /\ look[0].reg # RBX /\ look[0].my_cmd \notin MathCmds /\ look[1].my_cmd \notin MathCmds
        /\ look[2].my_cmd \notin MathCmds
    BY <1>3, <2>1, SetUpFields
  <2>3. ~IsMemoryAccess(look)
    BY <2>2 DEF IsMemoryAccess
  <2>4. convert_tokens2nonstack_logic(look) = Fold(0, << >>)
    BY <2>2, <2>3, Zenon DEF convert_tokens2nonstack_logic
  <2> QED
    BY <1>1, <2>4 DEF Fold_i, Fold
<1>5. CASE i = 1
  <2>1. look[0].my_cmd = CMD_MY_POP
    BY <1>2, <1>5, SetUpFields
  <2>2. ~IsMemoryAccess(look) /\ look[0].my_cmd # CMD_MY_PUSH /\ look[0].my_cmd \notin MathCmds
    BY <1>3, <2>1 DEF IsMemoryAccess
  <2>3. convert_tokens2nonstack_logic(look) = Fold(0, << >>)
    BY <2>2, Zenon DEF convert_tokens2nonstack_logic
  <2> QED
    BY <1>1, <2>3 DEF Fold_i, Fold
<1> QED
  BY <1>4, <1>5

LEMMA SInit == ASSUME Init PROVE SetUpKept
BY DEF Init, SetUpKept, Linking

(* Bytes appended after the set-up leave it as it is.                      *)
LEMMA SetUpAppended ==
  ASSUME SetUpDone, SetUpEnd >= 12, buf \in Memory, size \in Nat, BufLen \in Nat, size + 22 <= BufLen,
         NEW code \in Seq(Byte), Emit(code),
         tokens' = tokens, \A s \in sites' : s \in sites \/ Begin(s) >= size, sites' \in SUBSET Site
  PROVE  SetUpDone'
<1>1. buf' = Paste(buf, size, code) /\ size' = size + Len(code) /\ Len(code) \in Nat
  <2>1. buf' = Paste(buf, size, code) /\ size' = size + Len(code)
    BY Zenon DEF Emit
  <2> QED
    BY <2>1
<1>2. SetUpEnd' = SetUpEnd
  BY DEF SetUpEnd
<1>3. PICK end \in Nat : end = SetUpEnd /\ size >= end /\ buf[end - 1] = POP_RBX /\ \A s \in sites : Begin(s) >= end
  BY DEF SetUpDone
<1>4. ASSUME end - 1 \in 0 .. BufLen - 1 PROVE buf'[end - 1] = POP_RBX
  <2>1. end - 1 < size
    BY <1>3
  <2>2. buf'[end - 1] = buf[end - 1]
    BY <1>1, <1>4, <2>1, PasteAt
  <2> QED
    BY <1>3, <2>2
<1>5. size' >= end
  BY <1>1, <1>3
<1>6. ASSUME NEW s \in sites' PROVE Begin(s) >= end
  <2>1. Begin(s) \in Int
    BY <1>6, SiteShape
  <2> QED
    BY <1>3, <1>6, <2>1
<1>7. end - 1 \in 0 .. BufLen - 1
  <2>1. end >= 12
    BY <1>3
  <2> QED
    BY <1>3, <2>1
<1> QED
  BY <1>2, <1>3, <1>4, <1>5, <1>6, <1>7 DEF SetUpDone

LEMMA SProlog == ASSUME IInv, LInv, SetUpKept, Prolog PROVE SetUpKept'
<1>1. /\ tokens \in Seq(Token) /\ size \in 0..1 /\ i = 0 /\ phase' = "tokens" /\ sites = {}
      /\ UNCHANGED << tokens, beyond, i, sites >>
  BY DEF IInv, TypeOK, Start, Prolog, LInv, InProlog
<1>2. PICK code : code = SetCallStack \o insert_nops(size + Len(SetCallStack), PROLOG_LENGTH)
  OBVIOUS
<1>3. size' = size + Len(code)
  BY <1>2, Zenon DEF Prolog
<1>4. size + Len(code) = PROLOG_LENGTH
  BY <1>1, <1>2, PrologType
<1> QED
  BY <1>1, <1>3, <1>4 DEF SetUpKept, Linking

LEMMA SFoldTokens == ASSUME ShortCode, IInv, LInv, SetUpKept, FoldTokens PROVE SetUpKept'
<1>1. /\ i \in Nat /\ tokens \in Seq(Token) /\ beyond \in Token /\ tokens \in Programs
  BY DEF IInv, TypeOK, LInv
<1>2. /\ phase = "tokens" /\ i < Len(tokens) /\ Fold_i.skip > 0 /\ i' = i + Fold_i.skip /\ Emit(Fold_i.bytes)
      /\ UNCHANGED << tokens, beyond, labels, phase, sites, stray >>
  BY DEF FoldTokens
<1>3. Fold_i.bytes \in BytesUpTo(16) /\ Fold_i.skip \in Nat
  BY <1>1, WindowType, FoldsFit DEF Fold_i
<1>4. Fold_i.bytes \in Seq(Byte)
  BY <1>3, BytesLength
<1>5. SUFFICES ASSUME IsSetUp PROVE i' >= 2 /\ SetUpDone'
  <2>1. IsSetUp' => IsSetUp
    BY <1>2 DEF IsSetUp, TokenAt
  <2>2. IsSetUp' => i' # 0 /\ i' # 1 /\ SetUpDone'
    BY <1>5, <2>1
  <2>3. phase' = "tokens"
    BY <1>2
  <2> QED
    BY <2>2, <2>3 DEF SetUpKept, Linking
<1>6. i >= 2
  <2>1. i # 0 /\ i # 1
    BY <1>1, <1>2, <1>5, SetUpNotFolded
  <2> QED
    BY <1>1, <2>1
<1>7. SetUpDone /\ SetUpEnd >= 12
  BY <1>1, <1>2, <1>5, <1>6, SetUpCode DEF SetUpKept
<1>8. buf \in Memory /\ size \in Nat /\ size + 22 <= BufLen /\ BufLen \in Nat /\ sites \in SUBSET Site
  BY <1>1, <1>2, Room
<1>9. SetUpDone'
  BY <1>2, <1>4, <1>7, <1>8, SetUpAppended
<1> QED
  BY <1>1, <1>2, <1>3, <1>6, <1>9

LEMMA SInsertLabel == ASSUME ShortCode, IInv, LInv, SetUpKept, InsertLabel PROVE SetUpKept'
<1>1. /\ i \in Nat /\ tokens \in Seq(Token)
  BY DEF IInv, TypeOK, LInv
<1>2. /\ phase = "tokens" /\ i' = i + 1 /\ TokenAt(i).my_cmd = CMD_MY_LABEL
      /\ phase' \in {"tokens", "label_overflow"}
      /\ UNCHANGED << tokens, beyond, buf, size, sites, stray >>
  BY DEF InsertLabel
<1>3. SUFFICES ASSUME IsSetUp PROVE i' >= 2 /\ SetUpDone'
  <2>1. IsSetUp' => IsSetUp
    BY <1>2 DEF IsSetUp, TokenAt
  <2>2. IsSetUp' => i' # 0 /\ i' # 1 /\ SetUpDone'
    BY <1>3, <2>1
  <2>3. phase' \in {"tokens", "label_overflow"}
    BY <1>2
  <2> QED
    BY <2>2, <2>3 DEF SetUpKept, Linking
<1>4. i >= 2
  <2>1. CMD_MY_LABEL # CMD_MY_PUSH /\ CMD_MY_LABEL # CMD_MY_POP
    BY DEF CMD_MY_LABEL, CMD_MY_PUSH, CMD_MY_POP
  <2>2. i # 0 /\ i # 1
    BY <1>1, <1>2, <1>3, <2>1, SetUpFields
  <2> QED
    BY <1>1, <2>2
<1>5. SetUpDone
  BY <1>2, <1>3, <1>4 DEF SetUpKept
<1>6. SetUpDone'
  BY <1>2, <1>5 DEF SetUpDone, SetUpEnd
<1> QED
  BY <1>1, <1>2, <1>4, <1>6

LEMMA NoSiteOfSetUp ==
  ASSUME NEW token, token.my_cmd \in {CMD_MY_PUSH, CMD_MY_POP}, NEW at
  PROVE  SitesOf(token, at) = {}
<1>1. token.my_cmd \notin Marked
  BY DEF Marked, CMD_MY_OUT, CMD_MY_IN, CMD_MY_CALL, CMD_MY_JMP, CMD_MY_PUSH, CMD_MY_POP,
         CondJmpCmds, CMD_MY_JB, CMD_MY_JBE, CMD_MY_JA, CMD_MY_JAE, CMD_MY_JE, CMD_MY_JNE
<1> QED
  BY <1>1, SitesOfCommand

LEMMA SAssembleToken == ASSUME ShortCode, IInv, LInv, SetUpKept, AssembleToken PROVE SetUpKept'
<1>1. /\ i \in Nat /\ tokens \in Seq(Token) /\ beyond \in Token /\ tokens \in Programs
  BY DEF IInv, TypeOK, LInv
<1>2. /\ phase = "tokens" /\ i < Len(tokens) /\ i' = i + 1
      /\ Emit(x86_cmd_ctor(TokenAt(i), JitBuf + size))
      /\ sites' = sites \cup SitesOf(TokenAt(i), size)
      /\ UNCHANGED << tokens, beyond, labels, phase, stray >>
  BY DEF AssembleToken
<1>3. /\ buf \in Memory /\ size \in Nat /\ size + 22 <= BufLen /\ BufLen \in Nat /\ sites \in SUBSET Site
  BY <1>1, <1>2, Room
<1>4. PICK token \in Token : token = TokenAt(i)
  BY <1>1, WindowType
<1>5. PICK code : code = x86_cmd_ctor(token, JitBuf + size)
  OBVIOUS
<1>6. code \in Seq(Byte) /\ Len(code) \in Nat
  <2>1. JitBuf + size \in Nat /\ PrintDecimal \in Int /\ ScanDecimal \in Int
    BY <1>3, ConstantsAssumption
  <2>2. code \in BytesUpTo(16)
    BY <1>5, <2>1, TokensFit16
  <2> QED
    BY <2>2, BytesLength
<1>7. Emit(code) /\ buf' = Paste(buf, size, code) /\ size' = size + Len(code)
  <2>1. Emit(code)
    BY <1>2, <1>4, <1>5
  <2> QED
    BY <2>1, Zenon DEF Emit
<1>8. SUFFICES ASSUME IsSetUp
               PROVE  /\ i' = 1 => size' = SetUpEnd - 1 /\ sites' = {}
                      /\ i' >= 2 => SetUpDone'
  <2>1. IsSetUp' = IsSetUp /\ SetUpEnd' = SetUpEnd /\ i' # 0
    BY <1>1, <1>2 DEF IsSetUp, TokenAt, SetUpEnd
  <2> QED
    BY <1>2, <1>8, <2>1 DEF SetUpKept, Linking
<1>9. CASE i = 0
  <2>1. token = tokens[1] /\ token.my_cmd = CMD_MY_PUSH /\ size = PROLOG_LENGTH /\ sites = {}
    BY <1>1, <1>2, <1>4, <1>8, <1>9, SetUpFields DEF SetUpKept
  <2>2. SitesOf(token, size) = {}
    BY <2>1, NoSiteOfSetUp
  <2>3. SetUpEnd = PROLOG_LENGTH + Len(code) + 1
    BY <1>1, <1>5, <1>8, <2>1, SetUpCode
  <2> QED
    BY <1>2, <1>3, <1>4, <1>6, <1>7, <1>9, <2>1, <2>2, <2>3
<1>10. CASE i = 1
  <2>1. token = tokens[2] /\ token.my_cmd = CMD_MY_POP /\ size = SetUpEnd - 1 /\ sites = {}
    BY <1>1, <1>2, <1>4, <1>8, <1>10, SetUpFields DEF SetUpKept
  <2>2. SitesOf(token, size) = {}
    BY <2>1, NoSiteOfSetUp
  <2>3. code = << POP_RBX >> /\ SetUpEnd \in Nat
    BY <1>1, <1>5, <1>8, <2>1, SetUpCode
  <2>4. Len(code) = 1 /\ code[1] = POP_RBX /\ size - size + 1 = 1
    BY <1>3, <2>3
  <2>5. size \in 0 .. BufLen - 1 /\ size <= size /\ size < size + Len(code)
    BY <1>3, <2>4
  <2>6. buf'[size] = POP_RBX
    BY <1>3, <1>6, <1>7, <2>4, <2>5, PasteAt
  <2>7. SetUpEnd' = SetUpEnd /\ sites' = {} /\ size' = SetUpEnd
    <3>1. SetUpEnd' = SetUpEnd
      BY <1>2 DEF SetUpEnd
    <3>2. sites' = {}
      BY <1>2, <1>4, <2>1, <2>2
    <3>3. size' = SetUpEnd
      BY <1>3, <1>7, <2>1, <2>3, <2>4
    <3> QED
      BY <3>1, <3>2, <3>3
  <2>8. SetUpDone'
    BY <2>1, <2>3, <2>6, <2>7 DEF SetUpDone
  <2> QED
    BY <1>2, <1>10, <2>8
<1>11. CASE i # 0 /\ i # 1
  <2>1. i >= 2
    BY <1>1, <1>11
  <2>2. SetUpDone /\ SetUpEnd >= 12
    BY <1>1, <1>2, <1>8, <2>1, SetUpCode DEF SetUpKept
  <2>3. sites' \in SUBSET Site
    BY <1>2, <1>3, <1>4, SitesType
  <2>4. ASSUME NEW s \in SitesOf(token, size) PROVE Begin(s) >= size
    BY <1>3, <2>4, SiteBytes DEF LaidOut
  <2>5. \A s \in sites' : s \in sites \/ Begin(s) >= size
    BY <1>2, <1>4, <2>4
  <2>6. tokens' = tokens
    BY <1>2
  <2>7. SetUpDone'
    BY <1>3, <1>6, <1>7, <2>2, <2>3, <2>5, <2>6, SetUpAppended
  <2> QED
    BY <1>1, <1>2, <2>1, <2>7
<1> QED
  BY <1>9, <1>10, <1>11

LEMMA SEndOfTokens == ASSUME IInv, LInv, SetUpKept, EndOfTokens PROVE SetUpKept'
<1>1. tokens \in Seq(Token) /\ i \in Nat
  BY DEF IInv, TypeOK
<1>2. /\ phase = "tokens" /\ i >= Len(tokens) /\ phase' = "cond_jmps"
      /\ UNCHANGED << tokens, beyond, buf, size, labels, sites >>
  BY DEF EndOfTokens
<1>3. IsSetUp' = IsSetUp /\ SetUpDone' = SetUpDone
  BY <1>2 DEF IsSetUp, TokenAt, SetUpDone, SetUpEnd
<1>4. IsSetUp => SetUpDone
  BY <1>1, <1>2, SetUpFields DEF SetUpKept
<1> QED
  BY <1>2, <1>3, <1>4 DEF SetUpKept

(* The passes change nothing before the first jump.                        *)
LEMMA SLinkStep == ASSUME ShortCode, IInv, LInv, SetUpKept, LinkStep PROVE SetUpKept'
<1>1. /\ phase \in {"cond_jmps", "calls_jmps"} /\ phase' \in {"cond_jmps", "calls_jmps", "memory_offset"}
      /\ UNCHANGED << tokens, beyond, size, labels, sites, stray >>
  BY DEF LinkStep, PatchConditionalJmp, EndConditionalJmps, PatchJmp, SkipJmp, EndCallsJmps
<1>2. IsSetUp' = IsSetUp /\ SetUpEnd' = SetUpEnd /\ Unmistakable' = Unmistakable
  BY <1>1, SameProgram DEF IsSetUp, TokenAt, SetUpEnd
<1>3. tokens \in Seq(Token) /\ tokens \in Programs /\ sites \in SUBSET Site
  BY DEF IInv, TypeOK, LInv
<1>4. SUFFICES ASSUME IsSetUp, Unmistakable PROVE SetUpDone'
  BY <1>1, <1>2 DEF SetUpKept
<1>5. SetUpDone
  BY <1>1, <1>4 DEF SetUpKept, Linking
<1>6. size \in Nat /\ size + 22 <= BufLen /\ BufLen \in Nat /\ buf \in Memory
  BY <1>1, <1>3, Room
<1>7. PICK end \in Nat :
        /\ end = SetUpEnd /\ size >= end /\ buf[end - 1] = POP_RBX /\ 12 <= end
        /\ \A s \in sites : Begin(s) >= end
  BY <1>3, <1>4, <1>5, SetUpCode DEF SetUpDone
<1>8. buf'[end - 1] = buf[end - 1]
  <2> SUFFICES ASSUME buf'[end - 1] # buf[end - 1] PROVE FALSE
    OBVIOUS
  <2>1. end - 1 \in DOMAIN buf
    BY <1>6, <1>7 DEF Memory
  <2>2. [Next]_vars
    BY DEF Next
  <2>3. IsOperand(end - 1)
    BY <1>1, <1>4, <2>1, <2>2, LinkStepPatches
  <2>4. PICK s \in sites : end - 1 \in OperandAt(s) .. OperandAt(s) + 3
    BY <2>3 DEF IsOperand
  <2>5. OperandAt(s) \in Nat /\ Begin(s) \in Int /\ Begin(s) <= OperandAt(s) /\ s.at \in Nat
    BY <1>3, SiteShape
  <2> QED
    BY <1>7, <2>4, <2>5
<1> QED
  BY <1>1, <1>2, <1>7, <1>8 DEF SetUpDone

LEMMA SNext == ASSUME ShortCode, IInv, LInv, SetUpKept, [Next]_vars PROVE SetUpKept'
<1>1. CASE Prolog
  BY <1>1, SProlog
<1>2. CASE TokenStep
  BY <1>2, SFoldTokens, SInsertLabel, SAssembleToken, SEndOfTokens DEF TokenStep
<1>3. CASE LinkStep
  BY <1>3, SLinkStep
<1>4. CASE LastStep
  <2>1. phase' \in {"return_value", "endless", "ready"}
    BY <1>4 DEF LastStep, ChangeMemoryOffset, SearchPopRbxForever, ChangeReturnValue
  <2> QED
    BY <2>1 DEF SetUpKept, Linking
<1>5. CASE UNCHANGED vars
  <2>1. UNCHANGED << tokens, beyond, i, buf, size, labels, phase, sites, stray >>
    BY <1>5 DEF vars
  <2>2. Unmistakable' = Unmistakable
    BY <2>1, SameProgram
  <2>3. IsSetUp' = IsSetUp /\ SetUpDone' = SetUpDone /\ SetUpEnd' = SetUpEnd
    BY <2>1 DEF IsSetUp, TokenAt, SetUpDone, SetUpEnd
  <2> QED
    BY <2>1, <2>2, <2>3 DEF SetUpKept, Linking
<1> QED
  BY <1>1, <1>2, <1>3, <1>4, <1>5 DEF Next, Stopped

(* The search stops at the set-up's own pop rbx.                           *)
LEMMA SetUpPatched ==
  ASSUME ShortCode, IInv, LInv, SetUpKept, [Next]_vars, phase = "memory_offset", Unmistakable,
         SetUpIsFound
  PROVE  SetUpBecomesMov \/ UNCHANGED vars
<1>1. tokens \in Seq(Token) /\ tokens \in Programs /\ IsSetUp
  BY DEF IInv, TypeOK, LInv, SetUpIsFound
<1>2. size \in Nat /\ size + 22 <= BufLen /\ BufLen \in Nat /\ buf \in Memory
  BY <1>1, Room
<1>3. PICK end \in Nat :
        /\ end = SetUpEnd /\ size >= end /\ buf[end - 1] = POP_RBX /\ 12 <= end /\ end <= 16
        /\ \A k \in 0 .. end - 2 : buf[k] # POP_RBX
  <2>1. SetUpDone
    BY <1>1 DEF SetUpKept, Linking
  <2> QED
    BY <1>1, <2>1, SetUpCode DEF SetUpDone, SetUpIsFound
<1>4. end - 1 \in PopRbxStops
  BY <1>2, <1>3 DEF PopRbxStops
<1>5. PopRbxStops \in SUBSET Nat
  BY DEF PopRbxStops
<1>6. PICK m : m = Min(PopRbxStops)
  OBVIOUS
<1>7. m \in PopRbxStops /\ m <= end - 1
  BY <1>4, <1>5, <1>6, SmallestOf
<1>8. m = end - 1
  <2> SUFFICES ASSUME m # end - 1 PROVE FALSE
    OBVIOUS
  <2>1. m \in Nat /\ (m >= size \/ buf[m] = POP_RBX)
    BY <1>7 DEF PopRbxStops
  <2>2. m \in 0 .. end - 2 /\ m < size
    BY <1>2, <1>3, <1>7, <2>1
  <2> QED
    BY <1>2, <1>3, <2>1, <2>2
<1>9. byte_after_first_pop - 1 = end - 1
  <2>1. byte_after_first_pop = (m + 1) % 256
    BY <1>6, Zenon DEF byte_after_first_pop
  <2>2. m + 1 = end
    BY <1>3, <1>8
  <2>3. end % 256 = end
    BY <1>3, SMT
  <2> QED
    BY <2>1, <2>2, <2>3
<1>10. CASE ChangeMemoryOffset
  <2>1. buf' = [k \in DOMAIN buf |->
                  IF k \in 7 .. 6 + Len(SetDataBase) THEN SetDataBase[k - 6]
                  ELSE IF k \in 7 + Len(SetDataBase) .. end - 1 THEN NOP
                  ELSE buf[k]]
    BY <1>9, <1>10, Zenon DEF ChangeMemoryOffset
  <2>2. 6 + Len(SetDataBase) = 11 /\ 7 + Len(SetDataBase) = 12
    BY SetDataBaseLength
  <2>3. ASSUME NEW k \in 0 .. BufLen - 1
        PROVE  buf'[k] = IF k \in 7 .. 11 THEN SetDataBase[k - 6]
                         ELSE IF k \in 12 .. end - 1 THEN NOP
                         ELSE buf[k]
    <3>1. k \in DOMAIN buf
      BY <1>2, <2>3 DEF Memory
    <3> QED
      BY <2>1, <2>2, <3>1, Zenon
  <2>4. ASSUME NEW k \in 7 .. end - 1 PROVE buf'[k] = IF k < 12 THEN SetDataBase[k - 6] ELSE NOP
    <3>1. k \in 0 .. BufLen - 1 /\ (k < 12 => k \in 7 .. 11) /\ (~(k < 12) => k \in 12 .. end - 1 /\ k \notin 7 .. 11)
      BY <1>2, <1>3
    <3> QED
      BY <2>3, <3>1
  <2>5. ASSUME NEW k \in end .. size - 1 PROVE buf'[k] = buf[k]
    <3>1. k \in 0 .. BufLen - 1 /\ k \notin 7 .. 11 /\ k \notin 12 .. end - 1
      BY <1>2, <1>3
    <3> QED
      BY <2>3, <3>1
  <2> QED
    BY <1>3, <2>4, <2>5 DEF SetUpBecomesMov
<1>11. ~SearchPopRbxForever
  BY <1>4 DEF SearchPopRbxForever
<1>12. ~Prolog /\ ~TokenStep /\ ~LinkStep /\ ~ChangeReturnValue /\ ~Stopped
  BY DEF Prolog, TokenStep, FoldTokens, InsertLabel, AssembleToken, EndOfTokens, LinkStep,
         PatchConditionalJmp, EndConditionalJmps, PatchJmp, SkipJmp, EndCallsJmps, ChangeReturnValue, Stopped
<1> QED
  BY <1>10, <1>11, <1>12 DEF Next, LastStep

(* A set-up of the data base that is found is replaced whole, whatever     *)
(* number of bytes its push takes: mov r15 runs into mov rbx and nops up   *)
(* to the code after it, which is as it was (change_memory_offset).        *)
THEOREM SetUpIsReplaced == ShortCode /\ Spec => SetUpReplaced
<1> DEFINE Kept == ShortCode /\ IInv /\ LInv /\ SetUpKept
<1>1. ShortCode /\ Init => Kept
  BY InitIInv, LInit, SInit
<1>2. Kept /\ [Next]_vars => Kept'
  BY NextIInv, LNext, SNext
<1>3. Kept /\ [Next]_vars
        => [ phase = "memory_offset" /\ Unmistakable /\ SetUpIsFound => SetUpBecomesMov ]_vars
  BY SetUpPatched
<1> QED
  BY <1>1, <1>2, <1>3, PTL DEF Spec, SetUpReplaced
=============================================================================
