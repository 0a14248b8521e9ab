--------------------------- MODULE EncodingProofs ---------------------------
(***************************************************************************)
(* What the translator writes, for any request and any token.  How many    *)
(* bytes there are at most and what the first one is: encode_cmd leaves at *)
(* most 7 bytes, a fold or a single token at most 16, of which the first   *)
(* is not 0, and the code of a jump or a call has its displacement.  Then  *)
(* what the processor reads: what the decoder makes of each form of an     *)
(* instruction, and which form each request is written in.                 *)
(***************************************************************************)
EXTENDS Tokens2x86, EncoderSpec, SequenceTheorems, TLAPS

-----------------------------------------------------------------------------
(* One request.                                                            *)

(* Strings of at most n bytes.                                             *)
BytesUpTo(n) == { s \in Seq(Byte) : Len(s) <= n }

LEMMA EmptyBytes == << >> \in BytesUpTo(0)
BY DEF BytesUpTo

LEMMA OneByte ==
  ASSUME NEW b \in Byte
  PROVE  << b >> \in BytesUpTo(1)
BY DEF BytesUpTo

LEMMA JoinedBytes ==
  ASSUME NEW m \in Nat, NEW n \in Nat, NEW s \in BytesUpTo(m), NEW t \in BytesUpTo(n)
  PROVE  s \o t \in BytesUpTo(m + n) /\ Len(s \o t) = Len(s) + Len(t)
BY DEF BytesUpTo

LEMMA SeqOfBytes ==
  ASSUME NEW n \in Nat, NEW s \in Seq(Byte), Len(s) <= n
  PROVE  s \in BytesUpTo(n)
BY DEF BytesUpTo

LEMMA FewerBytes ==
  ASSUME NEW m \in Nat, NEW n \in Nat, m <= n, NEW s \in BytesUpTo(m)
  PROVE  s \in BytesUpTo(n)
BY DEF BytesUpTo

LEMMA Le32Type ==
  ASSUME NEW v \in Int
  PROVE  Le32(v) \in BytesUpTo(4) /\ Len(Le32(v)) = 4
<1> DEFINE a == v % 256
           b == (v \div 256) % 256
           c == (v \div 65536) % 256
           d == (v \div 16777216) % 256
<1>1. a \in Byte /\ b \in Byte /\ c \in Byte /\ d \in Byte
  <2>1. ASSUME NEW x \in Int PROVE x % 256 \in Byte
    BY DEF Byte
  <2>2. v \div 256 \in Int /\ v \div 65536 \in Int /\ v \div 16777216 \in Int
    OBVIOUS
  <2> QED
    BY <2>1, <2>2
<1>2. Le32(v) = << a, b, c, d >>
  BY DEF Le32
<1> HIDE DEF a, b, c, d
<1> QED
  BY <1>1, <1>2 DEF BytesUpTo

LEMMA NumberBytesType ==
  ASSUME NEW v \in Int
  PROVE  /\ NumberBytes(v) \in BytesUpTo(4)
         /\ v \in 0..127 => Len(NumberBytes(v)) = 1
<1>1. v % 256 \in Byte
  BY DEF Byte
<1>2. << v % 256 >> \in BytesUpTo(1) /\ Len(<< v % 256 >>) = 1
  BY <1>1, OneByte
<1>3. << v % 256 >> \in BytesUpTo(4)
  BY <1>2, FewerBytes
<1>4. v \in 0..127 => get_sizeof_number2write(v) = 1
  BY DEF get_sizeof_number2write, ASCII_MAX_SYMBOL
<1> QED
  BY <1>2, <1>3, <1>4, Le32Type, Zenon DEF NumberBytes

-----------------------------------------------------------------------------
(* Register numbers and the parts of an instruction.                       *)

LEMMA LowType ==
  ASSUME NEW reg \in Registers \cup {INVALID_REG}
  PROVE  /\ reg # INVALID_REG => Low(reg) \in 0..7
         /\ reg = INVALID_REG => Low(reg) = INVALID_REG
BY DEF Registers, INVALID_REG, Low, IsHigh, RDI, R8, R15

LEMMA PrefixType ==
  ASSUME NEW info
  PROVE  Prefix(info) \in BytesUpTo(1)
<1>1. \/ Prefix(info) = << \h4C >> \/ Prefix(info) = << \h49 >> \/ Prefix(info) = << \h41 >>
      \/ Prefix(info) = << \h48 >> \/ Prefix(info) = << >>
  <2>1. CASE IsHigh(info.src_reg)
    BY <2>1, Zenon DEF Prefix
  <2>2. CASE ~IsHigh(info.src_reg) /\ IsHigh(info.dest_reg)
    BY <2>2, Zenon DEF Prefix
  <2>3. CASE ~IsHigh(info.src_reg) /\ ~IsHigh(info.dest_reg)
    BY <2>3, Zenon DEF Prefix
  <2> QED
    BY <2>1, <2>2, <2>3
<1>2. \h4C \in Byte /\ \h49 \in Byte /\ \h41 \in Byte /\ \h48 \in Byte
  BY DEF Byte
<1>3. << >> \in BytesUpTo(1)
  BY EmptyBytes, FewerBytes
<1> QED
  BY <1>1, <1>2, <1>3, OneByte

LEMMA OperandsType ==
  ASSUME NEW info \in Infos(Int)
  PROVE  /\ RmOperand(info) # INVALID_REG => RmOperand(info) \in 0..7
         /\ RegOperand(info) # INVALID_REG => RegOperand(info) \in 0..7
         /\ info.cmd_encode \in {MUL, DIV} => RmOperand(info) \in 0..7
         /\ info.immed_val \in Int
<1>1. /\ info.dest_reg \in Registers \cup {INVALID_REG}
      /\ info.src_reg \in Registers \cup {INVALID_REG}
      /\ info.cmd_encode \in {MUL, DIV} => info.dest_reg # INVALID_REG
      /\ info.immed_val \in Int
  BY DEF Infos
<1>2. /\ Low(info.dest_reg) # INVALID_REG => Low(info.dest_reg) \in 0..7
      /\ Low(info.src_reg) # INVALID_REG => Low(info.src_reg) \in 0..7
      /\ info.cmd_encode \in {MUL, DIV} => Low(info.dest_reg) \in 0..7
  BY <1>1, LowType
<1>3. info.cmd_encode \in {MUL, DIV} => ~Exchanged(info)
  BY DEF Exchanged
<1> QED
  BY <1>1, <1>2, <1>3 DEF RmOperand, RegOperand

LEMMA ModRmType ==
  ASSUME NEW info, RmOperand(info) \in 0..7, NEW extension \in 0..56
  PROVE  ModRm(info, extension) \in BytesUpTo(1)
<1>1. Mod(info) \in {0, 192}
  BY DEF Mod
<1>2. Mod(info) + extension + RmOperand(info) \in Byte
  BY <1>1 DEF Byte
<1> QED
  BY <1>2, OneByte DEF ModRm

(* Prefix, opcode and one more byte, and an immediate after them.          *)
LEMMA ThreeBytes ==
  ASSUME NEW p \in BytesUpTo(1), NEW o \in BytesUpTo(1), NEW r \in BytesUpTo(1)
  PROVE  p \o o \o r \in BytesUpTo(3)
<1>1. p \o o \in BytesUpTo(2)
  BY JoinedBytes
<1> QED
  BY <1>1, JoinedBytes

LEMMA SevenBytes ==
  ASSUME NEW p \in BytesUpTo(1), NEW o \in BytesUpTo(1), NEW r \in BytesUpTo(1), NEW n \in BytesUpTo(4)
  PROVE  p \o o \o r \o n \in BytesUpTo(7)
<1>1. p \o o \in BytesUpTo(2) /\ p \o o \o r \in BytesUpTo(3)
  BY JoinedBytes, ThreeBytes
<1> QED
  BY <1>1, JoinedBytes

LEMMA OpcodeType ==
  ASSUME NEW info, NEW b \in 0..250
  PROVE  << b >> \in BytesUpTo(1) /\ << b + DirectionBit(info) >> \in BytesUpTo(1)
<1>1. DirectionBit(info) \in {0, 2}
  BY DEF DirectionBit
<1>2. b \in Byte /\ b + DirectionBit(info) \in Byte
  BY <1>1 DEF Byte
<1> QED
  BY <1>2, OneByte

-----------------------------------------------------------------------------
(* The encoders.                                                           *)

LEMMA AddSubMulDivType ==
  ASSUME NEW info \in Infos(Int)
  PROVE  /\ encode_add_sub_mul_div(info) \in BytesUpTo(7)
         /\ RegOperand(info) # INVALID_REG => encode_add_sub_mul_div(info) \in BytesUpTo(3)
<1> DEFINE hasReg == RegOperand(info) # INVALID_REG
           hasRm  == RmOperand(info) # INVALID_REG
           isMul  == info.cmd_encode \in {MUL, DIV}
           opcode == IF info.cmd_encode = ADD THEN \h01 ELSE \h29
           narrow == IF get_sizeof_number2write(info.immed_val) = 1 THEN \h83 ELSE \h81
           mulExt == IF info.cmd_encode = MUL THEN \h20 ELSE \h30
           subExt == IF info.cmd_encode = SUB THEN \h28 ELSE 0
           result == encode_add_sub_mul_div(info)
<1>1. /\ isMul /\ hasReg => result = << >>
      /\ isMul /\ ~hasReg => result = Prefix(info) \o << \hF7 >> \o ModRm(info, mulExt)
      /\ ~isMul /\ hasRm /\ hasReg =>
           result = Prefix(info) \o << opcode + DirectionBit(info) >> \o ModRm(info, 8 * RegOperand(info))
      /\ ~isMul /\ hasRm /\ ~hasReg =>
           result = Prefix(info) \o << narrow >> \o ModRm(info, subExt) \o NumberBytes(info.immed_val)
      /\ ~isMul /\ ~hasRm => result = << >>
  <2>1. CASE isMul
    BY SMT, <2>1 DEF encode_add_sub_mul_div
  <2>2. CASE ~isMul /\ hasRm
    BY SMT, <2>2 DEF encode_add_sub_mul_div
  <2>3. CASE ~isMul /\ ~hasRm
    BY SMT, <2>3 DEF encode_add_sub_mul_div
  <2> QED
    BY <2>1, <2>2, <2>3
<1>2. opcode \in 0..250 /\ \hF7 \in 0..250 /\ narrow \in 0..250 /\ mulExt \in 0..56 /\ subExt \in 0..56
  OBVIOUS
<1> HIDE DEF opcode, narrow, mulExt, subExt, result
<1>3. CASE result = << >>
  <2>1. << >> \in BytesUpTo(3) /\ << >> \in BytesUpTo(7)
    BY EmptyBytes, FewerBytes
  <2> QED
    BY <1>3, <2>1 DEF result
<1>4. CASE isMul /\ ~hasReg
  <2>1. ModRm(info, mulExt) \in BytesUpTo(1)
    BY <1>2, <1>4, OperandsType, ModRmType
  <2>2. << \hF7 >> \in BytesUpTo(1)
    BY Zenon, <1>2, OpcodeType
  <2>3. result \in BytesUpTo(3)
    <3>1. result = Prefix(info) \o << \hF7 >> \o ModRm(info, mulExt)
      BY <1>1, <1>4, Zenon
    <3> QED
      BY SMT, <2>1, <2>2, <3>1, PrefixType, ThreeBytes
  <2>4. result \in BytesUpTo(7)
    BY <2>3, FewerBytes
  <2> QED
    BY <2>3, <2>4 DEF result
<1>5. CASE ~isMul /\ hasRm /\ hasReg
  <2>1. ModRm(info, 8 * RegOperand(info)) \in BytesUpTo(1)
    <3>1. RmOperand(info) \in 0..7 /\ RegOperand(info) \in 0..7
      BY <1>5, OperandsType
    <3>2. 8 * RegOperand(info) \in 0..56
      BY <3>1
    <3> QED
      BY <3>1, <3>2, ModRmType
  <2>2. << opcode + DirectionBit(info) >> \in BytesUpTo(1)
    BY <1>2, OpcodeType
  <2>3. result \in BytesUpTo(3)
    BY <1>1, <1>5, <2>1, <2>2, PrefixType, ThreeBytes
  <2>4. result \in BytesUpTo(7)
    BY <2>3, FewerBytes
  <2> QED
    BY <2>3, <2>4 DEF result
<1>6. CASE ~isMul /\ hasRm /\ ~hasReg
  <2>1. ModRm(info, subExt) \in BytesUpTo(1)
    BY <1>2, <1>6, OperandsType, ModRmType
  <2>2. << narrow >> \in BytesUpTo(1)
    BY <1>2, OpcodeType
  <2>3. NumberBytes(info.immed_val) \in BytesUpTo(4)
    BY OperandsType, NumberBytesType
  <2> QED
    BY <1>1, <1>6, <2>1, <2>2, <2>3, PrefixType, SevenBytes DEF result
<1> QED
  BY <1>1, <1>3, <1>4, <1>5, <1>6

LEMMA MovMinusOneType ==
  ASSUME NEW info, RmOperand(info) \in 0..7
  PROVE  MovMinusOne(info) \in BytesUpTo(6)
<1> DEFINE fifth == IF info.use_memory4dest THEN \h3F ELSE \hFF
           opcode == \hB8 + RmOperand(info)
<1>1. MovMinusOne(info) = IF Prefix(info) = << >>
                          THEN << \h49, opcode, \hFF, \hFF, \hFF, \hFF >>
                          ELSE Prefix(info) \o << \h49, fifth, \hFF, \hFF, \hFF >>
  BY DEF MovMinusOne
<1>2. fifth \in Byte /\ opcode \in Byte /\ \h49 \in Byte /\ \hFF \in Byte
  BY DEF Byte
<1> HIDE DEF fifth, opcode
<1>3. << \h49, opcode, \hFF, \hFF, \hFF, \hFF >> \in BytesUpTo(6)
  BY <1>2 DEF BytesUpTo
<1>4. << \h49, fifth, \hFF, \hFF, \hFF >> \in BytesUpTo(5)
  BY <1>2 DEF BytesUpTo
<1>5. Prefix(info) \o << \h49, fifth, \hFF, \hFF, \hFF >> \in BytesUpTo(6)
  BY <1>4, PrefixType, JoinedBytes
<1> QED
  BY <1>1, <1>3, <1>5

LEMMA MovType ==
  ASSUME NEW info \in Infos(Int)
  PROVE  /\ encode_mov(info) \in BytesUpTo(7)
         /\ RegOperand(info) # INVALID_REG => encode_mov(info) \in BytesUpTo(3)
<1> DEFINE hasReg == RegOperand(info) # INVALID_REG
           hasRm  == RmOperand(info) # INVALID_REG
           result == encode_mov(info)
           inMemory == Prefix(info) \o << \hC7, RmOperand(info) >> \o Le32(info.immed_val)
           inRegister == Prefix(info) \o << \hB8 + RmOperand(info) >> \o Le32(info.immed_val)
           opcode == << \h89 + DirectionBit(info) >>
           modRm  == ModRm(info, 8 * RegOperand(info))
<1>1. /\ hasRm /\ hasReg => result = Prefix(info) \o opcode \o modRm
      /\ hasRm /\ ~hasReg /\ info.immed_val = -1 => result = MovMinusOne(info)
      /\ hasRm /\ ~hasReg /\ info.immed_val # -1 => result \in {inMemory, inRegister}
      /\ ~hasRm => result = << >>
  BY SMT DEF encode_mov
<1> HIDE DEF result, inMemory, inRegister
<1>2. CASE ~hasRm
  <2>1. << >> \in BytesUpTo(3) /\ << >> \in BytesUpTo(7)
    BY EmptyBytes, FewerBytes
  <2> QED
    BY <1>1, <1>2, <2>1 DEF result
<1>3. CASE hasRm /\ hasReg
  <2>1. RmOperand(info) \in 0..7 /\ RegOperand(info) \in 0..7
    BY <1>3, OperandsType
  <2>2. 8 * RegOperand(info) \in 0..56 /\ \h89 \in 0..250
    BY <2>1
  <2>3. modRm \in BytesUpTo(1) /\ opcode \in BytesUpTo(1)
    BY <2>1, <2>2, ModRmType, OpcodeType
  <2> HIDE DEF opcode, modRm
  <2>4. result \in BytesUpTo(3)
    BY <1>1, <1>3, <2>3, PrefixType, ThreeBytes
  <2>5. result \in BytesUpTo(7)
    BY <2>4, FewerBytes
  <2> QED
    BY <2>4, <2>5 DEF result
<1>4. CASE hasRm /\ ~hasReg
  <2>1. RmOperand(info) \in 0..7 /\ info.immed_val \in Int
    BY <1>4, OperandsType
  <2>5. Le32(info.immed_val) \in BytesUpTo(4)
    BY <2>1, Le32Type
  <2>2. MovMinusOne(info) \in BytesUpTo(7)
    BY <2>1, MovMinusOneType, FewerBytes
  <2>3. inMemory \in BytesUpTo(7)
    <3>1. << \hC7, RmOperand(info) >> \in BytesUpTo(2)
      BY <2>1 DEF BytesUpTo, Byte
    <3>2. Prefix(info) \o << \hC7, RmOperand(info) >> \in BytesUpTo(3)
      BY <3>1, PrefixType, JoinedBytes
    <3> QED
      BY <2>5, <3>2, JoinedBytes DEF inMemory
  <2>4. inRegister \in BytesUpTo(7)
    <3>1. << \hB8 + RmOperand(info) >> \in BytesUpTo(1)
      BY <2>1 DEF BytesUpTo, Byte
    <3>2. Prefix(info) \o << \hB8 + RmOperand(info) >> \in BytesUpTo(2)
      BY <3>1, PrefixType, JoinedBytes
    <3>3. inRegister \in BytesUpTo(6)
      BY <2>5, <3>2, JoinedBytes DEF inRegister
    <3> QED
      BY <3>3, FewerBytes
  <2> QED
    BY <1>1, <1>4, <2>2, <2>3, <2>4 DEF result
<1> QED
  BY <1>2, <1>3, <1>4

LEMMA PopPushType ==
  ASSUME NEW info \in Infos(Int), info.cmd_encode \in {PUSH, POP}
  PROVE  /\ encode_pop_push(info) \in BytesUpTo(5)
         /\ info.dest_reg # info.src_reg => encode_pop_push(info) \in BytesUpTo(3)
<1> DEFINE reg    == IF info.dest_reg = INVALID_REG THEN info.src_reg ELSE info.dest_reg
           memory == info.use_memory4dest \/ info.use_memory4src
           isPush == info.use_memory4src \/ info.src_reg # INVALID_REG
           value  == IF info.immed_val < 0 THEN 255 - info.immed_val ELSE info.immed_val
           prefix == IF IsHigh(reg) THEN << \h41 >> ELSE << >>
           opcode == IF get_sizeof_number2write(info.immed_val) = 1 THEN \h6A ELSE \h68
           inRegister == IF isPush THEN \h50 ELSE \h58
           inMemory == IF isPush THEN << \hFF, \h30 + Low(reg) >> ELSE << \h8F, Low(reg) >>
           result == encode_pop_push(info)
<1>1. /\ info.dest_reg = info.src_reg /\ ~memory => result = << opcode >> \o NumberBytes(value)
      /\ info.dest_reg # info.src_reg /\ memory => result = prefix \o inMemory
      /\ info.dest_reg # info.src_reg /\ ~memory => result = prefix \o << inRegister + Low(reg) >>
      /\ info.dest_reg = info.src_reg /\ memory => result = << >>
  BY Zenon DEF encode_pop_push
<1>2. /\ info.dest_reg \in Registers \cup {INVALID_REG}
      /\ info.src_reg \in Registers \cup {INVALID_REG}
      /\ INVALID_REG \in {info.dest_reg, info.src_reg}
      /\ info.immed_val \in Int
  BY DEF Infos
<1>3. value \in Int /\ opcode \in Byte /\ inRegister \in {\h50, \h58}
  BY <1>2 DEF Byte
<1>4. prefix \in BytesUpTo(1)
  <2>1. << \h41 >> \in BytesUpTo(1) /\ << >> \in BytesUpTo(1)
    BY DEF BytesUpTo, Byte
  <2> QED
    BY <2>1, Zenon
<1>5. info.dest_reg # info.src_reg => Low(reg) \in 0..7
  BY <1>2, LowType
<1> HIDE DEF reg, value, opcode, prefix, inRegister
<1>6. CASE info.dest_reg = info.src_reg
  <2>1. << opcode >> \o NumberBytes(value) \in BytesUpTo(5)
    BY <1>3, OneByte, NumberBytesType, JoinedBytes
  <2>2. << >> \in BytesUpTo(5)
    BY EmptyBytes, FewerBytes
  <2> QED
    BY <1>1, <1>6, <2>1, <2>2, Zenon
<1>7. CASE info.dest_reg # info.src_reg
  <2>1. << \hFF, \h30 + Low(reg) >> \in BytesUpTo(2) /\ << \h8F, Low(reg) >> \in BytesUpTo(2)
    BY <1>5, <1>7 DEF BytesUpTo, Byte
  <2>2. << inRegister + Low(reg) >> \in BytesUpTo(2)
    BY <1>3, <1>5, <1>7 DEF BytesUpTo, Byte
  <2>3. prefix \o inMemory \in BytesUpTo(3)
    <3>1. inMemory \in BytesUpTo(2)
      BY <2>1, Zenon
    <3> HIDE DEF inMemory
    <3> QED
      BY <1>4, <3>1, JoinedBytes
  <2>4. prefix \o << inRegister + Low(reg) >> \in BytesUpTo(3)
    BY <1>4, <2>2, JoinedBytes
  <2>5. encode_pop_push(info) \in BytesUpTo(3)
    BY <1>1, <1>7, <2>3, <2>4, Zenon
  <2> QED
    BY <2>5, FewerBytes
<1> QED
  BY <1>6, <1>7

LEMMA CallType ==
  ASSUME NEW info \in Infos(Int)
  PROVE  encode_call(info) \in BytesUpTo(5)
<1> DEFINE callByte == << \hE8 >>
           regPrefix == << \h41, \hFF >>
           regByte == << \hFF >>
<1>1. callByte \in BytesUpTo(1) /\ regPrefix \in BytesUpTo(5) /\ regByte \in BytesUpTo(5)
  BY DEF BytesUpTo, Byte
<1>2. encode_call(info) \in { << >>, callByte \o Le32(info.immed_val), regPrefix, regByte }
  <2>1. CASE info.use_memory4src
    BY SMT, <2>1 DEF encode_call
  <2>2. CASE ~info.use_memory4src /\ info.src_reg = INVALID_REG
    BY SMT, <2>2 DEF encode_call
  <2>3. CASE ~info.use_memory4src /\ info.src_reg # INVALID_REG
    BY SMT, <2>3 DEF encode_call
  <2> QED
    BY <2>1, <2>2, <2>3
<1> HIDE DEF callByte, regPrefix, regByte
<1>3. callByte \o Le32(info.immed_val) \in BytesUpTo(5)
  <2>1. info.immed_val \in Int
    BY DEF Infos
  <2>2. Le32(info.immed_val) \in BytesUpTo(4)
    BY <2>1, Le32Type
  <2> QED
    BY <1>1, <2>2, JoinedBytes
<1>4. << >> \in BytesUpTo(5)
  BY DEF BytesUpTo
<1> QED
  BY Zenon, <1>1, <1>2, <1>3, <1>4

(* encode_cmd writes into x86_cmd_t::cmd without looking at its room, which *)
(* is X86_CMD_MAX_LENGTH: whatever the request, seven bytes are the most,  *)
(* and no sum of masks leaves a byte.                                      *)
THEOREM CmdsFit ==
  ASSUME NEW info \in Infos(Int)
  PROVE  encode_cmd(info) \in BytesUpTo(7)
<1>1. CASE info.cmd_encode \in TwoOperandCmds
  <2>1. encode_cmd(info) \in {encode_mov(info), encode_add_sub_mul_div(info)}
    <3>1. info.cmd_encode \notin {PUSH, POP} /\ info.cmd_encode # CALL /\ info.cmd_encode # RET
      BY <1>1 DEF TwoOperandCmds, MOV, ADD, SUB, MUL, DIV, PUSH, POP, CALL, RET
    <3>2. encode_cmd(info) = encode_two_operands_cmds(info)
      BY <1>1, <3>1, Zenon DEF encode_cmd
    <3> QED
      BY <3>2 DEF encode_two_operands_cmds
  <2> QED
    BY <2>1, MovType, AddSubMulDivType
<1>2. CASE info.cmd_encode \in {PUSH, POP}
  <2>1. info.cmd_encode \notin TwoOperandCmds /\ info.cmd_encode # CALL /\ info.cmd_encode # RET
    BY <1>2 DEF TwoOperandCmds, MOV, ADD, SUB, MUL, DIV, PUSH, POP, CALL, RET
  <2>2. encode_cmd(info) = encode_pop_push(info)
    BY <1>2, <2>1, Zenon DEF encode_cmd
  <2> QED
    BY <1>2, <2>2, PopPushType, FewerBytes
<1>3. CASE info.cmd_encode = CALL
  <2>1. CALL \notin TwoOperandCmds /\ CALL \notin {PUSH, POP} /\ CALL # RET
    BY DEF TwoOperandCmds, MOV, ADD, SUB, MUL, DIV, PUSH, POP, CALL, RET
  <2>2. encode_cmd(info) = encode_call(info)
    BY <1>3, <2>1, Zenon DEF encode_cmd
  <2> QED
    BY <2>2, CallType, FewerBytes
<1>4. CASE info.cmd_encode = RET
  <2>1. RET \notin TwoOperandCmds /\ RET \notin {PUSH, POP} /\ CALL # RET
    BY DEF TwoOperandCmds, MOV, ADD, SUB, MUL, DIV, PUSH, POP, CALL, RET
  <2>2. encode_cmd(info) = encode_ret
    BY <1>4, <2>1, Zenon DEF encode_cmd
  <2> QED
    BY <2>2 DEF encode_ret, BytesUpTo, Byte
<1>5. info.cmd_encode \in TwoOperandCmds \cup {PUSH, POP, CALL, RET}
  BY DEF Infos
<1> QED
  BY <1>1, <1>2, <1>3, <1>4, <1>5

-----------------------------------------------------------------------------
(* What the passes over the finished bytes rely on: the value a            *)
(* displacement is read back as, and the first byte of an instruction.     *)

Int32 == { v \in Int : -2147483647 - 1 <= v /\ v <= 2147483647 }

(* The int at the four bytes after b[k].                                   *)
Word(b, k) ==
  b[k + 1] + 256 * b[k + 2] + 65536 * b[k + 3]
    + 16777216 * (IF b[k + 4] < 128 THEN b[k + 4] ELSE b[k + 4] - 256)

LEMMA ByteRange ==
  ASSUME NEW b
  PROVE  b \in Byte <=> b \in Int /\ 0 <= b /\ b <= 255
BY DEF Byte

(* Dividing by 256 again and again is dividing by its powers.              *)
LEMMA Quotients ==
  ASSUME NEW v \in Int
  PROVE  /\ v \div 65536 = (v \div 256) \div 256
         /\ v \div 16777216 = (v \div 65536) \div 256
BY SMT

LEMMA Remainder ==
  ASSUME NEW v \in Int
  PROVE  /\ v = 256 * (v \div 256) + (v % 256) /\ v \div 256 \in Int
         /\ v % 256 \in Int /\ 0 <= v % 256 /\ v % 256 <= 255
BY SMT

LEMMA Le32Word ==
  ASSUME NEW v \in Int32
  PROVE  Word(Le32(v), 0) = v
<1> DEFINE q == v \div 256
           r == v \div 65536
           t == v \div 16777216
<1>1. v \in Int /\ -2147483647 - 1 <= v /\ v <= 2147483647
  BY SMT DEF Int32
<1>2. q \in Int /\ r \in Int /\ t \in Int /\ r = q \div 256 /\ t = r \div 256
  BY SMT, <1>1, Quotients
<1>3. Le32(v) = << v % 256, q % 256, r % 256, t % 256 >>
  BY DEF Le32
<1>4. /\ v = 256 * q + (v % 256) /\ v % 256 \in Int /\ 0 <= v % 256 /\ v % 256 <= 255
  BY SMT, <1>1, Remainder
<1> HIDE DEF q, r, t
<1>5. /\ q = 256 * r + (q % 256) /\ q % 256 \in Int /\ 0 <= q % 256 /\ q % 256 <= 255
      /\ r = 256 * t + (r % 256) /\ r % 256 \in Int /\ 0 <= r % 256 /\ r % 256 <= 255
  BY SMT, <1>2, Remainder
<1>6. PICK u \in Int : /\ t = 256 * u + (t % 256)
                       /\ t % 256 \in Int /\ 0 <= t % 256 /\ t % 256 <= 255
  BY SMT, <1>2, Remainder
<1> DEFINE b1 == v % 256
           b2 == q % 256
           b3 == r % 256
           b4 == t % 256
<1>7. Word(Le32(v), 0) = b1 + 256 * b2 + 65536 * b3 + 16777216 * (IF b4 < 128 THEN b4 ELSE b4 - 256)
  BY SMT, <1>3 DEF Word
<1>8. /\ v = 256 * q + b1 /\ b1 \in Int /\ 0 <= b1 /\ b1 <= 255
      /\ q = 256 * r + b2 /\ b2 \in Int /\ 0 <= b2 /\ b2 <= 255
      /\ r = 256 * t + b3 /\ b3 \in Int /\ 0 <= b3 /\ b3 <= 255
      /\ t = 256 * u + b4 /\ b4 \in Int /\ 0 <= b4 /\ b4 <= 255
  BY <1>4, <1>5, <1>6
<1> HIDE DEF b1, b2, b3, b4
<1>9. -128 <= t /\ t <= 127
  BY SMT, <1>1, <1>2, <1>8
<1>10. t = IF b4 < 128 THEN b4 ELSE b4 - 256
  BY SMT, <1>2, <1>8, <1>9
<1>11. v = b1 + 256 * b2 + 65536 * b3 + 16777216 * t
  BY SMT, <1>1, <1>2, <1>8
<1> QED
  BY SMT, <1>7, <1>10, <1>11

(* The upper half of a displacement of less than 64 KB is only its sign.   *)
LEMMA Le32Short ==
  ASSUME NEW v \in Int, -65536 < v, v < 65536
  PROVE  /\ v >= 0 => Le32(v)[3] = 0 /\ Le32(v)[4] = 0
         /\ v < 0 => Le32(v)[3] = 255 /\ Le32(v)[4] = 255
         /\ v = 0 => Le32(v)[1] = 0 /\ Le32(v)[2] = 0
<1>1. CASE v >= 0
  <2>1. v \div 65536 = 0 /\ v \div 16777216 = 0
    BY SMT, <1>1
  <2> QED
    BY SMT, <1>1, <2>1 DEF Le32
<1>2. CASE v < 0
  <2>1. v \div 65536 = -1 /\ v \div 16777216 = -1
    BY SMT, <1>2
  <2>2. ASSUME NEW x \in Int, x = -1 PROVE x % 256 = 255
    <3>1. x = 256 * (x \div 256) + (x % 256) /\ x \div 256 \in Int
          /\ x % 256 \in Int /\ 0 <= x % 256 /\ x % 256 <= 255
      BY SMT, Remainder
    <3> QED
      BY SMT, <2>2, <3>1
  <2> QED
    BY SMT, <1>2, <2>1, <2>2 DEF Le32
<1> QED
  BY SMT, <1>1, <1>2

LEMMA JoinedSeqs ==
  ASSUME NEW s \in Seq(Byte), NEW t \in Seq(Byte)
  PROVE  /\ s \o t \in Seq(Byte) /\ Len(s \o t) = Len(s) + Len(t)
         /\ Len(s) \in Nat /\ Len(t) \in Nat
OBVIOUS

(* Code that does not begin with a zero byte.                              *)
Started == { s \in Seq(Byte) : Len(s) > 0 => s[1] # 0 }

LEMMA StartedBytes ==
  ASSUME NEW s \in Seq(Byte), s[1] # 0
  PROVE  s \in Started
BY DEF Started

LEMMA StartedJoin ==
  ASSUME NEW s \in Started, NEW t \in Seq(Byte), Len(s) > 0 \/ t \in Started
  PROVE  s \o t \in Started
<1>1. s \in Seq(Byte) /\ (Len(s) > 0 => s[1] # 0)
  BY DEF Started
<1>2. CASE Len(s) > 0
  <2>1. s \o t \in Seq(Byte) /\ (s \o t)[1] = s[1]
    BY <1>1, <1>2
  <2> QED
    BY <1>1, <1>2, <2>1 DEF Started
<1>3. CASE ~(Len(s) > 0)
  <2>1. s = << >> /\ s \o t = t
    BY <1>1, <1>3
  <2> QED
    BY <1>3, <2>1
<1> QED
  BY <1>2, <1>3

LEMMA StartedBoth ==
  ASSUME NEW s \in Started, NEW t \in Started
  PROVE  s \o t \in Started
BY StartedJoin DEF Started

LEMMA StartedByte ==
  ASSUME NEW b \in Byte, b # 0
  PROVE  << b >> \in Started /\ << b >> \in Seq(Byte) /\ Len(<< b >>) = 1
BY DEF Started

(* A prefix, an opcode and what follows them.                              *)
LEMMA StartedCmd ==
  ASSUME NEW p \in Started, NEW b \in Byte, b # 0, NEW rest \in Seq(Byte)
  PROVE  p \o << b >> \in Started /\ p \o << b >> \o rest \in Started
<1>1. << b >> \in Started /\ << b >> \in Seq(Byte) /\ Len(<< b >>) = 1
  BY StartedByte
<1>2. p \o << b >> \in Started /\ Len(p \o << b >>) > 0
  <2> DEFINE o == << b >>
  <2>1. o \in Started /\ o \in Seq(Byte) /\ Len(o) = 1
    BY <1>1
  <2>2. p \in Seq(Byte)
    BY DEF Started
  <2> HIDE DEF o
  <2>3. p \o o \in Started
    BY <2>1, <2>2, StartedJoin
  <2>4. Len(p) \in Nat /\ Len(p \o o) = Len(p) + Len(o)
    BY <2>1, <2>2, JoinedSeqs, Zenon
  <2>5. Len(p \o o) > 0
    BY <2>1, <2>4
  <2> QED
    BY <2>3, <2>5 DEF o
<1> QED
  BY <1>2, StartedJoin

LEMMA BytesAreSeq ==
  ASSUME NEW n \in Nat, NEW s \in BytesUpTo(n)
  PROVE  s \in Seq(Byte)
BY DEF BytesUpTo

LEMMA StartedPrefix ==
  ASSUME NEW info
  PROVE  Prefix(info) \in Started
<1>1. \/ Prefix(info) = << \h4C >> \/ Prefix(info) = << \h49 >> \/ Prefix(info) = << \h41 >>
      \/ Prefix(info) = << \h48 >> \/ Prefix(info) = << >>
  <2>1. CASE IsHigh(info.src_reg)
    BY <2>1, Zenon DEF Prefix
  <2>2. CASE ~IsHigh(info.src_reg) /\ IsHigh(info.dest_reg)
    BY <2>2, Zenon DEF Prefix
  <2>3. CASE ~IsHigh(info.src_reg) /\ ~IsHigh(info.dest_reg)
    BY <2>3, Zenon DEF Prefix
  <2> QED
    BY <2>1, <2>2, <2>3
<1>2. << \h4C >> \in Started /\ << \h49 >> \in Started /\ << \h41 >> \in Started /\ << \h48 >> \in Started
  BY ByteRange, StartedByte
<1>3. << >> \in Started
  BY DEF Started
<1> QED
  BY <1>1, <1>2, <1>3

LEMMA StartedAddSubMulDiv ==
  ASSUME NEW info \in Infos(Int)
  PROVE  encode_add_sub_mul_div(info) \in Started
<1> DEFINE hasReg == RegOperand(info) # INVALID_REG
           hasRm  == RmOperand(info) # INVALID_REG
           isMul  == info.cmd_encode \in {MUL, DIV}
           opcode == (IF info.cmd_encode = ADD THEN \h01 ELSE \h29) + DirectionBit(info)
           narrow == IF get_sizeof_number2write(info.immed_val) = 1 THEN \h83 ELSE \h81
           mulExt == IF info.cmd_encode = MUL THEN \h20 ELSE \h30
           subExt == IF info.cmd_encode = SUB THEN \h28 ELSE 0
           result == encode_add_sub_mul_div(info)
<1>1. /\ isMul /\ hasReg => result = << >>
      /\ isMul /\ ~hasReg => result = Prefix(info) \o << \hF7 >> \o ModRm(info, mulExt)
      /\ ~isMul /\ hasRm /\ hasReg =>
           result = Prefix(info) \o << opcode >> \o ModRm(info, 8 * RegOperand(info))
      /\ ~isMul /\ hasRm /\ ~hasReg =>
           result = Prefix(info) \o << narrow >> \o ModRm(info, subExt) \o NumberBytes(info.immed_val)
      /\ ~isMul /\ ~hasRm => result = << >>
  BY Zenon DEF encode_add_sub_mul_div
<1>2. /\ opcode \in Byte /\ opcode # 0 /\ narrow \in Byte /\ narrow # 0 /\ \hF7 \in Byte
      /\ mulExt \in 0..56 /\ subExt \in 0..56
  BY ByteRange DEF DirectionBit
<1> HIDE DEF opcode, narrow, mulExt, subExt, result
<1>3. CASE result = << >>
  BY <1>3 DEF result, Started
<1>4. CASE isMul /\ ~hasReg
  <2>1. ModRm(info, mulExt) \in Seq(Byte)
    BY <1>2, <1>4, OperandsType, ModRmType, BytesAreSeq
  <2>2. \hF7 \in Byte /\ \hF7 # 0
    BY ByteRange
  <2>3. Prefix(info) \o << \hF7 >> \o ModRm(info, mulExt) \in Started
    BY <2>1, <2>2, StartedPrefix, StartedCmd
  <2> QED
    BY <1>1, <1>4, <2>3, Zenon DEF result
<1>5. CASE ~isMul /\ hasRm /\ hasReg
  <2>1. ModRm(info, 8 * RegOperand(info)) \in Seq(Byte)
    <3>1. RmOperand(info) \in 0..7 /\ RegOperand(info) \in 0..7
      BY <1>5, OperandsType
    <3>2. 8 * RegOperand(info) \in 0..56
      BY <3>1
    <3> QED
      BY <3>1, <3>2, ModRmType, BytesAreSeq
  <2>2. Prefix(info) \o << opcode >> \o ModRm(info, 8 * RegOperand(info)) \in Started
    BY Zenon, <1>2, <2>1, StartedPrefix, StartedCmd
  <2> QED
    BY Zenon, <1>1, <1>5, <2>2 DEF result
<1>6. CASE ~isMul /\ hasRm /\ ~hasReg
  <2>1. ModRm(info, subExt) \in BytesUpTo(1)
    BY <1>2, <1>6, OperandsType, ModRmType
  <2>2. NumberBytes(info.immed_val) \in Seq(Byte)
    BY OperandsType, NumberBytesType, BytesAreSeq
  <2> DEFINE op == Prefix(info) \o << narrow >>
  <2>3. op \in Started /\ op \in Seq(Byte) /\ Len(op) > 0
    <3>1. << narrow >> \in BytesUpTo(1) /\ Len(<< narrow >>) = 1
      BY <1>2, OneByte
    <3>2. op \in BytesUpTo(2) /\ Len(op) = Len(Prefix(info)) + Len(<< narrow >>)
      BY <3>1, PrefixType, JoinedBytes
    <3>3. Len(Prefix(info)) \in Nat
      BY PrefixType DEF BytesUpTo
    <3>4. op \in Started
      BY <1>2, <2>2, StartedPrefix, StartedCmd
    <3> QED
      BY <3>1, <3>2, <3>3, <3>4 DEF BytesUpTo
  <2> HIDE DEF op
  <2>4. op \o ModRm(info, subExt) \in Started /\ Len(op \o ModRm(info, subExt)) > 0
    <3> DEFINE m == ModRm(info, subExt)
    <3>1. m \in Seq(Byte)
      BY <2>1, BytesAreSeq
    <3> HIDE DEF m
    <3>2. op \o m \in Started
      BY <2>3, <3>1, StartedJoin
    <3>3. Len(op \o m) = Len(op) + Len(m) /\ Len(m) \in Nat /\ Len(op) \in Nat
      BY <2>3, <3>1
    <3> QED
      BY <2>3, <3>2, <3>3 DEF m
  <2>5. op \o ModRm(info, subExt) \o NumberBytes(info.immed_val) \in Started
    BY <2>2, <2>4, StartedJoin
  <2>6. result = op \o ModRm(info, subExt) \o NumberBytes(info.immed_val)
    BY <1>1, <1>6, Zenon DEF op
  <2> QED
    BY <2>5, <2>6 DEF result
<1> QED
  BY <1>1, <1>3, <1>4, <1>5, <1>6

LEMMA StartedMov ==
  ASSUME NEW info \in Infos(Int)
  PROVE  encode_mov(info) \in Started
<1> DEFINE hasReg == RegOperand(info) # INVALID_REG
           hasRm  == RmOperand(info) # INVALID_REG
           result == encode_mov(info)
           rm     == RmOperand(info)
           opcode == \h89 + DirectionBit(info)
           fifth  == IF info.use_memory4dest THEN \h3F ELSE \hFF
           value  == Le32(info.immed_val)
           inMemory == Prefix(info) \o << \hC7, rm >> \o value
           inRegister == Prefix(info) \o << \hB8 + rm >> \o value
<1>1. /\ hasRm /\ hasReg =>
           result = Prefix(info) \o << opcode >> \o ModRm(info, 8 * RegOperand(info))
      /\ hasRm /\ ~hasReg /\ info.immed_val = -1 => result = MovMinusOne(info)
      /\ hasRm /\ ~hasReg /\ info.immed_val # -1 =>
           result \in {inMemory, inRegister}
      /\ ~hasRm => result = << >>
  BY Zenon DEF encode_mov
<1>2. opcode \in Byte /\ opcode # 0 /\ fifth \in Byte
  BY ByteRange DEF DirectionBit
<1> HIDE DEF result, opcode, fifth, value, inMemory, inRegister
<1>3. CASE ~hasRm
  BY <1>1, <1>3 DEF result, Started
<1>4. CASE hasRm /\ hasReg
  <2>1. ModRm(info, 8 * RegOperand(info)) \in Seq(Byte)
    <3>1. RmOperand(info) \in 0..7 /\ RegOperand(info) \in 0..7
      BY <1>4, OperandsType
    <3>2. 8 * RegOperand(info) \in 0..56
      BY <3>1
    <3> QED
      BY <3>1, <3>2, ModRmType, BytesAreSeq
  <2> QED
    BY <1>1, <1>2, <1>4, <2>1, StartedPrefix, StartedCmd DEF result
<1>5. CASE hasRm /\ ~hasReg
  <2>1. rm \in 0..7 /\ value \in Seq(Byte)
    <3>1. rm \in 0..7 /\ info.immed_val \in Int
      BY <1>5, OperandsType
    <3> QED
      BY <3>1, Le32Type, BytesAreSeq DEF value
  <2>2. \hB8 + rm \in Byte /\ \hB8 + rm # 0 /\ \hC7 \in Byte /\ \h49 \in Byte /\ \hFF \in Byte /\ rm \in Byte
    BY <2>1, ByteRange
  <2>3. MovMinusOne(info) \in Started
    <3>1. MovMinusOne(info) = IF Prefix(info) = << >>
                              THEN << \h49, \hB8 + rm, \hFF, \hFF, \hFF, \hFF >>
                              ELSE Prefix(info) \o << \h49, fifth, \hFF, \hFF, \hFF >>
      BY DEF MovMinusOne, fifth
    <3> DEFINE high == \hB8 + rm
               behind == << \h49, fifth, \hFF, \hFF, \hFF >>
    <3>2. high \in Byte
      BY <2>2
    <3> HIDE DEF high
    <3>3. << \h49, high, \hFF, \hFF, \hFF, \hFF >> \in Started
      BY <2>2, <3>2 DEF Started
    <3>4. behind \in Started
      BY <1>2, <2>2 DEF Started
    <3>5. behind \in Seq(Byte)
      BY <1>2, <2>2
    <3> HIDE DEF behind
    <3>6. Prefix(info) \o behind \in Started
      BY <3>4, <3>5, StartedPrefix, StartedJoin
    <3> QED
      BY <3>1, <3>3, <3>6 DEF high, behind
  <2>4. inMemory \in Started
    <3> DEFINE op == << \hC7, rm >>
    <3>1. op \in Started /\ op \in Seq(Byte) /\ Len(op) = 2
      BY <2>2 DEF Started
    <3> HIDE DEF op
    <3>2. Prefix(info) \in Seq(Byte)
      BY PrefixType, BytesAreSeq
    <3>3. Prefix(info) \o op \in Started /\ Len(Prefix(info) \o op) > 0
      <4>1. Len(Prefix(info) \o op) = Len(Prefix(info)) + Len(op) /\ Len(Prefix(info)) \in Nat
        BY <3>1, <3>2, JoinedSeqs, Zenon
      <4> QED
        BY <3>1, <4>1, StartedPrefix, StartedJoin
    <3>4. Prefix(info) \o op \o value \in Started
      BY <2>1, <3>3, StartedJoin
    <3> QED
      BY <3>4 DEF op, inMemory
  <2>5. inRegister \in Started
    BY <2>1, <2>2, StartedPrefix, StartedCmd DEF inRegister
  <2> QED
    BY <1>1, <1>5, <2>3, <2>4, <2>5, Zenon DEF result
<1> QED
  BY <1>3, <1>4, <1>5

LEMMA StartedPopPush ==
  ASSUME NEW info \in Infos(Int), info.cmd_encode \in {PUSH, POP}
  PROVE  encode_pop_push(info) \in Started
<1> DEFINE reg    == IF info.dest_reg = INVALID_REG THEN info.src_reg ELSE info.dest_reg
           memory == info.use_memory4dest \/ info.use_memory4src
           isPush == info.use_memory4src \/ info.src_reg # INVALID_REG
           value  == IF info.immed_val < 0 THEN 255 - info.immed_val ELSE info.immed_val
           prefix == IF IsHigh(reg) THEN << \h41 >> ELSE << >>
           opcode == IF get_sizeof_number2write(info.immed_val) = 1 THEN \h6A ELSE \h68
           inRegister == (IF isPush THEN \h50 ELSE \h58) + Low(reg)
           inMemory == IF isPush THEN << \hFF, \h30 + Low(reg) >> ELSE << \h8F, Low(reg) >>
           result == encode_pop_push(info)
<1>1. /\ info.dest_reg = info.src_reg /\ ~memory => result = << opcode >> \o NumberBytes(value)
      /\ info.dest_reg # info.src_reg /\ memory => result = prefix \o inMemory
      /\ info.dest_reg # info.src_reg /\ ~memory => result = prefix \o << inRegister >>
      /\ info.dest_reg = info.src_reg /\ memory => result = << >>
  BY Zenon DEF encode_pop_push
<1>2. /\ info.dest_reg \in Registers \cup {INVALID_REG}
      /\ info.src_reg \in Registers \cup {INVALID_REG}
      /\ INVALID_REG \in {info.dest_reg, info.src_reg}
      /\ info.immed_val \in Int
  BY DEF Infos
<1>3. value \in Int /\ opcode \in Byte /\ opcode # 0
  BY <1>2, ByteRange
<1>4. prefix \in Started
  <2>1. << \h41 >> \in Started
    BY ByteRange, StartedByte
  <2>2. << >> \in Started
    BY DEF Started
  <2> QED
    BY <2>1, <2>2, Zenon
<1>5. info.dest_reg # info.src_reg => Low(reg) \in 0..7
  BY <1>2, LowType
<1> HIDE DEF reg, value, opcode, prefix, result
<1>6. CASE info.dest_reg = info.src_reg
  <2>1. << opcode >> \o NumberBytes(value) \in Started
    <3>1. << opcode >> \in Started /\ Len(<< opcode >>) = 1
      BY <1>3, StartedByte
    <3>2. NumberBytes(value) \in Seq(Byte)
      BY <1>3, NumberBytesType, BytesAreSeq
    <3>3. Len(<< opcode >>) > 0
      BY <3>1
    <3> DEFINE op == << opcode >>
               rest == NumberBytes(value)
    <3>4. op \in Started /\ rest \in Seq(Byte) /\ Len(op) > 0
      BY <3>1, <3>2, <3>3
    <3> HIDE DEF op, rest
    <3>5. op \o rest \in Started
      BY <3>4, StartedJoin
    <3> QED
      BY <3>5 DEF op, rest
  <2>2. << >> \in Started
    BY DEF Started
  <2>3. result \in Started
    BY <1>1, <1>6, <2>1, <2>2, Zenon
  <2> QED
    BY <2>3 DEF result
<1>7. CASE info.dest_reg # info.src_reg
  <2>1. /\ Low(reg) \in Byte /\ \h30 + Low(reg) \in Byte /\ \hFF \in Byte /\ \h8F \in Byte
        /\ inRegister \in Byte /\ inRegister # 0
    BY <1>5, <1>7, ByteRange
  <2>2. inMemory \in Started /\ inMemory \in Seq(Byte)
    <3> DEFINE ext == \h30 + Low(reg)
               low == Low(reg)
    <3>1. ext \in Byte /\ low \in Byte /\ \hFF \in Byte /\ \h8F \in Byte
      BY <2>1
    <3> HIDE DEF ext, low
    <3>2. << \hFF, ext >> \in Started /\ << \h8F, low >> \in Started
      BY <3>1 DEF Started
    <3>3. << \hFF, ext >> \in Seq(Byte) /\ << \h8F, low >> \in Seq(Byte)
      BY <3>1
    <3> QED
      BY <3>2, <3>3, Zenon DEF ext, low
  <2>3. prefix \o inMemory \in Started
    <3> HIDE DEF inMemory
    <3> QED
      BY <1>4, <2>2, StartedJoin
  <2>4. prefix \o << inRegister >> \in Started
    <3> DEFINE byte == inRegister
    <3>1. byte \in Byte /\ byte # 0
      BY <2>1
    <3> HIDE DEF byte
    <3>2. << >> \in Seq(Byte)
      OBVIOUS
    <3>3. prefix \o << byte >> \in Started
      BY <1>4, <3>1, <3>2, StartedCmd
    <3> QED
      BY <3>3 DEF byte
  <2>5. result \in Started
    BY <1>1, <1>7, <2>3, <2>4, Zenon
  <2> QED
    BY <2>5 DEF result
<1> QED
  BY <1>6, <1>7

LEMMA StartedCall ==
  ASSUME NEW info \in Infos(Int)
  PROVE  encode_call(info) \in Started
<1> DEFINE callByte == << \hE8 >>
           regPrefix == << \h41, \hFF >>
           regByte == << \hFF >>
<1>1. /\ callByte \in Started /\ Len(callByte) > 0 /\ callByte \in Seq(Byte)
      /\ regPrefix \in Started /\ regByte \in Started
  <2>1. \hE8 \in Byte /\ \h41 \in Byte /\ \hFF \in Byte
    BY ByteRange
  <2> QED
    BY <2>1 DEF Started
<1>2. encode_call(info) \in { << >>, callByte \o Le32(info.immed_val), regPrefix, regByte }
  <2>1. CASE info.use_memory4src
    BY SMT, <2>1 DEF encode_call
  <2>2. CASE ~info.use_memory4src /\ info.src_reg = INVALID_REG
    BY SMT, <2>2 DEF encode_call
  <2>3. CASE ~info.use_memory4src /\ info.src_reg # INVALID_REG
    BY SMT, <2>3 DEF encode_call
  <2> QED
    BY <2>1, <2>2, <2>3
<1> HIDE DEF callByte, regPrefix, regByte
<1>3. callByte \o Le32(info.immed_val) \in Started
  <2>1. info.immed_val \in Int
    BY DEF Infos
  <2>2. Le32(info.immed_val) \in Seq(Byte)
    BY <2>1, Le32Type, BytesAreSeq
  <2> QED
    BY <1>1, <2>2, StartedJoin
<1>4. << >> \in Started
  BY DEF Started
<1> QED
  BY Zenon, <1>1, <1>2, <1>3, <1>4

LEMMA StartedCmds ==
  ASSUME NEW info \in Infos(Int)
  PROVE  encode_cmd(info) \in Started
<1>1. CASE info.cmd_encode \in TwoOperandCmds
  <2>1. encode_cmd(info) \in {encode_mov(info), encode_add_sub_mul_div(info)}
    <3>1. info.cmd_encode \notin {PUSH, POP} /\ info.cmd_encode # CALL /\ info.cmd_encode # RET
      BY <1>1 DEF TwoOperandCmds, MOV, ADD, SUB, MUL, DIV, PUSH, POP, CALL, RET
    <3>2. encode_cmd(info) = encode_two_operands_cmds(info)
      BY <1>1, <3>1, Zenon DEF encode_cmd
    <3> QED
      BY <3>2 DEF encode_two_operands_cmds
  <2> QED
    BY <2>1, StartedMov, StartedAddSubMulDiv
<1>2. CASE info.cmd_encode \in {PUSH, POP}
  <2>1. info.cmd_encode \notin TwoOperandCmds /\ info.cmd_encode # CALL /\ info.cmd_encode # RET
    BY <1>2 DEF TwoOperandCmds, MOV, ADD, SUB, MUL, DIV, PUSH, POP, CALL, RET
  <2>2. encode_cmd(info) = encode_pop_push(info)
    BY <1>2, <2>1, Zenon DEF encode_cmd
  <2> QED
    BY <1>2, <2>2, StartedPopPush
<1>3. CASE info.cmd_encode = CALL
  <2>1. CALL \notin TwoOperandCmds /\ CALL \notin {PUSH, POP} /\ CALL # RET
    BY DEF TwoOperandCmds, MOV, ADD, SUB, MUL, DIV, PUSH, POP, CALL, RET
  <2>2. encode_cmd(info) = encode_call(info)
    BY <1>3, <2>1, Zenon DEF encode_cmd
  <2> QED
    BY <2>2, StartedCall
<1>4. CASE info.cmd_encode = RET
  <2>1. RET \notin TwoOperandCmds /\ RET \notin {PUSH, POP} /\ CALL # RET
    BY DEF TwoOperandCmds, MOV, ADD, SUB, MUL, DIV, PUSH, POP, CALL, RET
  <2>2. encode_cmd(info) = encode_ret
    BY <1>4, <2>1, Zenon DEF encode_cmd
  <2>3. << \hC3 >> \in Started
    BY ByteRange, StartedByte
  <2> QED
    BY <2>2, <2>3 DEF encode_ret
<1>5. info.cmd_encode \in TwoOperandCmds \cup {PUSH, POP, CALL, RET}
  BY DEF Infos
<1> QED
  BY <1>1, <1>2, <1>3, <1>4, <1>5

-----------------------------------------------------------------------------
(* One token, and those a fold takes.                                      *)

Regs == 0..7 \cup {R15}

-----------------------------------------------------------------------------
(* The requests the translation makes.                                     *)

LEMMA RegsAreRegisters ==
  /\ \A reg \in Regs : reg \in Registers \cup {INVALID_REG} /\ reg # INVALID_REG
  /\ INVALID_REG \in Registers \cup {INVALID_REG}
BY DEF Regs, Registers, RDI, R8, R15, INVALID_REG

LEMMA RegInfoType ==
  ASSUME NEW cmd \in TwoOperandCmds \cup {PUSH, POP, CALL, RET},
         NEW dest \in Regs \cup {INVALID_REG}, NEW src \in Regs \cup {INVALID_REG},
         cmd \in {MUL, DIV} => dest # INVALID_REG,
         cmd \in {PUSH, POP} => INVALID_REG \in {dest, src}
  PROVE  RegInfo(cmd, dest, src) \in Infos(Int)
<1>1. dest \in Registers \cup {INVALID_REG} /\ src \in Registers \cup {INVALID_REG}
  BY RegsAreRegisters
<1> QED
  BY <1>1 DEF Infos, RegInfo

LEMMA WithImmed ==
  ASSUME NEW info \in Infos(Int), NEW v \in Int
  PROVE  /\ [info EXCEPT !.immed_val = v] \in Infos(Int)
         /\ [info EXCEPT !.immed_val = v].immed_val = v
         /\ [info EXCEPT !.immed_val = v].cmd_encode = info.cmd_encode
         /\ [info EXCEPT !.immed_val = v].dest_reg = info.dest_reg
         /\ [info EXCEPT !.immed_val = v].src_reg = info.src_reg
BY DEF Infos

LEMMA FromMemory ==
  ASSUME NEW info \in Infos(Int), NEW m \in BOOLEAN,
         info.cmd_encode \in {PUSH, POP} => info.dest_reg # info.src_reg
  PROVE  /\ [info EXCEPT !.use_memory4src = m] \in Infos(Int)
         /\ [info EXCEPT !.use_memory4dest = m] \in Infos(Int)
BY DEF Infos

LEMMA ImmedInfoType ==
  ASSUME NEW cmd \in TwoOperandCmds, NEW dest \in Regs, NEW v \in Int
  PROVE  /\ ImmedInfo(cmd, dest, v) \in Infos(Int)
         /\ [ImmedInfo(cmd, dest, v) EXCEPT !.use_memory4dest = TRUE] \in Infos(Int)
<1>1. /\ cmd \in TwoOperandCmds \cup {PUSH, POP, CALL, RET}
      /\ cmd \notin {PUSH, POP}
      /\ dest # INVALID_REG
  BY RegsAreRegisters DEF TwoOperandCmds, MOV, ADD, SUB, MUL, DIV, PUSH, POP
<1>2. RegInfo(cmd, dest, INVALID_REG) \in Infos(Int) /\ RegInfo(cmd, dest, INVALID_REG).cmd_encode = cmd
  BY <1>1, RegInfoType DEF RegInfo
<1>3. ImmedInfo(cmd, dest, v) \in Infos(Int) /\ ImmedInfo(cmd, dest, v).cmd_encode = cmd
  BY <1>2, WithImmed DEF ImmedInfo
<1> QED
  BY <1>1, <1>3, FromMemory

-----------------------------------------------------------------------------
(* Bytes of single commands.                                               *)

(* push and pop of a register without a prefix are one byte.               *)
LEMMA PushPopRegBytes ==
  ASSUME NEW reg \in 0..7
  PROVE  PushReg(reg) = << \h50 + reg >> /\ PopReg(reg) = << \h58 + reg >>
<1>1. reg # INVALID_REG /\ ~IsHigh(reg) /\ Low(reg) = reg
  BY DEF INVALID_REG, IsHigh, Low, RDI
<1>2. ASSUME NEW info, info.cmd_encode \in {PUSH, POP},
             ~info.use_memory4dest, ~info.use_memory4src, info.dest_reg # info.src_reg,
             reg = IF info.dest_reg = INVALID_REG THEN info.src_reg ELSE info.dest_reg
      PROVE  encode_cmd(info)
               = << (IF info.use_memory4src \/ info.src_reg # INVALID_REG THEN \h50 ELSE \h58) + reg >>
  <2> DEFINE opcode == (IF info.use_memory4src \/ info.src_reg # INVALID_REG THEN \h50 ELSE \h58) + reg
  <2>1. info.cmd_encode \notin TwoOperandCmds /\ info.cmd_encode # CALL /\ info.cmd_encode # RET
    BY <1>2 DEF TwoOperandCmds, MOV, ADD, SUB, MUL, DIV, PUSH, POP, CALL, RET
  <2>2. encode_cmd(info) = encode_pop_push(info)
    BY <1>2, <2>1, Zenon DEF encode_cmd
  <2>3. encode_pop_push(info) = << >> \o << opcode >>
    BY SMT, <1>1, <1>2 DEF encode_pop_push
  <2>4. << opcode >> \in Seq(Int)
    OBVIOUS
  <2> HIDE DEF opcode
  <2>5. << >> \o << opcode >> = << opcode >>
    BY <2>4
  <2> QED
    BY <2>2, <2>3, <2>5 DEF opcode
<1> DEFINE push == RegInfo(PUSH, INVALID_REG, reg)
           pop == RegInfo(POP, reg, INVALID_REG)
<1>3. /\ push.cmd_encode = PUSH /\ push.dest_reg = INVALID_REG /\ push.src_reg = reg
      /\ pop.cmd_encode = POP /\ pop.dest_reg = reg /\ pop.src_reg = INVALID_REG
      /\ ~push.use_memory4dest /\ ~push.use_memory4src /\ ~pop.use_memory4dest /\ ~pop.use_memory4src
  BY DEF RegInfo
<1> HIDE DEF push, pop
<1>4. encode_cmd(push) = << \h50 + reg >>
  BY <1>1, <1>2, <1>3
<1>5. encode_cmd(pop) = << \h58 + reg >>
  BY <1>1, <1>2, <1>3
<1> QED
  BY <1>4, <1>5 DEF PushReg, PopReg, push, pop

LEMMA PushPopRegType ==
  ASSUME NEW reg \in 0..7
  PROVE  /\ PushReg(reg) \in BytesUpTo(1) /\ PopReg(reg) \in BytesUpTo(1)
         /\ PushReg(reg) \in Started /\ PopReg(reg) \in Started
<1> DEFINE push == \h50 + reg
           pop == \h58 + reg
<1>1. push \in Byte /\ pop \in Byte /\ push # 0 /\ pop # 0
  BY ByteRange
<1> HIDE DEF push, pop
<1>2. << push >> \in BytesUpTo(1) /\ << pop >> \in BytesUpTo(1)
  BY <1>1, OneByte
<1>3. << push >> \in Started /\ << pop >> \in Started
  BY <1>1, StartedByte
<1> QED
  BY <1>2, <1>3, PushPopRegBytes DEF push, pop

(* A command with two registers is three bytes.                            *)
LEMMA RegRegType ==
  ASSUME NEW dest \in 0..7, NEW src \in 0..7
  PROVE  /\ encode_cmd(RegInfo(MOV, dest, src)) \in BytesUpTo(3)
         /\ encode_cmd(RegInfo(MOV, dest, src)) \in Started
<1> DEFINE info == RegInfo(MOV, dest, src)
<1>1. info \in Infos(Int) /\ info.cmd_encode = MOV
  BY RegInfoType DEF RegInfo, TwoOperandCmds, MOV, MUL, DIV, PUSH, POP, Regs
<1>2. RegOperand(info) # INVALID_REG
  <2>1. ~IsHigh(dest) /\ ~IsHigh(src)
    BY DEF IsHigh, RDI
  <2> QED
    BY <2>1 DEF RegInfo, RegOperand, Exchanged, Low, INVALID_REG
<1>3. encode_cmd(info) = encode_mov(info)
  <2>1. MOV \in TwoOperandCmds /\ MOV \notin {PUSH, POP} /\ MOV # CALL /\ MOV # RET
    BY DEF TwoOperandCmds, MOV, PUSH, POP, CALL, RET
  <2> QED
    BY <1>1, <2>1, Zenon DEF encode_cmd, encode_two_operands_cmds
<1> HIDE DEF info
<1>4. encode_cmd(info) \in BytesUpTo(3)
  BY <1>1, <1>2, <1>3, MovType
<1>5. encode_cmd(info) \in Started
  BY <1>1, StartedCmds
<1> QED
  BY ZenonT(40), <1>4, <1>5 DEF info

LEMMA ThenType ==
  ASSUME NEW m \in Nat, NEW n \in Nat, NEW cmd \in BytesUpTo(m), NEW rest \in BytesUpTo(n)
  PROVE  Then(cmd, rest) \in BytesUpTo(m + n)
<1>1. << >> \in BytesUpTo(m + n)
  BY EmptyBytes, FewerBytes
<1> QED
  BY <1>1, JoinedBytes DEF Then

LEMMA StartedThen ==
  ASSUME NEW cmd \in Started, NEW rest \in Started
  PROVE  Then(cmd, rest) \in Started
<1>1. << >> \in Started
  BY DEF Started
<1> QED
  BY <1>1, StartedBoth DEF Then

-----------------------------------------------------------------------------
(* The folds.                                                              *)

Window == [0..4 -> Token]

LEMMA TokenFields ==
  ASSUME NEW token \in Token
  PROVE  /\ token.reg \in 0..3 \cup {INVALID_REG}
         /\ token.reg \in Regs \cup {INVALID_REG}
         /\ token.immed \in Int /\ token.offset \in Int
         /\ token.mode # MODE_NONE => token.reg \in 0..3
<1>1. /\ token.reg \in 0..RBX \cup {INVALID_REG} /\ token.immed \in Int /\ token.offset \in Int
      /\ token.mode # MODE_NONE => token.reg # INVALID_REG
  BY DEF Token
<1> QED
  BY <1>1 DEF RBX, Regs

LEMMA MathCmdType ==
  ASSUME NEW token, token.my_cmd \in MathCmds
  PROVE  get_cmd_from_token(token) \in {ADD, SUB, MUL, DIV}
<1>1. \/ token.my_cmd = CMD_MY_ADD \/ token.my_cmd = CMD_MY_SUB
      \/ token.my_cmd = CMD_MY_MUL \/ token.my_cmd = CMD_MY_DIV
  BY DEF MathCmds
<1>2. /\ CMD_MY_ADD # CMD_MY_SUB /\ CMD_MY_ADD # CMD_MY_MUL /\ CMD_MY_ADD # CMD_MY_DIV
      /\ CMD_MY_SUB # CMD_MY_MUL /\ CMD_MY_SUB # CMD_MY_DIV /\ CMD_MY_MUL # CMD_MY_DIV
  BY DEF CMD_MY_ADD, CMD_MY_SUB, CMD_MY_MUL, CMD_MY_DIV
<1> QED
  BY <1>1, <1>2, Zenon DEF get_cmd_from_token

LEMMA MathIsTwoOperand ==
  ASSUME NEW cmd \in {ADD, SUB, MUL, DIV}
  PROVE  cmd \in TwoOperandCmds /\ cmd \notin {PUSH, POP}
BY DEF TwoOperandCmds, MOV, ADD, SUB, MUL, DIV, PUSH, POP

LEMMA SmallRegs == RAX \in 0..7 /\ RCX \in 0..7 /\ RDX \in 0..7 /\ RBX \in 0..7 /\ RDI \in 0..7 /\ 0..7 \subseteq Regs /\ R15 \in Regs
BY DEF RAX, RCX, RDX, RBX, RDI, Regs

LEMMA MathOfStackType ==
  ASSUME NEW math, math.my_cmd \in MathCmds
  PROVE  MathOfStack(math) \in BytesUpTo(16) /\ MathOfStack(math) \in Started
<1> DEFINE cmd == get_cmd_from_token(math)
           info == IF cmd \in {MUL, DIV} THEN RegInfo(cmd, RDI, INVALID_REG) ELSE RegInfo(cmd, RAX, RDI)
<1>1. cmd \in {ADD, SUB, MUL, DIV}
  BY MathCmdType
<1>2. cmd \in TwoOperandCmds /\ cmd \notin {PUSH, POP}
  BY <1>1, MathIsTwoOperand
<1>3. RAX \in Regs /\ RDI \in Regs /\ RAX # INVALID_REG /\ RDI # INVALID_REG
  BY SmallRegs, RegsAreRegisters
<1> HIDE DEF cmd
<1>4. RegInfo(cmd, RDI, INVALID_REG) \in Infos(Int) /\ RegInfo(cmd, RAX, RDI) \in Infos(Int)
  BY <1>2, <1>3, RegInfoType
<1>5. encode_cmd(info) \in BytesUpTo(7) /\ encode_cmd(info) \in Started
  BY <1>4, CmdsFit, StartedCmds
<1>6. MathOfStack(math) = Then(PopReg(RDI), Then(PopReg(RAX), Then(encode_cmd(info), PushReg(RAX))))
  BY DEF MathOfStack, cmd
<1> HIDE DEF info
<1>7. /\ PopReg(RDI) \in BytesUpTo(1) /\ PopReg(RAX) \in BytesUpTo(1) /\ PushReg(RAX) \in BytesUpTo(1)
      /\ PopReg(RDI) \in Started /\ PopReg(RAX) \in Started /\ PushReg(RAX) \in Started
  BY SmallRegs, PushPopRegType
<1>8. Then(encode_cmd(info), PushReg(RAX)) \in BytesUpTo(8)
  BY <1>5, <1>7, ThenType
<1>9. Then(PopReg(RAX), Then(encode_cmd(info), PushReg(RAX))) \in BytesUpTo(9)
  BY <1>7, <1>8, ThenType
<1>10. MathOfStack(math) \in BytesUpTo(10)
  BY <1>6, <1>7, <1>9, ThenType
<1>11. MathOfStack(math) \in Started
  BY <1>5, <1>6, <1>7, StartedThen
<1> QED
  BY <1>10, <1>11, FewerBytes

(* A math command on rax with any operand a token may have.                *)
LEMMA MathOnRaxType ==
  ASSUME NEW cmd \in TwoOperandCmds, NEW reg \in Regs \cup {INVALID_REG}, NEW v \in Int
  PROVE  [RegInfo(cmd, RAX, reg) EXCEPT !.immed_val = v] \in Infos(Int)
<1>1. RAX \in Regs /\ RAX # INVALID_REG /\ cmd \notin {PUSH, POP}
  BY SmallRegs, RegsAreRegisters DEF TwoOperandCmds, MOV, ADD, SUB, MUL, DIV, PUSH, POP
<1>2. RegInfo(cmd, RAX, reg) \in Infos(Int)
  BY <1>1, RegInfoType
<1> QED
  BY <1>2, WithImmed

LEMMA PushMathType ==
  ASSUME NEW push \in Token, NEW math \in Token, math.my_cmd \in MathCmds
  PROVE  PushMath(push, math) \in BytesUpTo(16) /\ PushMath(push, math) \in Started
<1> DEFINE info == [RegInfo(get_cmd_from_token(math), RAX, push.reg) EXCEPT !.immed_val = push.immed]
<1>1. get_cmd_from_token(math) \in TwoOperandCmds
  BY MathCmdType, MathIsTwoOperand
<1>2. info \in Infos(Int)
  BY <1>1, TokenFields, MathOnRaxType
<1>3. PushMath(push, math) = Then(PopReg(RAX), Then(encode_cmd(info), PushReg(RAX)))
  BY DEF PushMath
<1> HIDE DEF info
<1>4. encode_cmd(info) \in BytesUpTo(7) /\ encode_cmd(info) \in Started
  BY <1>2, CmdsFit, StartedCmds
<1>5. /\ PopReg(RAX) \in BytesUpTo(1) /\ PushReg(RAX) \in BytesUpTo(1)
      /\ PopReg(RAX) \in Started /\ PushReg(RAX) \in Started
  BY SmallRegs, PushPopRegType
<1>6. Then(encode_cmd(info), PushReg(RAX)) \in BytesUpTo(8)
  BY <1>4, <1>5, ThenType
<1>7. PushMath(push, math) \in BytesUpTo(9)
  BY <1>3, <1>5, <1>6, ThenType
<1>8. PushMath(push, math) \in Started
  BY <1>3, <1>4, <1>5, StartedThen
<1> QED
  BY <1>7, <1>8, FewerBytes

LEMMA LoadOperandType ==
  ASSUME NEW push \in Token
  PROVE  LoadOperand(push) \in BytesUpTo(7) /\ LoadOperand(push) \in Started
<1> DEFINE plain == [RegInfo(MOV, RAX, push.reg) EXCEPT !.immed_val = push.immed]
           fromMemory == push.mode = MODE_REG_ADDRESS
<1>1. plain \in Infos(Int)
  BY TokenFields, MathOnRaxType DEF TwoOperandCmds
<1>2. plain.cmd_encode = MOV
  BY DEF RegInfo
<1>3. [RegInfo(MOV, RAX, push.reg) EXCEPT !.immed_val = push.immed, !.use_memory4src = fromMemory]
        = [plain EXCEPT !.use_memory4src = fromMemory]
  OBVIOUS
<1>4. fromMemory \in BOOLEAN
  BY Zenon
<1> HIDE DEF plain, fromMemory
<1>5. [plain EXCEPT !.use_memory4src = fromMemory] \in Infos(Int)
  BY <1>1, <1>2, <1>4, FromMemory DEF MOV, PUSH, POP
<1>6. /\ encode_cmd([plain EXCEPT !.use_memory4src = fromMemory]) \in BytesUpTo(7)
      /\ encode_cmd([plain EXCEPT !.use_memory4src = fromMemory]) \in Started
  BY <1>5, CmdsFit, StartedCmds
<1> QED
  BY <1>3, <1>6, Zenon DEF LoadOperand, fromMemory

LEMMA PushAnyMathType ==
  ASSUME NEW push \in Token, NEW any \in Token, NEW math \in Token, math.my_cmd \in MathCmds
  PROVE  PushAnyMath(push, any, math) \in BytesUpTo(16) /\ PushAnyMath(push, any, math) \in Started
<1> DEFINE value == IF push.reg = RBX THEN any.immed * 8 ELSE any.immed
           info == [RegInfo(get_cmd_from_token(math), RAX, any.reg) EXCEPT !.immed_val = value]
<1>1. get_cmd_from_token(math) \in TwoOperandCmds
  BY MathCmdType, MathIsTwoOperand
<1>2. value \in Int
  BY TokenFields
<1>3. PushAnyMath(push, any, math) = Then(LoadOperand(push), Then(encode_cmd(info), PushReg(RAX)))
  BY DEF PushAnyMath
<1> HIDE DEF value
<1>4. info \in Infos(Int)
  BY <1>1, <1>2, TokenFields, MathOnRaxType
<1> HIDE DEF info
<1>5. encode_cmd(info) \in BytesUpTo(7) /\ encode_cmd(info) \in Started
  BY <1>4, CmdsFit, StartedCmds
<1>6. PushReg(RAX) \in BytesUpTo(1) /\ PushReg(RAX) \in Started
  BY SmallRegs, PushPopRegType
<1>7. Then(encode_cmd(info), PushReg(RAX)) \in BytesUpTo(8)
  BY <1>5, <1>6, ThenType
<1>8. PushAnyMath(push, any, math) \in BytesUpTo(15)
  BY <1>3, <1>7, LoadOperandType, ThenType
<1>9. PushAnyMath(push, any, math) \in Started
  BY <1>3, <1>5, <1>6, LoadOperandType, StartedThen
<1> QED
  BY <1>8, <1>9, FewerBytes

LEMMA MemoryAccessType ==
  ASSUME NEW look \in Window
  PROVE  /\ find_convert_memory_access(look) \in BytesUpTo(16)
         /\ find_convert_memory_access(look) \in Started
<1> DEFINE indent == MemoryIndent(look)
           load  == RegInfo(PUSH, INVALID_REG, RCX)
           store == RegInfo(POP, RCX, INVALID_REG)
           access == IF look[4].my_cmd = CMD_MY_PUSH
                     THEN [load EXCEPT !.use_memory4src = TRUE]
                     ELSE [store EXCEPT !.use_memory4dest = TRUE]
           base == encode_cmd(RegInfo(MOV, RDI, RBX))
           addition == encode_cmd(ImmedInfo(ADD, RDI, indent))
<1>1. indent \in Int
  <2>1. look[1].immed \in Int /\ look[2].immed \in Int
    BY TokenFields DEF Window
  <2>2. look[1].immed * 8 \in Int /\ look[2].immed * 8 \in Int
    BY <2>1
  <2>3. CASE look[1].my_cmd = CMD_MY_PUSH /\ look[2].my_cmd = CMD_MY_ADD
    <3>1. ~(look[2].my_cmd = CMD_MY_PUSH)
      BY <2>3 DEF CMD_MY_PUSH, CMD_MY_ADD
    <3> QED
      BY <2>2, <2>3, <3>1, Zenon DEF MemoryIndent
  <2>4. CASE look[2].my_cmd = CMD_MY_PUSH /\ look[1].my_cmd = CMD_MY_ADD
    <3>1. ~(look[1].my_cmd = CMD_MY_PUSH)
      BY <2>4 DEF CMD_MY_PUSH, CMD_MY_ADD
    <3> QED
      BY <2>2, <2>4, <3>1, Zenon DEF MemoryIndent
  <2>5. CASE /\ ~(look[1].my_cmd = CMD_MY_PUSH /\ look[2].my_cmd = CMD_MY_ADD)
             /\ ~(look[2].my_cmd = CMD_MY_PUSH /\ look[1].my_cmd = CMD_MY_ADD)
    <3>1. MemoryIndent(look) = 0
      BY <2>5, Zenon DEF MemoryIndent
    <3> QED
      BY <3>1
  <2> QED
    BY <2>3, <2>4, <2>5
<1>2. find_convert_memory_access(look) = base \o addition \o PushReg(RDI) \o PopReg(RCX) \o encode_cmd(access)
  BY DEF find_convert_memory_access
<1> HIDE DEF indent
<1>3. base \in BytesUpTo(3) /\ base \in Started
  BY SmallRegs, RegRegType
<1>4. addition \in BytesUpTo(7) /\ addition \in Started
  <2>1. ImmedInfo(ADD, RDI, indent) \in Infos(Int)
    BY <1>1, SmallRegs, ImmedInfoType DEF TwoOperandCmds
  <2> QED
    BY <2>1, CmdsFit, StartedCmds
<1>5. /\ PushReg(RDI) \in BytesUpTo(1) /\ PopReg(RCX) \in BytesUpTo(1)
      /\ PushReg(RDI) \in Started /\ PopReg(RCX) \in Started
  BY SmallRegs, PushPopRegType
<1>6. encode_cmd(access) \in BytesUpTo(3) /\ encode_cmd(access) \in Started
  <2>1. RCX \in Regs /\ RCX # INVALID_REG
    BY SmallRegs, RegsAreRegisters
  <2>2. load \in Infos(Int) /\ load.cmd_encode = PUSH /\ load.dest_reg = INVALID_REG /\ load.src_reg = RCX
    BY <2>1, RegInfoType DEF RegInfo, PUSH, MUL, DIV
  <2>3. store \in Infos(Int) /\ store.cmd_encode = POP /\ store.dest_reg = RCX /\ store.src_reg = INVALID_REG
    BY <2>1, RegInfoType DEF RegInfo, POP, MUL, DIV
  <2> HIDE DEF load, store
  <2>4. /\ [load EXCEPT !.use_memory4src = TRUE] \in Infos(Int)
        /\ [load EXCEPT !.use_memory4src = TRUE].cmd_encode = PUSH
        /\ [load EXCEPT !.use_memory4src = TRUE].dest_reg = INVALID_REG
        /\ [load EXCEPT !.use_memory4src = TRUE].src_reg = RCX
    BY <2>1, <2>2 DEF Infos
  <2>5. /\ [store EXCEPT !.use_memory4dest = TRUE] \in Infos(Int)
        /\ [store EXCEPT !.use_memory4dest = TRUE].cmd_encode = POP
        /\ [store EXCEPT !.use_memory4dest = TRUE].dest_reg = RCX
        /\ [store EXCEPT !.use_memory4dest = TRUE].src_reg = INVALID_REG
    BY <2>1, <2>3 DEF Infos
  <2>6. /\ access \in Infos(Int) /\ access.cmd_encode \in {PUSH, POP}
        /\ access.dest_reg # access.src_reg
    BY <2>1, <2>4, <2>5
  <2> HIDE DEF access
  <2>7. encode_cmd(access) = encode_pop_push(access)
    <3>1. access.cmd_encode \notin TwoOperandCmds /\ access.cmd_encode # CALL /\ access.cmd_encode # RET
      BY <2>6 DEF TwoOperandCmds, MOV, ADD, SUB, MUL, DIV, PUSH, POP, CALL, RET
    <3> QED
      BY <2>6, <3>1, Zenon DEF encode_cmd
  <2> QED
    BY <2>6, <2>7, PopPushType, StartedCmds
<1> HIDE DEF base, addition, access
<1>7. base \o addition \in BytesUpTo(10)
  BY <1>3, <1>4, JoinedBytes
<1>8. base \o addition \o PushReg(RDI) \in BytesUpTo(11)
  BY <1>5, <1>7, JoinedBytes
<1>9. base \o addition \o PushReg(RDI) \o PopReg(RCX) \in BytesUpTo(12)
  BY <1>5, <1>8, JoinedBytes
<1>10. find_convert_memory_access(look) \in BytesUpTo(15)
  BY <1>2, <1>6, <1>9, JoinedBytes
<1>11. find_convert_memory_access(look) \in Started
  <2>1. base \o addition \in Started
    BY <1>3, <1>4, StartedBoth
  <2>2. base \o addition \o PushReg(RDI) \in Started
    BY <1>5, <2>1, StartedBoth
  <2>3. base \o addition \o PushReg(RDI) \o PopReg(RCX) \in Started
    BY <1>5, <2>2, StartedBoth
  <2> QED
    BY <1>2, <1>6, <2>3, StartedBoth
<1> QED
  BY <1>10, <1>11, FewerBytes

(* However far a fold looks ahead, it leaves at most 16 bytes, of which    *)
(* the first is not 0.                                                     *)
THEOREM FoldsFit ==
  ASSUME NEW look \in Window
  PROVE  /\ convert_tokens2nonstack_logic(look).skip \in {0, 1, 2, 3, 5}
         /\ convert_tokens2nonstack_logic(look).bytes \in BytesUpTo(16)
         /\ convert_tokens2nonstack_logic(look).bytes \in Started
<1> DEFINE fold == convert_tokens2nonstack_logic(look)
           isPush == look[0].my_cmd = CMD_MY_PUSH
           twoImmeds == look[0].use_immed /\ look[1].use_immed
<1>1. look[0] \in Token /\ look[1] \in Token /\ look[2] \in Token
  BY DEF Window
<1>2. CASE IsMemoryAccess(look)
  <2>1. fold = Fold(5, find_convert_memory_access(look))
    BY <1>2, Zenon DEF convert_tokens2nonstack_logic
  <2> QED
    BY <2>1, MemoryAccessType DEF Fold
<1>3. CASE ~IsMemoryAccess(look) /\ look[0].my_cmd \in MathCmds
  <2>1. look[0].my_cmd # CMD_MY_PUSH
    BY <1>3 DEF MathCmds, CMD_MY_PUSH, CMD_MY_ADD, CMD_MY_SUB, CMD_MY_MUL, CMD_MY_DIV
  <2>2. fold = Fold(1, MathOfStack(look[0]))
    BY <1>3, <2>1, Zenon DEF convert_tokens2nonstack_logic
  <2> QED
    BY <1>3, <2>2, MathOfStackType DEF Fold
<1>4. CASE ~IsMemoryAccess(look) /\ look[0].my_cmd \notin MathCmds
  <2>1. CASE isPush /\ ~twoImmeds /\ look[1].my_cmd \in MathCmds
    <3>1. fold = Fold(2, PushMath(look[0], look[1]))
      BY <1>4, <2>1, Zenon DEF convert_tokens2nonstack_logic
    <3> QED
      BY <1>1, <2>1, <3>1, PushMathType DEF Fold
  <2>2. CASE isPush /\ ~twoImmeds /\ look[1].my_cmd \notin MathCmds /\ look[2].my_cmd \in MathCmds
    <3>1. fold = Fold(3, PushAnyMath(look[0], look[1], look[2]))
      BY <1>4, <2>2, Zenon DEF convert_tokens2nonstack_logic
    <3> QED
      BY <1>1, <2>2, <3>1, PushAnyMathType DEF Fold
  <2>3. CASE \/ ~isPush \/ twoImmeds
             \/ look[1].my_cmd \notin MathCmds /\ look[2].my_cmd \notin MathCmds
    <3>1. fold = Fold(0, << >>)
      BY <1>4, <2>3, Zenon DEF convert_tokens2nonstack_logic
    <3>2. << >> \in Started
      BY DEF Started
    <3> QED
      BY <3>1, <3>2, EmptyBytes, FewerBytes DEF Fold
  <2> QED
    BY <2>1, <2>2, <2>3
<1> QED
  BY <1>2, <1>3, <1>4

-----------------------------------------------------------------------------
(* Single tokens.                                                          *)

LEMMA TokenPushPopType ==
  ASSUME NEW token \in Token
  PROVE  encode_token2push_pop(token) \in BytesUpTo(5) /\ encode_token2push_pop(token) \in Started
<1> DEFINE isPush == token.my_cmd = CMD_MY_PUSH
           prefix == R8PlusPrefix(token)
           opcode == IF token.immed <= ASCII_MAX_SYMBOL THEN \h6A ELSE \h68
           inMemory == IF isPush THEN << \hFF, \h30 + token.reg >> ELSE << \h8F, token.reg >>
           inRegister == (IF isPush THEN \h50 ELSE \h58) + token.reg
           result == encode_token2push_pop(token)
<1>1. prefix \in BytesUpTo(1) /\ prefix \in Started
  <2>1. << \h41 >> \in BytesUpTo(1) /\ << >> \in BytesUpTo(1)
    BY DEF BytesUpTo, Byte
  <2>2. << \h41 >> \in Started /\ << >> \in Started
    BY ByteRange, StartedByte DEF Started
  <2> QED
    BY <2>1, <2>2, Zenon DEF R8PlusPrefix
<1>2. MODE_NONE # MODE_REG_ADDRESS /\ MODE_NONE # MODE_8_BYTE_IN_ADDRESS
      /\ MODE_REG_ADDRESS # MODE_8_BYTE_IN_ADDRESS
  BY DEF MODE_NONE, MODE_REG_ADDRESS, MODE_8_BYTE_IN_ADDRESS
<1>3. CASE token.use_immed
  <2>1. opcode \in Byte /\ opcode # 0
    BY ByteRange
  <2>2. result = << opcode >> \o NumberBytes(token.immed)
    BY <1>3, Zenon DEF encode_token2push_pop
  <2> HIDE DEF opcode, result
  <2>3. << opcode >> \in BytesUpTo(1) /\ << opcode >> \in Started /\ Len(<< opcode >>) > 0
    BY <2>1, OneByte, StartedByte
  <2>4. NumberBytes(token.immed) \in BytesUpTo(4) /\ NumberBytes(token.immed) \in Seq(Byte)
    BY TokenFields, NumberBytesType, BytesAreSeq
  <2>5. result \in BytesUpTo(5)
    BY <2>2, <2>3, <2>4, JoinedBytes
  <2>6. result \in Started
    BY <2>2, <2>3, <2>4, StartedJoin
  <2> QED
    BY <2>5, <2>6 DEF result
<1>4. CASE ~token.use_immed /\ token.mode = MODE_REG_ADDRESS
  <2>1. result = prefix \o inMemory
    BY <1>2, <1>4, Zenon DEF encode_token2push_pop
  <2>2. token.reg \in 0..3
    BY <1>2, <1>4, TokenFields
  <2>3. << \hFF, \h30 + token.reg >> \in BytesUpTo(2) /\ << \h8F, token.reg >> \in BytesUpTo(2)
    BY <2>2 DEF BytesUpTo, Byte
  <2>4. inMemory \in BytesUpTo(2) /\ inMemory \in Started
    <3>1. << \hFF, \h30 + token.reg >> \in Started /\ << \h8F, token.reg >> \in Started
      BY <2>3 DEF BytesUpTo, Started
    <3> QED
      BY <2>3, <3>1, Zenon
  <2> HIDE DEF prefix, inMemory
  <2>5. prefix \o inMemory \in BytesUpTo(3) /\ prefix \o inMemory \in Started
    BY <1>1, <2>4, JoinedBytes, StartedBoth
  <2> QED
    BY <2>1, <2>5, FewerBytes
<1>5. CASE ~token.use_immed /\ token.mode = MODE_8_BYTE_IN_ADDRESS
  <2>1. result = prefix \o << inRegister >>
    BY <1>2, <1>5, Zenon DEF encode_token2push_pop
  <2>2. token.reg \in 0..3
    BY <1>2, <1>5, TokenFields
  <2>3. inRegister \in Byte /\ inRegister # 0
    BY <2>2, ByteRange
  <2> HIDE DEF prefix, inRegister
  <2>4. prefix \o << inRegister >> \in BytesUpTo(2) /\ prefix \o << inRegister >> \in Started
    <3>1. << inRegister >> \in BytesUpTo(1) /\ << inRegister >> \in Started
      BY <2>3, OneByte, StartedByte
    <3> QED
      BY <1>1, <3>1, JoinedBytes, StartedBoth
  <2> QED
    BY <2>1, <2>4, FewerBytes
<1>6. CASE ~token.use_immed /\ token.mode \notin {MODE_REG_ADDRESS, MODE_8_BYTE_IN_ADDRESS}
  <2>1. result \in { << \h48, \h83, \hC4, \h08 >>, << >> }
    BY <1>6, Zenon DEF encode_token2push_pop
  <2>2. << \h48, \h83, \hC4, \h08 >> \in BytesUpTo(5) /\ << >> \in BytesUpTo(5)
    BY DEF BytesUpTo, Byte
  <2>3. << \h48, \h83, \hC4, \h08 >> \in Started /\ << >> \in Started
    BY <2>2 DEF BytesUpTo, Started
  <2> QED
    BY <2>1, <2>2, <2>3
<1> QED
  BY <1>3, <1>4, <1>5, <1>6

(* The bytes after the k-th one hold the int v.                            *)
Holds(b, k, v) == \A j \in 1..4 : b[k + j] = Le32(v)[j]

LEMMA JoinedAt ==
  ASSUME NEW s \in Seq(Byte), NEW t \in Seq(Byte)
  PROVE  /\ \A n \in 1..Len(s) : (s \o t)[n] = s[n]
         /\ \A n \in 1..Len(t) : (s \o t)[Len(s) + n] = t[n]
OBVIOUS

(* A displacement behind an opcode, and both behind other code.            *)
LEMMA HeldAfter ==
  ASSUME NEW op \in Seq(Byte), NEW v \in Int
  PROVE  LET c == op \o Le32(v)
         IN  c \in Seq(Byte) /\ Len(c) = Len(op) + 4 /\ (\A n \in 1..Len(op) : c[n] = op[n])
             /\ Holds(c, Len(op), v)
<1> DEFINE value == Le32(v)
           c == op \o value
<1>1. value \in Seq(Byte) /\ Len(value) = 4
  BY Le32Type, BytesAreSeq
<1> HIDE DEF value
<1>2. c \in Seq(Byte) /\ Len(c) = Len(op) + Len(value)
  BY <1>1, JoinedSeqs, Zenon
<1>3. (\A n \in 1..Len(op) : c[n] = op[n]) /\ (\A n \in 1..Len(value) : c[Len(op) + n] = value[n])
  BY <1>1, JoinedAt, Zenon
<1> HIDE DEF c
<1>4. Holds(c, Len(op), v)
  BY <1>1, <1>3 DEF value, Holds
<1> QED
  BY <1>1, <1>2, <1>3, <1>4 DEF c, value

LEMMA HeldAfterOpcode ==
  ASSUME NEW b \in Byte, NEW v \in Int
  PROVE  LET c == << b >> \o Le32(v)
         IN  c \in Seq(Byte) /\ Len(c) = 5 /\ c[1] = b /\ Holds(c, 1, v)
<1> DEFINE op == << b >>
           c == op \o Le32(v)
<1>1. op \in Seq(Byte) /\ Len(op) = 1 /\ op[1] = b /\ 1 \in 1..Len(op)
  OBVIOUS
<1> HIDE DEF op
<1>2. c \in Seq(Byte) /\ Len(c) = Len(op) + 4 /\ (\A n \in 1..Len(op) : c[n] = op[n]) /\ Holds(c, Len(op), v)
  BY <1>1, HeldAfter
<1> HIDE DEF c
<1>3. Len(c) = 5 /\ c[1] = b /\ Holds(c, 1, v)
  BY <1>1, <1>2
<1> QED
  BY <1>2, <1>3 DEF c, op

LEMMA HeldBehind ==
  ASSUME NEW s \in Seq(Byte), NEW t \in Seq(Byte), NEW k \in Nat, NEW v, Holds(t, k, v), k + 4 <= Len(t)
  PROVE  Holds(s \o t, Len(s) + k, v)
<1>1. ASSUME NEW j \in 1..4 PROVE (s \o t)[(Len(s) + k) + j] = t[k + j]
  <2>1. Len(s) \in Nat /\ Len(t) \in Nat /\ k + j \in 1..Len(t)
    BY <1>1
  <2>2. (Len(s) + k) + j = Len(s) + (k + j)
    BY <2>1
  <2>3. \A n \in 1..Len(t) : (s \o t)[Len(s) + n] = t[n]
    OBVIOUS
  <2> QED
    BY <2>1, <2>2, <2>3
<1> QED
  BY <1>1 DEF Holds

LEMMA HeldInFront ==
  ASSUME NEW s \in Seq(Byte), NEW t \in Seq(Byte), NEW k \in Nat, NEW v, Holds(s, k, v), k + 4 <= Len(s)
  PROVE  Holds(s \o t, k, v)
<1>1. ASSUME NEW j \in 1..4 PROVE (s \o t)[k + j] = s[k + j]
  BY <1>1
<1> QED
  BY <1>1 DEF Holds

LEMMA ExternalCallBytes ==
  ASSUME NEW v \in Int
  PROVE  encode_cmd(ImmedInfo(CALL, INVALID_REG, v)) = << \hE8 >> \o Le32(v)
<1> DEFINE info == ImmedInfo(CALL, INVALID_REG, v)
<1>1. /\ info.cmd_encode = CALL /\ info.src_reg = INVALID_REG
      /\ ~info.use_memory4src /\ info.immed_val = v
  BY DEF ImmedInfo, RegInfo
<1> HIDE DEF info
<1>2. CALL \notin TwoOperandCmds /\ CALL \notin {PUSH, POP} /\ CALL # RET
  BY DEF TwoOperandCmds, MOV, ADD, SUB, MUL, DIV, PUSH, POP, CALL, RET
<1>3. encode_cmd(info) = encode_call(info)
  BY <1>1, <1>2, Zenon DEF encode_cmd
<1>4. encode_call(info) = << \hE8 >> \o Le32(v)
  BY <1>1, Zenon DEF encode_call
<1> QED
  BY <1>3, <1>4 DEF info

LEMMA ExternalCallType ==
  ASSUME NEW v \in Int
  PROVE  LET call == encode_cmd(ImmedInfo(CALL, INVALID_REG, v))
         IN  /\ call \in BytesUpTo(5) /\ call \in Started /\ Len(call) = 5
             /\ call[1] = \hE8 /\ Holds(call, 1, v)
<1>1. \hE8 \in Byte
  BY ByteRange
<1> DEFINE call == << \hE8 >> \o Le32(v)
<1>2. call \in Seq(Byte) /\ Len(call) = 5 /\ call[1] = \hE8 /\ Holds(call, 1, v)
  BY ZenonT(40), <1>1, HeldAfterOpcode
<1> HIDE DEF call
<1>3. call \in BytesUpTo(5) /\ call \in Started
  <2>1. call \in Seq(Byte) /\ call[1] # 0 /\ Len(call) <= 5
    BY <1>2
  <2>2. 5 \in Nat
    OBVIOUS
  <2> QED
    BY <2>1, <2>2, SeqOfBytes, StartedBytes, Zenon
<1> QED
  BY ZenonT(40), <1>2, <1>3, ExternalCallBytes DEF call

(* The call's displacement is the one of space + 5, behind pop rdi as well. *)
LEMMA PrintScanType ==
  ASSUME PrintDecimal \in Int, ScanDecimal \in Int, NEW space \in Int
  PROVE  /\ encode_print(space) \in BytesUpTo(8) /\ encode_print(space) \in Started
         /\ encode_scan(space) \in BytesUpTo(8) /\ encode_scan(space) \in Started
         /\ Len(encode_print(space)) = 6 /\ encode_print(space)[2] = \hE8
         /\ Holds(encode_print(space), 2, PrintDecimal - (space + JMP_LENGTH))
         /\ Len(encode_scan(space)) = 6 /\ encode_scan(space)[1] = \hE8 /\ encode_scan(space)[6] # 0
         /\ Holds(encode_scan(space), 1, ScanDecimal - (space + JMP_LENGTH))
<1> DEFINE toPrint == PrintDecimal - (space + JMP_LENGTH)
           toScan  == ScanDecimal - (space + JMP_LENGTH)
           print == encode_cmd(ImmedInfo(CALL, INVALID_REG, toPrint))
           scan  == encode_cmd(ImmedInfo(CALL, INVALID_REG, toScan))
           before == PopReg(RDI)
           after  == PopReg(RAX)
<1>1. toPrint \in Int /\ toScan \in Int
  BY DEF JMP_LENGTH
<1>2. encode_print(space) = before \o print /\ encode_scan(space) = scan \o after
  BY DEF encode_print, encode_scan
<1> HIDE DEF toPrint, toScan
<1>3. /\ print \in BytesUpTo(5) /\ print \in Started /\ Len(print) = 5
      /\ print[1] = \hE8 /\ Holds(print, 1, toPrint)
      /\ scan \in BytesUpTo(5) /\ scan \in Started /\ Len(scan) = 5
      /\ scan[1] = \hE8 /\ Holds(scan, 1, toScan)
  BY <1>1, ExternalCallType
<1>4. /\ before \in BytesUpTo(1) /\ after \in BytesUpTo(1)
      /\ before \in Started /\ after \in Started
      /\ Len(before) = 1 /\ Len(after) = 1 /\ after[1] # 0
  <2>1. before = << \h5F >> /\ after = << \h58 >>
    BY SmallRegs, PushPopRegBytes DEF RDI, RAX
  <2>2. /\ before \in BytesUpTo(1) /\ after \in BytesUpTo(1) /\ before \in Started /\ after \in Started
    BY SmallRegs, PushPopRegType
  <2> HIDE DEF before, after
  <2> QED
    BY <2>1, <2>2
<1> HIDE DEF print, scan, before, after
<1>5. print \in Seq(Byte) /\ scan \in Seq(Byte) /\ before \in Seq(Byte) /\ after \in Seq(Byte)
  BY <1>3, <1>4, BytesAreSeq
<1>6. before \o print \in BytesUpTo(6) /\ scan \o after \in BytesUpTo(6)
      /\ Len(before \o print) = 6 /\ Len(scan \o after) = 6
  <2>1. before \o print \in Seq(Byte) /\ Len(before \o print) = Len(before) + Len(print)
    BY <1>5, JoinedSeqs, Zenon
  <2>2. scan \o after \in Seq(Byte) /\ Len(scan \o after) = Len(scan) + Len(after)
    BY <1>5, JoinedSeqs, Zenon
  <2>3. Len(before \o print) = 6 /\ Len(scan \o after) = 6
    BY <1>3, <1>4, <2>1, <2>2
  <2>4. 6 \in Nat /\ Len(before \o print) <= 6 /\ Len(scan \o after) <= 6
    BY <2>3
  <2> QED
    BY <2>1, <2>2, <2>3, <2>4, SeqOfBytes, Zenon
<1>7. before \o print \in Started /\ scan \o after \in Started
  BY <1>3, <1>4, StartedBoth
<1>8. Holds(before \o print, 2, toPrint) /\ Holds(scan \o after, 1, toScan)
  <2>1. 1 \in Nat /\ 1 + 4 <= Len(print) /\ 1 + 4 <= Len(scan) /\ Len(before) + 1 = 2
    BY <1>3, <1>4
  <2>2. Holds(before \o print, Len(before) + 1, toPrint)
    BY <1>3, <1>5, <2>1, HeldBehind, Zenon
  <2>3. Holds(scan \o after, 1, toScan)
    BY <1>3, <1>5, <2>1, HeldInFront, Zenon
  <2> QED
    BY <2>1, <2>2, <2>3, Zenon
<1>9. (before \o print)[2] = \hE8 /\ (scan \o after)[1] = \hE8 /\ (scan \o after)[6] # 0
  <2>1. /\ 1 \in 1..Len(print) /\ 1 \in 1..Len(scan) /\ 1 \in 1..Len(after)
        /\ Len(before) + 1 = 2 /\ Len(scan) + 1 = 6
    BY <1>3, <1>4
  <2>2. (before \o print)[Len(before) + 1] = print[1]
    BY <1>5, <2>1, JoinedAt, Zenon
  <2>3. (scan \o after)[1] = scan[1] /\ (scan \o after)[Len(scan) + 1] = after[1]
    BY SMT, <1>5, <2>1, JoinedAt
  <2>4. (before \o print)[2] = print[1] /\ (scan \o after)[6] = after[1]
    BY <2>1, <2>2, <2>3, Zenon
  <2> QED
    BY <1>3, <1>4, <2>3, <2>4, Zenon
<1>10. before \o print \in BytesUpTo(8) /\ scan \o after \in BytesUpTo(8)
  BY <1>6, FewerBytes
<1> QED
  BY <1>2, <1>6, <1>7, <1>8, <1>9, <1>10 DEF toPrint, toScan

LEMMA SqrtType == encode_sqrt \in BytesUpTo(16) /\ encode_sqrt \in Started
<1> DEFINE toDouble == << \hF2, \h48, \h0F, \h2A, \hC0 >>
           root == << \hF2, \h0F, \h51, \hC0 >>
           toInt == << \hF2, \h48, \h0F, \h2C, \hC0 >>
<1>1. toDouble \in BytesUpTo(5) /\ root \in BytesUpTo(4) /\ toInt \in BytesUpTo(5)
  BY DEF BytesUpTo, Byte
<1>2. toDouble \in Started /\ root \in Started /\ toInt \in Started
  BY <1>1 DEF BytesUpTo, Started
<1>3. /\ PopReg(RAX) \in BytesUpTo(1) /\ PushReg(RAX) \in BytesUpTo(1)
      /\ PopReg(RAX) \in Started /\ PushReg(RAX) \in Started
  BY SmallRegs, PushPopRegType
<1>4. encode_sqrt = PopReg(RAX) \o toDouble \o root \o toInt \o PushReg(RAX)
  BY DEF encode_sqrt
<1> HIDE DEF toDouble, root, toInt
<1>5. PopReg(RAX) \o toDouble \in BytesUpTo(6) /\ PopReg(RAX) \o toDouble \in Started
  BY <1>1, <1>2, <1>3, JoinedBytes, StartedBoth
<1>6. /\ PopReg(RAX) \o toDouble \o root \in BytesUpTo(10)
      /\ PopReg(RAX) \o toDouble \o root \in Started
  BY <1>1, <1>2, <1>5, JoinedBytes, StartedBoth
<1>7. /\ PopReg(RAX) \o toDouble \o root \o toInt \in BytesUpTo(15)
      /\ PopReg(RAX) \o toDouble \o root \o toInt \in Started
  BY <1>1, <1>2, <1>6, JoinedBytes, StartedBoth
<1> QED
  BY <1>3, <1>4, <1>7, JoinedBytes, StartedBoth

LEMMA JmpType ==
  ASSUME NEW token \in Token
  PROVE  LET code == pre_encode_jmp(token)
         IN  /\ code \in BytesUpTo(5) /\ code \in Started /\ code \in Seq(Byte) /\ Len(code) = 5
             /\ code[1] = \hE9 /\ Holds(code, 1, token.offset)
<1> DEFINE offset == token.offset
           code == << \hE9 >> \o Le32(offset)
<1>1. \hE9 \in Byte /\ offset \in Int
  BY ByteRange, TokenFields
<1>2. pre_encode_jmp(token) = code
  BY DEF pre_encode_jmp
<1> HIDE DEF offset
<1>3. code \in Seq(Byte) /\ Len(code) = 5 /\ code[1] = \hE9 /\ Holds(code, 1, offset)
  BY ZenonT(40), <1>1, HeldAfterOpcode
<1> HIDE DEF code
<1>4. code \in Seq(Byte) /\ code[1] # 0 /\ Len(code) <= 5
  BY <1>3
<1>5. code \in BytesUpTo(5) /\ code \in Started
  <2>1. 5 \in Nat
    OBVIOUS
  <2> QED
    BY <1>4, <2>1, SeqOfBytes, StartedBytes, Zenon
<1> QED
  BY <1>2, <1>3, <1>5 DEF offset

(* pop rcx; pop rdx; cmp: the last two bytes are those of cmp rcx, rdx.    *)
LEMMA CmpType ==
  /\ encode_cmp \in Seq(Byte) /\ Len(encode_cmp) = 5
  /\ encode_cmp[1] # 0 /\ encode_cmp[4] = \h39 /\ encode_cmp[5] = \hD1
<1> DEFINE pops == PopReg(RCX) \o PopReg(RDX)
           cmp == << \h48, \h39, \hD1 >>
<1>1. /\ PopReg(RCX) \in Seq(Byte) /\ Len(PopReg(RCX)) = 1 /\ PopReg(RCX)[1] # 0
      /\ PopReg(RDX) \in Seq(Byte) /\ Len(PopReg(RDX)) = 1
  <2>1. PopReg(RCX) = << \h59 >> /\ PopReg(RDX) = << \h5A >>
    BY SmallRegs, PushPopRegBytes DEF RCX, RDX
  <2>2. \h59 \in Byte /\ \h5A \in Byte
    BY ByteRange
  <2> QED
    BY <2>1, <2>2
<1>2. pops \in Seq(Byte) /\ Len(pops) = 2 /\ pops[1] # 0
  <2>1. pops \in Seq(Byte) /\ Len(pops) = Len(PopReg(RCX)) + Len(PopReg(RDX))
    BY <1>1, JoinedSeqs, Zenon
  <2>2. 1 \in 1..Len(PopReg(RCX))
    BY <1>1
  <2>3. pops[1] = PopReg(RCX)[1]
    BY <1>1, <2>2, JoinedAt, Zenon
  <2> QED
    BY <1>1, <2>1, <2>3
<1>3. cmp \in Seq(Byte) /\ Len(cmp) = 3 /\ cmp[2] = \h39 /\ cmp[3] = \hD1
  <2>1. \h48 \in Byte /\ \h39 \in Byte /\ \hD1 \in Byte
    BY ByteRange
  <2> QED
    BY <2>1
<1>4. encode_cmp = pops \o cmp
  BY DEF encode_cmp
<1> HIDE DEF pops, cmp
<1>5. pops \o cmp \in Seq(Byte) /\ Len(pops \o cmp) = Len(pops) + Len(cmp)
  <2>1. pops \in Seq(Byte) /\ cmp \in Seq(Byte)
    BY <1>2, <1>3
  <2> QED
    BY <2>1, JoinedSeqs, Zenon
<1>6. 1 \in 1..Len(pops) /\ 2 \in 1..Len(cmp) /\ 3 \in 1..Len(cmp) /\ Len(pops) + 2 = 4 /\ Len(pops) + 3 = 5
  BY <1>2, <1>3
<1>7. /\ (pops \o cmp)[1] = pops[1]
      /\ (pops \o cmp)[Len(pops) + 2] = cmp[2] /\ (pops \o cmp)[Len(pops) + 3] = cmp[3]
  <2>1. pops \in Seq(Byte) /\ cmp \in Seq(Byte)
    BY <1>2, <1>3
  <2> QED
    BY <1>6, <2>1, JoinedAt
<1>8. (pops \o cmp)[4] = cmp[2] /\ (pops \o cmp)[5] = cmp[3]
  BY <1>6, <1>7, Zenon
<1>9. Len(pops \o cmp) = 5
  BY <1>2, <1>3, <1>5
<1> QED
  BY SMT, <1>2, <1>3, <1>4, <1>5, <1>7, <1>8, <1>9

LEMMA ConditionType ==
  ASSUME NEW cmd \in CondJmpCmds
  PROVE  ConditionCode(cmd) \in Int /\ \h82 <= ConditionCode(cmd) /\ ConditionCode(cmd) <= \h87
<1>1. /\ CMD_MY_JB \notin {CMD_MY_JBE, CMD_MY_JA, CMD_MY_JAE, CMD_MY_JE, CMD_MY_JNE}
      /\ CMD_MY_JBE \notin {CMD_MY_JA, CMD_MY_JAE, CMD_MY_JE, CMD_MY_JNE}
      /\ CMD_MY_JA \notin {CMD_MY_JAE, CMD_MY_JE, CMD_MY_JNE}
      /\ CMD_MY_JAE \notin {CMD_MY_JE, CMD_MY_JNE}
      /\ CMD_MY_JE # CMD_MY_JNE
  BY DEF CMD_MY_JB, CMD_MY_JBE, CMD_MY_JA, CMD_MY_JAE, CMD_MY_JE, CMD_MY_JNE
<1>2. \/ cmd = CMD_MY_JB \/ cmd = CMD_MY_JBE \/ cmd = CMD_MY_JA
      \/ cmd = CMD_MY_JAE \/ cmd = CMD_MY_JE \/ cmd = CMD_MY_JNE
  BY DEF CondJmpCmds
<1> DEFINE codes == {\h82, \h83, \h84, \h85, \h86, \h87}
<1>3. /\ \h82 \in codes /\ \h83 \in codes /\ \h84 \in codes
      /\ \h85 \in codes /\ \h86 \in codes /\ \h87 \in codes
      /\ \A c \in codes : c \in Int /\ \h82 <= c /\ c <= \h87
  OBVIOUS
<1> HIDE DEF codes
<1>4. ConditionCode(cmd) \in codes
  BY <1>1, <1>2, <1>3, Zenon DEF ConditionCode
<1> QED
  BY <1>3, <1>4

(* The last two bytes of cmp, jcc, and the offset.                         *)
IsCompareAndJump(code, offset) ==
  /\ code \in BytesUpTo(16) /\ code \in Started /\ code \in Seq(Byte) /\ Len(code) = 11
  /\ code[4] = \h39 /\ code[5] = \hD1 /\ code[6] = \h0F
  /\ code[7] \in Int /\ \h82 <= code[7] /\ code[7] <= \h87
  /\ Holds(code, 7, offset)

LEMMA ConditionalJmpType ==
  ASSUME NEW token \in Token, token.my_cmd \in CondJmpCmds
  PROVE  IsCompareAndJump(encode_cmp \o pre_encode_conditional_jmp(token), token.offset)
<1> DEFINE cc == ConditionCode(token.my_cmd)
           op == << \h0F, cc >>
           jmp == op \o Le32(token.offset)
           code == encode_cmp \o jmp
<1>1. cc \in Int /\ \h82 <= cc /\ cc <= \h87
  BY ConditionType
<1>2. cc \in Byte /\ \h0F \in Byte
  BY <1>1, ByteRange
<1> HIDE DEF cc
<1>3. op \in Seq(Byte) /\ Len(op) = 2 /\ op[1] = \h0F /\ op[2] = cc /\ token.offset \in Int
  BY <1>2, TokenFields
<1>4. encode_cmp \o pre_encode_conditional_jmp(token) = code
  BY DEF pre_encode_conditional_jmp, cc
<1> HIDE DEF op
<1>5. /\ jmp \in Seq(Byte) /\ Len(jmp) = Len(op) + 4 /\ (\A n \in 1..Len(op) : jmp[n] = op[n])
      /\ Holds(jmp, Len(op), token.offset)
  BY <1>3, HeldAfter
<1> HIDE DEF jmp
<1>6. Len(jmp) = 6 /\ jmp[1] = \h0F /\ jmp[2] = cc /\ Holds(jmp, 2, token.offset)
  <2>1. 1 \in 1..Len(op) /\ 2 \in 1..Len(op) /\ Len(jmp) = 6
    BY <1>3, <1>5
  <2>2. jmp[1] = op[1] /\ jmp[2] = op[2]
    BY <1>5, <2>1, Zenon
  <2>3. Holds(jmp, 2, token.offset)
    BY <1>3, <1>5, Zenon
  <2> QED
    BY <1>3, <2>1, <2>2, <2>3
<1>7. code \in Seq(Byte) /\ Len(code) = Len(encode_cmp) + Len(jmp)
  <2>1. encode_cmp \in Seq(Byte) /\ jmp \in Seq(Byte)
    BY <1>5, CmpType
  <2> QED
    BY <2>1, JoinedSeqs
<1>8. /\ 1 \in 1..Len(encode_cmp) /\ 4 \in 1..Len(encode_cmp) /\ 5 \in 1..Len(encode_cmp)
      /\ 1 \in 1..Len(jmp) /\ 2 \in 1..Len(jmp)
      /\ Len(encode_cmp) + 1 = 6 /\ Len(encode_cmp) + 2 = 7 /\ 2 \in Nat /\ 2 + 4 <= Len(jmp)
  BY <1>6, CmpType
<1>9. /\ code[1] = encode_cmp[1] /\ code[4] = encode_cmp[4] /\ code[5] = encode_cmp[5]
      /\ code[Len(encode_cmp) + 1] = jmp[1] /\ code[Len(encode_cmp) + 2] = jmp[2]
  <2>1. encode_cmp \in Seq(Byte) /\ jmp \in Seq(Byte)
    BY <1>5, CmpType
  <2>2. /\ \A n \in 1..Len(encode_cmp) : code[n] = encode_cmp[n]
        /\ \A n \in 1..Len(jmp) : code[Len(encode_cmp) + n] = jmp[n]
    BY <2>1, JoinedAt
  <2> HIDE DEF code
  <2> QED
    BY <1>8, <2>2
<1>10. Holds(code, Len(encode_cmp) + 2, token.offset)
  BY ZenonT(40), <1>5, <1>6, <1>8, CmpType, HeldBehind
<1> HIDE DEF code
<1>11. code[6] = \h0F /\ code[7] = cc /\ Holds(code, 7, token.offset)
  BY <1>6, <1>8, <1>9, <1>10, Zenon
<1>12. Len(code) = 11 /\ code[4] = \h39 /\ code[5] = \hD1 /\ code[1] # 0
  BY <1>6, <1>7, <1>9, CmpType
<1>13. 16 \in Nat /\ Len(code) <= 16
  BY <1>12
<1>14. code \in BytesUpTo(16) /\ code \in Started
  BY SMT, <1>7, <1>12, <1>13, SeqOfBytes, StartedBytes
<1>15. code[7] \in Int /\ \h82 <= code[7] /\ code[7] <= \h87
  BY <1>1, <1>11
<1> QED
  BY <1>4, <1>7, <1>11, <1>12, <1>14, <1>15 DEF IsCompareAndJump

LEMMA LengthOfThree ==
  ASSUME NEW p \in Seq(Byte), NEW o \in Seq(Byte), NEW r \in Seq(Byte)
  PROVE  p \o o \o r \in Seq(Byte) /\ Len(p \o o \o r) = Len(p) + Len(o) + Len(r)
<1>1. p \o o \in Seq(Byte) /\ Len(p \o o) = Len(p) + Len(o)
  BY JoinedSeqs
<1>2. p \o o \o r \in Seq(Byte) /\ Len(p \o o \o r) = Len(p \o o) + Len(r)
  BY <1>1, JoinedSeqs
<1> QED
  BY <1>1, <1>2

(* sub r15, 8 takes the one-byte immediate.                                *)
LEMMA StackStepType ==
  LET step == encode_cmd(ImmedInfo(SUB, R15, 8))
  IN  step \in Seq(Byte) /\ Len(step) = 4 /\ step \in Started
<1> DEFINE info == ImmedInfo(SUB, R15, 8)
<1>1. /\ info \in Infos(Int) /\ info.cmd_encode = SUB /\ info.dest_reg = R15 /\ info.src_reg = INVALID_REG
      /\ info.immed_val = 8 /\ ~info.use_memory4src
  <2>1. 8 \in Int /\ SUB \in TwoOperandCmds
    BY DEF TwoOperandCmds
  <2>2. info \in Infos(Int)
    BY <2>1, SmallRegs, ImmedInfoType, Zenon
  <2> QED
    BY <2>2 DEF ImmedInfo, RegInfo
<1> HIDE DEF info
<1>2. ~Exchanged(info) /\ IsHigh(info.dest_reg) /\ ~IsHigh(info.src_reg) /\ Wide(info)
  BY <1>1 DEF Exchanged, IsHigh, Wide, R15, RDI, INVALID_REG, SUB, MOV
<1>3. RmOperand(info) # INVALID_REG /\ RegOperand(info) = INVALID_REG
  BY <1>1, <1>2 DEF RmOperand, RegOperand, Low, IsHigh, R15, R8, RDI, INVALID_REG
<1>4. SUB \in TwoOperandCmds /\ SUB \notin {MUL, DIV, PUSH, POP} /\ SUB # MOV /\ SUB # CALL /\ SUB # RET
  BY DEF TwoOperandCmds, MOV, ADD, SUB, MUL, DIV, PUSH, POP, CALL, RET
<1>5. encode_cmd(info) = encode_add_sub_mul_div(info)
  BY <1>1, <1>4, Zenon DEF encode_cmd, encode_two_operands_cmds
<1> DEFINE narrow == IF get_sizeof_number2write(8) = 1 THEN \h83 ELSE \h81
           prefix == Prefix(info)
           opcode == << narrow >>
           modRm  == ModRm(info, \h28)
           value  == NumberBytes(8)
<1>6. encode_add_sub_mul_div(info) = prefix \o opcode \o modRm \o value
  BY SMT, <1>1, <1>3, <1>4 DEF encode_add_sub_mul_div
<1>7. prefix \in Seq(Byte) /\ Len(prefix) = 1
  <2>1. prefix = << \h49 >>
    BY <1>2, Zenon DEF Prefix
  <2>2. \h49 \in Byte
    BY ByteRange
  <2> QED
    BY <2>1, <2>2
<1>8. opcode \in Seq(Byte) /\ Len(opcode) = 1
  <2>1. narrow \in Byte
    BY ByteRange
  <2> HIDE DEF narrow
  <2> QED
    BY <2>1
<1>9. modRm \in Seq(Byte) /\ Len(modRm) = 1
  <2>1. modRm \in BytesUpTo(1)
    BY <1>1, <1>3, OperandsType, ModRmType
  <2>2. Len(modRm) = 1
    BY DEF ModRm
  <2> QED
    BY <2>1, <2>2, BytesAreSeq
<1>10. value \in Seq(Byte) /\ Len(value) = 1
  <2>1. 8 \in Int /\ 8 \in 0..127
    OBVIOUS
  <2>2. value \in BytesUpTo(4) /\ Len(value) = 1
    BY <2>1, NumberBytesType, Zenon
  <2> QED
    BY <2>2, BytesAreSeq
<1> HIDE DEF prefix, opcode, modRm, value
<1>11. prefix \o opcode \o modRm \in Seq(Byte) /\ Len(prefix \o opcode \o modRm) = 3
  <2>1. prefix \o opcode \o modRm \in Seq(Byte) /\ Len(prefix \o opcode \o modRm) = Len(prefix) + Len(opcode) + Len(modRm)
    BY <1>7, <1>8, <1>9, LengthOfThree
  <2> QED
    BY <1>7, <1>8, <1>9, <2>1
<1> DEFINE front == prefix \o opcode \o modRm
<1> HIDE DEF front
<1>12. front \o value \in Seq(Byte) /\ Len(front \o value) = Len(front) + Len(value)
  BY <1>10, <1>11, JoinedSeqs DEF front
<1>13. front \o value \in Seq(Byte) /\ Len(front \o value) = 4
  BY <1>10, <1>11, <1>12 DEF front
<1>14. encode_cmd(info) \in Started
  BY <1>1, StartedCmds
<1> QED
  BY <1>5, <1>6, <1>13, <1>14 DEF info, front

(* mov qword [r15], v                                                      *)
LEMMA SlotType ==
  ASSUME NEW v \in Nat
  PROVE  LET slot == encode_cmd([ImmedInfo(MOV, R15, v) EXCEPT !.use_memory4dest = TRUE])
         IN  slot \in Seq(Byte) /\ Len(slot) = 7 /\ slot \in Started
<1> DEFINE info == [ImmedInfo(MOV, R15, v) EXCEPT !.use_memory4dest = TRUE]
<1>1. /\ info \in Infos(Int) /\ info.cmd_encode = MOV /\ info.dest_reg = R15 /\ info.src_reg = INVALID_REG
      /\ info.immed_val = v /\ ~info.use_memory4src /\ info.use_memory4dest
  <2>1. v \in Int /\ MOV \in TwoOperandCmds
    BY DEF TwoOperandCmds
  <2>2. info \in Infos(Int)
    BY <2>1, SmallRegs, ImmedInfoType, Zenon
  <2> QED
    BY <2>2 DEF ImmedInfo, RegInfo
<1> HIDE DEF info
<1>2. ~Exchanged(info) /\ IsHigh(info.dest_reg) /\ ~IsHigh(info.src_reg) /\ Wide(info)
  BY <1>1 DEF Exchanged, IsHigh, Wide, R15, RDI, INVALID_REG
<1>3. RmOperand(info) = 7 /\ RmOperand(info) # INVALID_REG /\ RegOperand(info) = INVALID_REG
  BY <1>1, <1>2 DEF RmOperand, RegOperand, Low, IsHigh, R15, R8, RDI, INVALID_REG
<1>4. encode_cmd(info) = encode_mov(info)
  <2>1. MOV \in TwoOperandCmds /\ MOV \notin {PUSH, POP} /\ MOV # CALL /\ MOV # RET
    BY DEF TwoOperandCmds, MOV, PUSH, POP, CALL, RET
  <2> QED
    BY <1>1, <2>1, Zenon DEF encode_cmd, encode_two_operands_cmds
<1>5. v # -1
  OBVIOUS
<1> DEFINE prefix == Prefix(info)
           rm     == RmOperand(info)
           opcode == << \hC7, rm >>
           value  == Le32(v)
<1>6. encode_mov(info) = prefix \o opcode \o value
  BY <1>1, <1>3, <1>5, Zenon DEF encode_mov
<1>7. prefix \in Seq(Byte) /\ Len(prefix) = 1
  <2>1. prefix = << \h49 >>
    BY <1>2, Zenon DEF Prefix
  <2>2. \h49 \in Byte
    BY ByteRange
  <2> QED
    BY <2>1, <2>2
<1>8. opcode \in Seq(Byte) /\ Len(opcode) = 2
  <2>1. \hC7 \in Byte /\ rm \in Byte
    BY <1>3, ByteRange
  <2> HIDE DEF rm
  <2> QED
    BY <2>1
<1>9. value \in Seq(Byte) /\ Len(value) = 4
  BY Le32Type, BytesAreSeq
<1> HIDE DEF prefix, opcode, value
<1>10. /\ prefix \o opcode \o value \in Seq(Byte)
       /\ Len(prefix \o opcode \o value) = Len(prefix) + Len(opcode) + Len(value)
  BY <1>7, <1>8, <1>9, LengthOfThree
<1>11. Len(prefix) + Len(opcode) + Len(value) = 7
  BY <1>7, <1>8, <1>9
<1>12. encode_cmd(info) \in Started
  BY <1>1, StartedCmds
<1> QED
  BY <1>4, <1>6, <1>10, <1>11, <1>12 DEF info

LEMMA CallOfTokenType ==
  ASSUME NEW token \in Token, NEW space \in Nat
  PROVE  LET code == pre_encode_emitation_of_call(token, space)
         IN  /\ code \in BytesUpTo(16) /\ code \in Started /\ code \in Seq(Byte) /\ Len(code) = 16
             /\ code[12] = \hE9 /\ Holds(code, 12, token.offset)
<1> DEFINE slot == encode_cmd([ImmedInfo(MOV, R15, space + 16) EXCEPT !.use_memory4dest = TRUE])
           step == encode_cmd(ImmedInfo(SUB, R15, 8))
           jmp  == pre_encode_jmp(token)
           front == slot \o step
           code == front \o jmp
<1>1. pre_encode_emitation_of_call(token, space) = code
  BY DEF pre_encode_emitation_of_call
<1>2. slot \in Seq(Byte) /\ Len(slot) = 7 /\ slot \in Started
  <2>1. space + 16 \in Nat
    OBVIOUS
  <2> QED
    BY <2>1, SlotType
<1>3. step \in Seq(Byte) /\ Len(step) = 4 /\ step \in Started
  BY StackStepType
<1>4. jmp \in Seq(Byte) /\ Len(jmp) = 5 /\ jmp \in Started /\ jmp[1] = \hE9 /\ Holds(jmp, 1, token.offset)
  BY JmpType
<1> HIDE DEF slot, step, jmp
<1>5. front \in Seq(Byte) /\ Len(front) = 11 /\ front \in Started
  <2>1. slot \in Seq(Byte) /\ step \in Seq(Byte) /\ slot \in Started /\ step \in Started
    BY <1>2, <1>3
  <2>2. front \in Seq(Byte) /\ Len(front) = Len(slot) + Len(step)
    BY <2>1, JoinedSeqs
  <2>3. front \in Started
    BY <2>1, StartedBoth
  <2> HIDE DEF front
  <2> QED
    BY <1>2, <1>3, <2>2, <2>3
<1> HIDE DEF front
<1>6. code \in Seq(Byte) /\ Len(code) = 16 /\ code \in Started
  <2>1. front \in Seq(Byte) /\ jmp \in Seq(Byte) /\ front \in Started /\ jmp \in Started
    BY <1>4, <1>5
  <2>2. code \in Seq(Byte) /\ Len(code) = Len(front) + Len(jmp)
    BY <2>1, JoinedSeqs
  <2>3. code \in Started
    BY <2>1, StartedBoth
  <2> HIDE DEF code
  <2> QED
    BY <1>4, <1>5, <2>2, <2>3
<1>7. code[12] = \hE9
  <2>1. front \in Seq(Byte) /\ jmp \in Seq(Byte)
    BY <1>4, <1>5
  <2>2. \A n \in 1..Len(jmp) : code[Len(front) + n] = jmp[n]
    BY <2>1, JoinedAt
  <2> HIDE DEF code
  <2>3. 1 \in 1..Len(jmp) /\ Len(front) + 1 = 12 /\ jmp[1] = \hE9
    BY <1>4, <1>5
  <2>4. code[Len(front) + 1] = jmp[1]
    BY <2>2, <2>3
  <2> QED
    BY <2>3, <2>4
<1>8. Holds(code, 12, token.offset)
  <2>1. front \in Seq(Byte) /\ jmp \in Seq(Byte) /\ 1 \in Nat /\ 1 + 4 <= Len(jmp) /\ Len(front) + 1 = 12
    BY <1>4, <1>5
  <2>2. Holds(jmp, 1, token.offset)
    BY <1>4
  <2>3. Holds(code, Len(front) + 1, token.offset)
    BY <2>1, <2>2, HeldBehind, Zenon
  <2> HIDE DEF code
  <2> QED
    BY <2>1, <2>3
<1> HIDE DEF code
<1>9. code \in BytesUpTo(16)
  <2>1. 16 \in Nat /\ code \in Seq(Byte) /\ Len(code) <= 16
    BY <1>6
  <2> QED
    BY <2>1, SeqOfBytes, Zenon
<1> QED
  BY <1>1, <1>6, <1>7, <1>8, <1>9

LEMMA RetType == encode_emitation_of_ret \in BytesUpTo(16) /\ encode_emitation_of_ret \in Started
<1> DEFINE step == encode_cmd(ImmedInfo(ADD, R15, 8))
           push == << \h41, \hFF, \h37 >>
<1>1. step \in BytesUpTo(7) /\ step \in Started
  <2>1. 8 \in Int /\ ADD \in TwoOperandCmds
    BY DEF TwoOperandCmds
  <2>2. ImmedInfo(ADD, R15, 8) \in Infos(Int)
    BY <2>1, SmallRegs, ImmedInfoType, Zenon
  <2> QED
    BY <2>2, CmdsFit, StartedCmds
<1>2. push \in BytesUpTo(3) /\ encode_ret \in BytesUpTo(1)
  BY DEF BytesUpTo, Byte, encode_ret
<1>3. push \in Started /\ encode_ret \in Started
  BY <1>2 DEF BytesUpTo, Started, encode_ret
<1>4. encode_emitation_of_ret = step \o push \o encode_ret
  BY DEF encode_emitation_of_ret
<1> HIDE DEF step, push
<1>5. step \o push \in BytesUpTo(10) /\ step \o push \in Started
  BY <1>1, <1>2, <1>3, JoinedBytes, StartedBoth
<1>6. encode_emitation_of_ret \in BytesUpTo(11) /\ encode_emitation_of_ret \in Started
  BY <1>2, <1>3, <1>4, <1>5, JoinedBytes, StartedBoth
<1> QED
  BY <1>6, FewerBytes

(* One token leaves at most 16 bytes as well, the room of one x86_cmd_t,   *)
(* and bytes that do not begin with 0.                                     *)
THEOREM TokensFit16 ==
  ASSUME PrintDecimal \in Int, ScanDecimal \in Int, NEW token \in Token, NEW space \in Nat
  PROVE  x86_cmd_ctor(token, space) \in BytesUpTo(16) /\ x86_cmd_ctor(token, space) \in Started
<1> DEFINE cmd == token.my_cmd
           result == x86_cmd_ctor(token, space)
           Alone == {CMD_MY_OUT, CMD_MY_IN, CMD_MY_RET, CMD_MY_SQRT, CMD_MY_CALL, CMD_MY_JMP}
<1>1. /\ CMD_MY_OUT \notin {CMD_MY_IN, CMD_MY_RET, CMD_MY_SQRT, CMD_MY_CALL, CMD_MY_JMP}
      /\ CMD_MY_IN \notin {CMD_MY_RET, CMD_MY_SQRT, CMD_MY_CALL, CMD_MY_JMP}
      /\ CMD_MY_RET \notin {CMD_MY_SQRT, CMD_MY_CALL, CMD_MY_JMP}
      /\ CMD_MY_SQRT \notin {CMD_MY_CALL, CMD_MY_JMP}
      /\ CMD_MY_CALL # CMD_MY_JMP
      /\ \A c \in Alone : c \notin CondJmpCmds /\ c \notin {CMD_MY_PUSH, CMD_MY_POP}
      /\ \A c \in CondJmpCmds : c \notin {CMD_MY_PUSH, CMD_MY_POP}
  BY DEF CMD_MY_OUT, CMD_MY_IN, CMD_MY_RET, CMD_MY_SQRT, CMD_MY_CALL, CMD_MY_JMP, CMD_MY_PUSH, CMD_MY_POP,
     CondJmpCmds, CMD_MY_JB, CMD_MY_JBE, CMD_MY_JA, CMD_MY_JAE, CMD_MY_JE, CMD_MY_JNE
<1>2. CASE cmd \in Alone
  <2>1. cmd \notin CondJmpCmds /\ cmd \notin {CMD_MY_PUSH, CMD_MY_POP}
    BY <1>1, <1>2
  <2>2. result \in {encode_print(space), encode_scan(space), encode_emitation_of_ret, encode_sqrt,
                    pre_encode_emitation_of_call(token, space), pre_encode_jmp(token)}
    BY <1>1, <1>2, <2>1, Zenon DEF x86_cmd_ctor
  <2>3. /\ encode_print(space) \in BytesUpTo(16) /\ encode_scan(space) \in BytesUpTo(16)
        /\ encode_print(space) \in Started /\ encode_scan(space) \in Started
    BY PrintScanType, FewerBytes
  <2>4. pre_encode_jmp(token) \in BytesUpTo(16) /\ pre_encode_jmp(token) \in Started
    BY JmpType, FewerBytes
  <2>5. /\ encode_emitation_of_ret \in BytesUpTo(16) /\ encode_sqrt \in BytesUpTo(16)
        /\ encode_emitation_of_ret \in Started /\ encode_sqrt \in Started
    BY RetType, SqrtType
  <2>6. /\ pre_encode_emitation_of_call(token, space) \in BytesUpTo(16)
        /\ pre_encode_emitation_of_call(token, space) \in Started
    BY CallOfTokenType
  <2> QED
    BY <2>2, <2>3, <2>4, <2>5, <2>6
<1>3. CASE cmd \in CondJmpCmds
  <2>1. cmd \notin Alone /\ cmd \notin {CMD_MY_PUSH, CMD_MY_POP}
    BY <1>1, <1>3
  <2>2. result = encode_cmp \o pre_encode_conditional_jmp(token)
    BY <1>3, <2>1, Zenon DEF x86_cmd_ctor
  <2>3. IsCompareAndJump(result, token.offset)
    BY <1>3, <2>2, ConditionalJmpType
  <2> HIDE DEF result
  <2> QED
    BY <2>3 DEF IsCompareAndJump, result
<1>4. CASE cmd \in {CMD_MY_PUSH, CMD_MY_POP}
  <2>1. cmd \notin Alone /\ cmd \notin CondJmpCmds
    BY <1>1, <1>4
  <2>2. result = encode_token2push_pop(token)
    BY <1>4, <2>1, Zenon DEF x86_cmd_ctor
  <2> QED
    BY <2>2, TokenPushPopType, FewerBytes
<1>5. CASE cmd \notin Alone /\ cmd \notin CondJmpCmds /\ cmd \notin {CMD_MY_PUSH, CMD_MY_POP}
  <2>1. result = << >>
    BY <1>5, Zenon DEF x86_cmd_ctor
  <2> QED
    BY <2>1, EmptyBytes, FewerBytes DEF Started
<1> QED
  BY <1>2, <1>3, <1>4, <1>5


-----------------------------------------------------------------------------
(* Reading bytes.                                                          *)

(* All of b is one instruction.                                            *)
Reads(b, op, dst, src) == Decode(b) = Instr(op, dst, src, Len(b))

(* What the prefix p adds to the number of a register in rm, and in reg.   *)
HighRm(p)  == IF p \in {\h41, \h49} THEN 8 ELSE 0
HighReg(p) == IF p = \h4C THEN 8 ELSE 0

RexBytes == {\h41, \h48, \h49, \h4C}
WideRexBytes == {\h48, \h49, \h4C}

LEMMA RexRead ==
  ASSUME NEW b \in Seq(Byte), Len(b) > 0
  PROVE  /\ b[1] \in RexBytes => /\ HasRex(b) /\ RexB(b) = HighRm(b[1]) /\ RexR(b) = HighReg(b[1])
                                 /\ RexW(b) <=> b[1] \in WideRexBytes
         /\ b[1] \notin \h40..\h4F => ~HasRex(b) /\ ~RexW(b) /\ RexB(b) = 0 /\ RexR(b) = 0
BY SMT DEF HasRex, RexW, RexB, RexR, At, RexBytes, WideRexBytes, HighRm, HighReg

(* None of the three parts of a square root.                               *)
LEMMA NoSqrt ==
  ASSUME NEW b \in Seq(Byte), Len(b) > 0, b[1] # \hF2
  PROVE  Decode(b) = DecodeAt(b, IF HasRex(b) THEN 2 ELSE 1)
BY SMT DEF Decode, SqrtParts, StartsWith

(* Mod is 00 or 11.                                                        *)
Octal == 0..7
Mods  == {0, \hC0}

LEMMA ModRmRead ==
  ASSUME NEW d \in Octal, NEW r \in Octal, NEW mod \in Mods
  PROVE  /\ mod = 0 => ModField(mod + 8 * r + d) = 0
         /\ mod # 0 => ModField(mod + 8 * r + d) = 3
         /\ RegField(mod + 8 * r + d) = r /\ RmField(mod + 8 * r + d) = d
         /\ mod + 8 * r + d \in Byte
BY SMT DEF ModField, RegField, RmField, Byte, Octal, Mods

(* The operand the rm field names: the register or what it points to.      *)
RmOperandOf(p, mod, d) == IF mod = 0 THEN Mem(d + HighRm(p)) ELSE Reg(d + HighRm(p))

(* The ModR/M byte m behind the prefix p names rm and has r in reg.        *)
NamesOperands(p, m, rm, r) ==
  /\ m \in Byte /\ RegField(m) = r
  /\ \A b : RexB(b) = HighRm(p) => RmOf(b, m) = rm

LEMMA RmRead ==
  ASSUME NEW p, NEW d \in Octal, NEW r \in Octal, NEW mod \in Mods, mod = 0 => d # 4 /\ d # 5,
         NEW m, m = mod + 8 * r + d
  PROVE  NamesOperands(p, m, RmOperandOf(p, mod, d), r)
<1>1. /\ mod = 0 => ModField(m) = 0
      /\ mod # 0 => ModField(m) = 3
      /\ RegField(m) = r /\ RmField(m) = d /\ m \in Byte
  <2>1. /\ mod = 0 => ModField(mod + 8 * r + d) = 0
        /\ mod # 0 => ModField(mod + 8 * r + d) = 3
        /\ RegField(mod + 8 * r + d) = r /\ RmField(mod + 8 * r + d) = d
        /\ mod + 8 * r + d \in Byte
    BY ModRmRead, Zenon
  <2> QED
    BY <2>1, Zenon
<1>2. ASSUME NEW b, RexB(b) = HighRm(p) PROVE RmOf(b, m) = RmOperandOf(p, mod, d)
  BY <1>1, <1>2, SMT DEF RmOf, RmOperandOf
<1> QED
  BY <1>1, <1>2, Zenon DEF NamesOperands

LEMMA ThreeRead ==
  ASSUME NEW p \in Byte, NEW op \in Byte, NEW m \in Byte
  PROVE  /\ << p, op, m >> \in Seq(Byte) /\ Len(<< p, op, m >>) = 3 /\ << p, op, m >>[1] = p
         /\ At(<< p, op, m >>, 1) = p /\ At(<< p, op, m >>, 2) = op /\ At(<< p, op, m >>, 3) = m
BY SMT DEF At

(* A prefix for 64 bits, an opcode and a ModR/M byte.                      *)
LEMMA PrefixedRead ==
  ASSUME NEW b \in Seq(Byte), Len(b) > 0, NEW p \in WideRexBytes, b[1] = p
  PROVE  /\ Decode(b) = DecodeAt(b, 2) /\ RexW(b)
         /\ RexB(b) = HighRm(p) /\ RexR(b) = HighReg(p)
<1>1. p \in RexBytes /\ p # \hF2
  BY SMT DEF WideRexBytes, RexBytes
<1>2. HasRex(b) /\ RexB(b) = HighRm(p) /\ RexR(b) = HighReg(p) /\ RexW(b)
  BY <1>1, RexRead, ZenonT(40)
<1>3. Decode(b) = DecodeAt(b, 2)
  BY <1>1, <1>2, NoSqrt, Zenon
<1> QED
  BY <1>2, <1>3

LEMMA OpcodesRead ==
  ASSUME NEW b, RexW(b), NEW rm, RmOf(b, At(b, 3)) = rm,
         NEW reg, Reg(RegField(At(b, 3)) + RexR(b)) = reg
  PROVE  /\ At(b, 2) = \h01 => DecodeAt(b, 2) = Instr("add", rm, reg, 3)
         /\ At(b, 2) = \h03 => DecodeAt(b, 2) = Instr("add", reg, rm, 3)
         /\ At(b, 2) = \h29 => DecodeAt(b, 2) = Instr("sub", rm, reg, 3)
         /\ At(b, 2) = \h2B => DecodeAt(b, 2) = Instr("sub", reg, rm, 3)
         /\ At(b, 2) = \h89 => DecodeAt(b, 2) = Instr("mov", rm, reg, 3)
         /\ At(b, 2) = \h8B => DecodeAt(b, 2) = Instr("mov", reg, rm, 3)
         /\ At(b, 2) = \hF7 /\ RegField(At(b, 3)) = 4 => DecodeAt(b, 2) = Instr("mul", rm, NoOperand, 3)
         /\ At(b, 2) = \hF7 /\ RegField(At(b, 3)) = 6 => DecodeAt(b, 2) = Instr("div", rm, NoOperand, 3)
<1>1. CASE At(b, 2) = \h01
  BY <1>1, SMTT(20) DEF DecodeAt
<1>2. CASE At(b, 2) = \h03
  BY <1>2, SMTT(20) DEF DecodeAt
<1>3. CASE At(b, 2) = \h29
  BY <1>3, SMTT(20) DEF DecodeAt
<1>4. CASE At(b, 2) = \h2B
  BY <1>4, SMTT(20) DEF DecodeAt
<1>5. CASE At(b, 2) = \h89
  BY <1>5, SMTT(20) DEF DecodeAt
<1>6. CASE At(b, 2) = \h8B
  BY <1>6, SMTT(20) DEF DecodeAt
<1>7. CASE At(b, 2) = \hF7
  <2>1. GroupName(\hF7, 4) = "mul" /\ GroupName(\hF7, 6) = "div"
    BY SMT DEF GroupName
  <2>2. DecodeAt(b, 2) = Instr(GroupName(\hF7, RegField(At(b, 3))), rm, NoOperand, 3)
    BY <1>7, SMT DEF DecodeAt
  <2> QED
    BY <1>7, <2>1, <2>2, SMT
<1> QED
  BY <1>1, <1>2, <1>3, <1>4, <1>5, <1>6, <1>7, Zenon

(* The eight instructions of that form.                                    *)
LEMMA FormRead ==
  ASSUME NEW p \in WideRexBytes, NEW op \in Byte,
         NEW m, NEW rm, NEW r, NamesOperands(p, m, rm, r),
         NEW reg, reg = Reg(r + HighReg(p)),
         NEW b, b = << p, op, m >>
  PROVE  /\ op = \h01 => Reads(b, "add", rm, reg)
         /\ op = \h03 => Reads(b, "add", reg, rm)
         /\ op = \h29 => Reads(b, "sub", rm, reg)
         /\ op = \h2B => Reads(b, "sub", reg, rm)
         /\ op = \h89 => Reads(b, "mov", rm, reg)
         /\ op = \h8B => Reads(b, "mov", reg, rm)
         /\ op = \hF7 /\ r = 4 => Reads(b, "mul", rm, NoOperand)
         /\ op = \hF7 /\ r = 6 => Reads(b, "div", rm, NoOperand)
<1>1. m \in Byte /\ RegField(m) = r
  BY Zenon DEF NamesOperands
<1>2. p \in Byte
  BY SMT DEF Byte, WideRexBytes
<1>3. /\ b \in Seq(Byte) /\ Len(b) = 3 /\ b[1] = p
      /\ At(b, 2) = op /\ At(b, 3) = m
  BY <1>1, <1>2, ThreeRead, SMT
<1>4. Len(b) > 0
  BY <1>3
<1>5. /\ Decode(b) = DecodeAt(b, 2) /\ RexW(b)
      /\ RexB(b) = HighRm(p) /\ RexR(b) = HighReg(p)
  BY <1>3, <1>4, PrefixedRead, Zenon
<1>6. RmOf(b, m) = rm
  BY <1>5, Zenon DEF NamesOperands
<1>7. Reg(RegField(m) + RexR(b)) = reg
  BY <1>1, <1>5, SMT
<1>8. RmOf(b, At(b, 3)) = rm /\ Reg(RegField(At(b, 3)) + RexR(b)) = reg /\ RegField(At(b, 3)) = r
  BY <1>1, <1>3, <1>6, <1>7, SMT
<1>9. DecodeAt(b, 2) = Decode(b) /\ RexW(b) /\ At(b, 2) = op /\ Len(b) = 3
  BY <1>3, <1>5
<1> QED
  BY <1>8, <1>9, OpcodesRead, SMT DEF Reads

-----------------------------------------------------------------------------
(* Immediates of four bytes and of one.                                    *)

(* Four bytes and the int they hold.                                       *)
Word32(l, v) ==
  /\ l \in Seq(Byte) /\ Len(l) = 4
  /\ v = l[1] + 256 * l[2] + 65536 * l[3] + 16777216 * (IF l[4] < 128 THEN l[4] ELSE l[4] - 256)

LEMMA WithinBounds ==
  ASSUME NEW a \in Int, NEW b \in Int, NEW x \in a .. b
  PROVE  x \in Int /\ a <= x /\ x <= b
OBVIOUS

LEMMA ValueRange ==
  ASSUME NEW v \in Ints
  PROVE  v \in Int /\ -2147483647 <= v /\ v <= 2147483647
<1>1. -MAX_INT \in Int /\ MAX_INT \in Int
  BY SMT DEF MAX_INT
<1>2. v \in -MAX_INT .. MAX_INT
  BY Zenon DEF Ints
<1>3. v \in Int /\ -MAX_INT <= v /\ v <= MAX_INT
  BY SMT, <1>1, <1>2, WithinBounds
<1>4. MAX_INT = 2147483647
  BY SMT DEF MAX_INT
<1> QED
  BY SMT, <1>1, <1>3, <1>4

LEMMA FourBytes ==
  ASSUME NEW b1 \in Byte, NEW b2 \in Byte, NEW b3 \in Byte, NEW b4 \in Byte,
         NEW l, l = << b1, b2, b3, b4 >>
  PROVE  l \in Seq(Byte) /\ Len(l) = 4 /\ l[1] = b1 /\ l[2] = b2 /\ l[3] = b3 /\ l[4] = b4
BY SMT

LEMMA Le32Read ==
  ASSUME NEW v \in Ints
  PROVE  Word32(Le32(v), v)
<1>1. v \in Int /\ v \in Int32
  BY ValueRange, SMT DEF Int32
<1>2. Le32(v) \in Seq(Byte) /\ Len(Le32(v)) = 4
  BY <1>1, Le32Type, SMT DEF BytesUpTo
<1>3. Word(Le32(v), 0) = v
  BY <1>1, Le32Word
<1>4. PICK l : l = Le32(v)
  BY Zenon
<1>5. v = l[1] + 256 * l[2] + 65536 * l[3] + 16777216 * (IF l[4] < 128 THEN l[4] ELSE l[4] - 256)
  BY <1>3, <1>4, SMT DEF Word
<1>6. l \in Seq(Byte) /\ Len(l) = 4
  BY <1>2, <1>4
<1>7. Word32(l, v)
  BY <1>5, <1>6, SMT DEF Word32
<1> QED
  BY <1>4, <1>7

(* An int behind other bytes.                                              *)
LEMMA JoinedRead ==
  ASSUME NEW s \in Seq(Byte), NEW l \in Seq(Byte)
  PROVE  /\ s \o l \in Seq(Byte) /\ Len(s \o l) = Len(s) + Len(l)
         /\ \A k \in 1 .. Len(s) : At(s \o l, k) = At(s, k) /\ (s \o l)[k] = s[k]
         /\ \A k \in 1 .. Len(l) : At(s \o l, Len(s) + k) = l[k]
<1>1. PICK b : b = s \o l
  BY Zenon
<1>2. /\ b \in Seq(Byte) /\ Len(b) = Len(s) + Len(l) /\ Len(s) \in Nat /\ Len(l) \in Nat
      /\ \A k \in 1 .. Len(s) : b[k] = s[k]
      /\ \A k \in 1 .. Len(l) : b[Len(s) + k] = l[k]
  BY <1>1
<1>3. DOMAIN b = 1 .. Len(b) /\ DOMAIN s = 1 .. Len(s)
  BY <1>2
<1>4. ASSUME NEW k \in 1 .. Len(s) PROVE At(b, k) = At(s, k)
  <2>1. k \in DOMAIN b /\ k \in DOMAIN s
    BY <1>2, <1>3
  <2> QED
    BY <1>2, <2>1, Zenon DEF At
<1>5. ASSUME NEW k \in 1 .. Len(l) PROVE At(b, Len(s) + k) = l[k]
  <2>1. Len(s) + k \in DOMAIN b
    BY <1>2, <1>3
  <2> QED
    BY <1>2, <2>1, Zenon DEF At
<1> QED
  BY <1>1, <1>2, <1>4, <1>5, Zenon

(* The value v in b behind the bytes of s.                                 *)
WordBehind(s, v, b) ==
  /\ b \in Seq(Byte) /\ Len(b) = Len(s) + 4
  /\ \A k \in 1 .. Len(s) : At(b, k) = s[k] /\ b[k] = s[k]
  /\ Signed32(b, Len(s) + 1) = v

LEMMA ImmedRead ==
  ASSUME NEW s \in Seq(Byte), NEW v \in Ints
  PROVE  WordBehind(s, v, s \o Le32(v))
<1>1. PICK l : l = Le32(v)
  BY Zenon
<1>2. Word32(l, v)
  BY <1>1, Le32Read, Zenon
<1>3. l \in Seq(Byte) /\ Len(l) = 4
  BY <1>2 DEF Word32
<1>4. PICK b : b = s \o l
  BY Zenon
<1>5. /\ b \in Seq(Byte) /\ Len(b) = Len(s) + Len(l)
      /\ \A k \in 1 .. Len(s) : At(b, k) = At(s, k) /\ b[k] = s[k]
      /\ \A k \in 1 .. Len(l) : At(b, Len(s) + k) = l[k]
  <2>1. /\ s \o l \in Seq(Byte) /\ Len(s \o l) = Len(s) + Len(l)
        /\ \A k \in 1 .. Len(s) : At(s \o l, k) = At(s, k) /\ (s \o l)[k] = s[k]
        /\ \A k \in 1 .. Len(l) : At(s \o l, Len(s) + k) = l[k]
    BY <1>3, JoinedRead
  <2> QED
    BY <1>4, <2>1
<1>6. Len(s) \in Nat /\ \A k \in 1 .. Len(s) : At(s, k) = s[k]
  BY DEF At
<1>7. /\ At(b, Len(s) + 1) = l[1] /\ At(b, Len(s) + 1 + 1) = l[2]
      /\ At(b, Len(s) + 1 + 2) = l[3] /\ At(b, Len(s) + 1 + 3) = l[4]
  <2>1. 1 \in 1 .. Len(l) /\ 2 \in 1 .. Len(l) /\ 3 \in 1 .. Len(l) /\ 4 \in 1 .. Len(l)
    BY <1>3
  <2>2. Len(s) + 1 + 1 = Len(s) + 2 /\ Len(s) + 1 + 2 = Len(s) + 3 /\ Len(s) + 1 + 3 = Len(s) + 4
    BY <1>6
  <2> QED
    BY <1>5, <2>1, <2>2, Zenon
<1>8. Signed32(b, Len(s) + 1) = v
  <2>1. Signed32(b, Len(s) + 1) = l[1] + 256 * l[2] + 65536 * l[3] + 16777216 * (IF l[4] < 128 THEN l[4] ELSE l[4] - 256)
    BY <1>7, SMT DEF Signed32, Signed8
  <2> QED
    BY <1>2, <2>1, SMT DEF Word32
<1>9. /\ Len(b) = Len(s) + 4
      /\ \A k \in 1 .. Len(s) : At(b, k) = s[k] /\ b[k] = s[k]
  BY <1>3, <1>5, <1>6
<1>10. WordBehind(s, v, b)
  BY <1>5, <1>8, <1>9 DEF WordBehind
<1> QED
  BY <1>1, <1>4, <1>10, Zenon

-----------------------------------------------------------------------------
(* An opcode, a ModR/M byte and an immediate.                              *)

LEMMA ImmedOpcodesRead ==
  ASSUME NEW b, RexW(b), NEW rm, RmOf(b, At(b, 3)) = rm
  PROVE  /\ At(b, 2) = \h81 /\ RegField(At(b, 3)) = 0 => DecodeAt(b, 2) = Instr("add", rm, Imm(Signed32(b, 4)), 7)
         /\ At(b, 2) = \h81 /\ RegField(At(b, 3)) = 5 => DecodeAt(b, 2) = Instr("sub", rm, Imm(Signed32(b, 4)), 7)
         /\ At(b, 2) = \h83 /\ RegField(At(b, 3)) = 0 => DecodeAt(b, 2) = Instr("add", rm, Imm(Signed8(b, 4)), 4)
         /\ At(b, 2) = \h83 /\ RegField(At(b, 3)) = 5 => DecodeAt(b, 2) = Instr("sub", rm, Imm(Signed8(b, 4)), 4)
         /\ At(b, 2) = \hC7 /\ RegField(At(b, 3)) = 0 => DecodeAt(b, 2) = Instr("mov", rm, Imm(Signed32(b, 4)), 7)
<1>1. AluNames[0] = "add" /\ AluNames[5] = "sub" /\ GroupName(\hC7, 0) = "mov"
  BY SMT DEF AluNames, GroupName
<1>2. CASE At(b, 2) = \h81
  <2>1. DecodeAt(b, 2) = Instr(AluNames[RegField(At(b, 3))], rm, Imm(Signed32(b, 4)), 7)
    BY <1>2, SMT DEF DecodeAt
  <2> QED
    BY <1>1, <1>2, <2>1, SMT
<1>3. CASE At(b, 2) = \h83
  <2>1. DecodeAt(b, 2) = Instr(AluNames[RegField(At(b, 3))], rm, Imm(Signed8(b, 4)), 4)
    BY <1>3, SMT DEF DecodeAt
  <2> QED
    BY <1>1, <1>3, <2>1, SMT
<1>4. CASE At(b, 2) = \hC7
  <2>1. DecodeAt(b, 2) = Instr(GroupName(\hC7, RegField(At(b, 3))), rm, Imm(Signed32(b, 4)), 7)
    BY <1>4, SMT DEF DecodeAt
  <2> QED
    BY <1>1, <1>4, <2>1, SMT
<1> QED
  BY <1>2, <1>3, <1>4, SMT

(* b begins with a prefix, an opcode and a ModR/M byte.                    *)
Begins(b, p, op, m) ==
  b \in Seq(Byte) /\ Len(b) > 2 /\ b[1] = p /\ At(b, 2) = op /\ At(b, 3) = m

LEMMA HeadRead ==
  ASSUME NEW p \in WideRexBytes, NEW op, NEW m, NEW rm, NEW r, NamesOperands(p, m, rm, r),
         NEW b, Begins(b, p, op, m)
  PROVE  /\ Decode(b) = DecodeAt(b, 2) /\ RexW(b) /\ At(b, 2) = op
         /\ RmOf(b, At(b, 3)) = rm /\ RegField(At(b, 3)) = r
<1>1. b \in Seq(Byte) /\ Len(b) > 0 /\ b[1] = p /\ At(b, 2) = op /\ At(b, 3) = m
  BY SMT DEF Begins
<1>2. /\ Decode(b) = DecodeAt(b, 2) /\ RexW(b) /\ RexB(b) = HighRm(p)
  BY <1>1, PrefixedRead, Zenon
<1> QED
  BY <1>1, <1>2, Zenon DEF NamesOperands

LEMMA ImmedFormRead ==
  ASSUME NEW p \in WideRexBytes, NEW op, NEW m, NEW rm, NEW r, NamesOperands(p, m, rm, r),
         NEW b, Begins(b, p, op, m), NEW v
  PROVE  /\ op = \h81 /\ r = 0 /\ Len(b) = 7 /\ Signed32(b, 4) = v => Reads(b, "add", rm, Imm(v))
         /\ op = \h81 /\ r = 5 /\ Len(b) = 7 /\ Signed32(b, 4) = v => Reads(b, "sub", rm, Imm(v))
         /\ op = \h83 /\ r = 0 /\ Len(b) = 4 /\ Signed8(b, 4) = v => Reads(b, "add", rm, Imm(v))
         /\ op = \h83 /\ r = 5 /\ Len(b) = 4 /\ Signed8(b, 4) = v => Reads(b, "sub", rm, Imm(v))
         /\ op = \hC7 /\ r = 0 /\ Len(b) = 7 /\ Signed32(b, 4) = v => Reads(b, "mov", rm, Imm(v))
<1>1. /\ Decode(b) = DecodeAt(b, 2) /\ RexW(b) /\ At(b, 2) = op
      /\ RmOf(b, At(b, 3)) = rm /\ RegField(At(b, 3)) = r
  BY HeadRead, SMT
<1>2. /\ op = \h81 /\ r = 0 => DecodeAt(b, 2) = Instr("add", rm, Imm(Signed32(b, 4)), 7)
      /\ op = \h81 /\ r = 5 => DecodeAt(b, 2) = Instr("sub", rm, Imm(Signed32(b, 4)), 7)
      /\ op = \h83 /\ r = 0 => DecodeAt(b, 2) = Instr("add", rm, Imm(Signed8(b, 4)), 4)
      /\ op = \h83 /\ r = 5 => DecodeAt(b, 2) = Instr("sub", rm, Imm(Signed8(b, 4)), 4)
      /\ op = \hC7 /\ r = 0 => DecodeAt(b, 2) = Instr("mov", rm, Imm(Signed32(b, 4)), 7)
  BY <1>1, ImmedOpcodesRead, SMT
<1>3. ASSUME NEW name, NEW len, NEW value, value = v, Len(b) = len, DecodeAt(b, 2) = Instr(name, rm, Imm(value), len)
      PROVE  Reads(b, name, rm, Imm(v))
  BY <1>1, <1>3, Zenon DEF Reads
<1>4. ASSUME op = \h81, r = 0, Len(b) = 7, Signed32(b, 4) = v PROVE Reads(b, "add", rm, Imm(v))
  BY <1>2, <1>3, <1>4, SMT
<1>5. ASSUME op = \h81, r = 5, Len(b) = 7, Signed32(b, 4) = v PROVE Reads(b, "sub", rm, Imm(v))
  BY <1>2, <1>3, <1>5, SMT
<1>6. ASSUME op = \h83, r = 0, Len(b) = 4, Signed8(b, 4) = v PROVE Reads(b, "add", rm, Imm(v))
  BY <1>2, <1>3, <1>6, SMT
<1>7. ASSUME op = \h83, r = 5, Len(b) = 4, Signed8(b, 4) = v PROVE Reads(b, "sub", rm, Imm(v))
  BY <1>2, <1>3, <1>7, SMT
<1>8. ASSUME op = \hC7, r = 0, Len(b) = 7, Signed32(b, 4) = v PROVE Reads(b, "mov", rm, Imm(v))
  BY <1>2, <1>3, <1>8, SMT
<1> QED
  BY <1>4, <1>5, <1>6, <1>7, <1>8, ZenonT(40)

(* The bytes of the two forms.                                             *)
LEMMA WordForm ==
  ASSUME NEW p \in Byte, NEW op \in Byte, NEW m \in Byte, NEW v \in Ints
  PROVE  LET b == << p, op, m >> \o Le32(v)
         IN  Begins(b, p, op, m) /\ Len(b) = 7 /\ Signed32(b, 4) = v
<1> DEFINE s == << p, op, m >>
           b == s \o Le32(v)
<1>1. s \in Seq(Byte) /\ Len(s) = 3 /\ s[1] = p /\ s[2] = op /\ s[3] = m
  BY SMT
<1> HIDE DEF s
<1>2. WordBehind(s, v, b)
  BY <1>1, ImmedRead, Zenon
<1> HIDE DEF b
<1>3. 1 \in 1 .. Len(s) /\ 2 \in 1 .. Len(s) /\ 3 \in 1 .. Len(s) /\ Len(s) + 1 = 4 /\ Len(s) + 4 = 7
  BY <1>1, SMT
<1>4. b[1] = s[1] /\ At(b, 2) = s[2] /\ At(b, 3) = s[3] /\ Len(b) = 7 /\ Signed32(b, 4) = v /\ b \in Seq(Byte)
  BY <1>2, <1>3, Zenon DEF WordBehind
<1>5. Begins(b, p, op, m)
  BY <1>1, <1>4, SMT DEF Begins
<1> QED
  BY <1>4, <1>5, Zenon DEF b, s

(* What one byte holds, up to ASCII_MAX_SYMBOL.                            *)
LEMMA Byte8 ==
  ASSUME NEW v \in Int, -127 <= v, v <= 127
  PROVE  v % 256 \in Byte /\ v = IF v % 256 < 128 THEN v % 256 ELSE (v % 256) - 256
BY SMT DEF Byte

LEMMA FourRead ==
  ASSUME NEW p \in Byte, NEW op \in Byte, NEW m \in Byte, NEW e \in Byte
  PROVE  LET b == << p, op, m, e >>
         IN  Begins(b, p, op, m) /\ Len(b) = 4 /\ At(b, 4) = e
BY SMT DEF At, Begins

LEMMA ByteForm ==
  ASSUME NEW p \in Byte, NEW op \in Byte, NEW m \in Byte, NEW v \in Int, -127 <= v, v <= 127
  PROVE  LET b == << p, op, m, v % 256 >>
         IN  Begins(b, p, op, m) /\ Len(b) = 4 /\ Signed8(b, 4) = v
<1> DEFINE e == v % 256
           b == << p, op, m, e >>
<1>1. e \in Byte /\ v = IF e < 128 THEN e ELSE e - 256
  BY Byte8
<1> HIDE DEF e
<1>2. Begins(b, p, op, m) /\ Len(b) = 4 /\ At(b, 4) = e
  BY <1>1, FourRead
<1> HIDE DEF b
<1>3. Signed8(b, 4) = v
  BY <1>1, <1>2, SMT DEF Signed8
<1> QED
  BY <1>2, <1>3, Zenon DEF b, e

-----------------------------------------------------------------------------
(* Instructions without REX.W: h is what the prefix 41 adds, or there is   *)
(* none.                                                                   *)

OpcodePlace(h) == IF h = 8 THEN 2 ELSE 1

Starts(b, h, op) ==
  /\ b \in Seq(Byte) /\ Len(b) >= OpcodePlace(h)
  /\ h = 8 => b[1] = \h41 /\ b[2] = op
  /\ h = 0 => b[1] = op

(* Bytes that neither are a REX prefix nor begin a part of a square root.  *)
Opcodes == { op \in Byte : op \notin \h40..\h4F /\ op # \hF2 }

LEMMA NarrowRead ==
  ASSUME NEW h \in {0, 8}, NEW op \in Opcodes, NEW b, Starts(b, h, op)
  PROVE  /\ Decode(b) = DecodeAt(b, OpcodePlace(h)) /\ At(b, OpcodePlace(h)) = op
         /\ ~RexW(b) /\ RexB(b) = h /\ RexR(b) = 0
<1>0. op \in Byte /\ op \notin \h40..\h4F /\ op # \hF2
  BY SMT DEF Opcodes
<1>1. CASE h = 8
  <2>1. b \in Seq(Byte) /\ Len(b) >= 2 /\ b[1] = \h41 /\ b[2] = op /\ OpcodePlace(h) = 2
    BY <1>1, SMT DEF Starts, OpcodePlace
  <2>2. HasRex(b) /\ RexB(b) = 8 /\ RexR(b) = 0 /\ ~RexW(b)
    BY <1>0, <2>1, SMT DEF HasRex, RexB, RexR, RexW, At
  <2>3. Decode(b) = DecodeAt(b, 2)
    BY <1>0, <2>1, <2>2, NoSqrt, SMTT(20)
  <2>4. At(b, 2) = op
    BY <2>1, SMT DEF At
  <2> QED
    BY <1>1, <2>1, <2>2, <2>3, <2>4
<1>2. CASE h = 0
  <2>1. b \in Seq(Byte) /\ Len(b) >= 1 /\ b[1] = op /\ OpcodePlace(h) = 1
    BY <1>2, SMT DEF Starts, OpcodePlace
  <2>2. ~HasRex(b) /\ RexB(b) = 0 /\ RexR(b) = 0 /\ ~RexW(b)
    BY <1>0, <2>1, SMT DEF HasRex, RexB, RexR, RexW, At
  <2>3. Decode(b) = DecodeAt(b, 1)
    BY <1>0, <2>1, <2>2, NoSqrt, SMTT(20)
  <2>4. At(b, 1) = op
    BY <2>1, SMT DEF At
  <2> QED
    BY <1>2, <2>1, <2>2, <2>3, <2>4
<1> QED
  BY <1>1, <1>2

(* The register in the low bits of the opcode.                             *)
LEMMA LowBits ==
  ASSUME NEW d \in Octal
  PROVE  (\h50 + d) % 8 = d /\ (\h58 + d) % 8 = d /\ (\hB8 + d) % 8 = d
BY SMT DEF Octal

LEMMA NarrowOpcodes ==
  ASSUME NEW b, ~RexW(b), NEW o, NEW d \in Octal, NEW h, RexB(b) = h
  PROVE  /\ At(b, o) = \h50 + d => DecodeAt(b, o) = Instr("push", NoOperand, Reg(d + h), o)
         /\ At(b, o) = \h58 + d => DecodeAt(b, o) = Instr("pop", Reg(d + h), NoOperand, o)
         /\ At(b, o) = \hB8 + d => DecodeAt(b, o) = Instr("mov32", Reg(d + h), Imm(Signed32(b, o + 1)), o + 4)
<1>1. CASE At(b, o) = \h50 + d
  BY <1>1, LowBits, SMT DEF DecodeAt, Octal
<1>2. CASE At(b, o) = \h58 + d
  BY <1>2, LowBits, SMT DEF DecodeAt, Octal
<1>3. CASE At(b, o) = \hB8 + d
  BY <1>3, LowBits, SMT DEF DecodeAt, Octal
<1> QED
  BY <1>1, <1>2, <1>3, SMT

LEMMA NarrowImmedOpcodes ==
  ASSUME NEW b, NEW o
  PROVE  /\ At(b, o) = \h6A => DecodeAt(b, o) = Instr("push", NoOperand, Imm(Signed8(b, o + 1)), o + 1)
         /\ At(b, o) = \h68 => DecodeAt(b, o) = Instr("push", NoOperand, Imm(Signed32(b, o + 1)), o + 4)
         /\ At(b, o) = \hE8 => DecodeAt(b, o) = Instr("call", NoOperand, Imm(Signed32(b, o + 1)), o + 4)
         /\ At(b, o) = \hC3 => DecodeAt(b, o) = Instr("ret", NoOperand, NoOperand, o)
<1>1. CASE At(b, o) = \h6A
  BY <1>1, SMT DEF DecodeAt
<1>2. CASE At(b, o) = \h68
  BY <1>2, SMT DEF DecodeAt
<1>3. CASE At(b, o) = \hE8
  BY <1>3, SMT DEF DecodeAt
<1>4. CASE At(b, o) = \hC3
  BY <1>4, SMT DEF DecodeAt
<1> QED
  BY <1>1, <1>2, <1>3, <1>4, SMT

LEMMA NarrowMemoryOpcodes ==
  ASSUME NEW b, NEW o, NEW rm, RmOf(b, At(b, o + 1)) = rm
  PROVE  /\ At(b, o) = \hFF /\ RegField(At(b, o + 1)) = 6 => DecodeAt(b, o) = Instr("push", NoOperand, rm, o + 1)
         /\ At(b, o) = \h8F /\ RegField(At(b, o + 1)) = 0 => DecodeAt(b, o) = Instr("pop", rm, NoOperand, o + 1)
<1>1. GroupName(\hFF, 6) = "push" /\ GroupName(\h8F, 0) = "pop"
  BY SMT DEF GroupName
<1>2. CASE At(b, o) = \hFF
  <2>1. DecodeAt(b, o) = Instr(GroupName(\hFF, RegField(At(b, o + 1))), NoOperand, rm, o + 1)
    BY <1>2, SMT DEF DecodeAt
  <2> QED
    BY <1>1, <1>2, <2>1, SMT
<1>3. CASE At(b, o) = \h8F
  <2>1. DecodeAt(b, o) = Instr(GroupName(\h8F, RegField(At(b, o + 1))), rm, NoOperand, o + 1)
    BY <1>3, SMT DEF DecodeAt
  <2> QED
    BY <1>1, <1>3, <2>1, SMT
<1> QED
  BY <1>2, <1>3, SMT

HighPrefix(h) == IF h = 8 THEN << \h41 >> ELSE << >>

LEMMA OpcodeBytes ==
  ASSUME NEW h \in {0, 8}, NEW op \in Byte
  PROVE  LET s == HighPrefix(h) \o << op >>
         IN  s \in Seq(Byte) /\ Len(s) = OpcodePlace(h) /\ Starts(s, h, op)
<1>1. CASE h = 8
  BY <1>1, SMT DEF HighPrefix, OpcodePlace, Starts, Byte
<1>2. CASE h = 0
  BY <1>2, SMT DEF HighPrefix, OpcodePlace, Starts
<1> QED
  BY <1>1, <1>2

LEMMA OpcodeAndModRm ==
  ASSUME NEW h \in {0, 8}, NEW op \in Byte, NEW m \in Byte
  PROVE  LET b == HighPrefix(h) \o << op, m >>
         IN  Starts(b, h, op) /\ Len(b) = OpcodePlace(h) + 1 /\ At(b, OpcodePlace(h) + 1) = m
<1>1. CASE h = 8
  BY <1>1, SMT DEF HighPrefix, OpcodePlace, Starts, Byte, At
<1>2. CASE h = 0
  BY <1>2, SMT DEF HighPrefix, OpcodePlace, Starts, At
<1> QED
  BY <1>1, <1>2

(* push reg, pop reg.                                                      *)
LEMMA RegFormRead ==
  ASSUME NEW h \in {0, 8}, NEW d \in Octal
  PROVE  /\ Reads(HighPrefix(h) \o << \h50 + d >>, "push", NoOperand, Reg(d + h))
         /\ Reads(HighPrefix(h) \o << \h58 + d >>, "pop", Reg(d + h), NoOperand)
<1>1. ASSUME NEW op \in Byte, op = \h50 + d
      PROVE  Reads(HighPrefix(h) \o << op >>, "push", NoOperand, Reg(d + h))
  <2> DEFINE b == HighPrefix(h) \o << op >>
             o == OpcodePlace(h)
  <2>1. Len(b) = o /\ Starts(b, h, op)
    BY OpcodeBytes
  <2> HIDE DEF b
  <2>2. op \in Opcodes
    BY <1>1, SMT DEF Octal, Opcodes
  <2>3. Decode(b) = DecodeAt(b, o) /\ At(b, o) = op /\ ~RexW(b) /\ RexB(b) = h
    BY <2>1, <2>2, NarrowRead
  <2> HIDE DEF o
  <2>4. DecodeAt(b, o) = Instr("push", NoOperand, Reg(d + h), o)
    BY <1>1, <2>3, NarrowOpcodes, SMT
  <2>5. Reads(b, "push", NoOperand, Reg(d + h))
    BY <2>1, <2>3, <2>4, SMT DEF Reads
  <2> QED
    BY <2>5 DEF b
<1>2. ASSUME NEW op \in Byte, op = \h58 + d
      PROVE  Reads(HighPrefix(h) \o << op >>, "pop", Reg(d + h), NoOperand)
  <2> DEFINE b == HighPrefix(h) \o << op >>
             o == OpcodePlace(h)
  <2>1. Len(b) = o /\ Starts(b, h, op)
    BY OpcodeBytes
  <2> HIDE DEF b
  <2>2. op \in Opcodes
    BY <1>2, SMT DEF Octal, Opcodes
  <2>3. Decode(b) = DecodeAt(b, o) /\ At(b, o) = op /\ ~RexW(b) /\ RexB(b) = h
    BY <2>1, <2>2, NarrowRead
  <2> HIDE DEF o
  <2>4. DecodeAt(b, o) = Instr("pop", Reg(d + h), NoOperand, o)
    BY <1>2, <2>3, NarrowOpcodes, SMT
  <2>5. Reads(b, "pop", Reg(d + h), NoOperand)
    BY <2>1, <2>3, <2>4, SMT DEF Reads
  <2> QED
    BY <2>5 DEF b
<1>3. \h50 + d \in Byte /\ \h58 + d \in Byte
  BY SMT DEF Byte, Octal
<1> QED
  BY <1>1, <1>2, <1>3, SMT

(* push word [reg], pop word [reg].                                        *)
LEMMA MemoryFormRead ==
  ASSUME NEW h \in {0, 8}, NEW d \in Octal, d # 4, d # 5
  PROVE  /\ Reads(HighPrefix(h) \o << \hFF, \h30 + d >>, "push", NoOperand, Mem(d + h))
         /\ Reads(HighPrefix(h) \o << \h8F, d >>, "pop", Mem(d + h), NoOperand)
<1>1. ASSUME NEW op \in Byte, op = \hFF \/ op = \h8F, NEW m \in Byte, NEW r,
             ModField(m) = 0, RmField(m) = d, RegField(m) = r,
             op = \hFF => r = 6, op = \h8F => r = 0
      PROVE  /\ op = \hFF => Reads(HighPrefix(h) \o << op, m >>, "push", NoOperand, Mem(d + h))
             /\ op = \h8F => Reads(HighPrefix(h) \o << op, m >>, "pop", Mem(d + h), NoOperand)
  <2> DEFINE b == HighPrefix(h) \o << op, m >>
             o == OpcodePlace(h)
             next == o + 1
  <2>1. Len(b) = next /\ Starts(b, h, op) /\ At(b, next) = m
    BY <1>1, OpcodeAndModRm
  <2> HIDE DEF b
  <2>2. op \in Opcodes
    BY <1>1, SMT DEF Opcodes
  <2>3. Decode(b) = DecodeAt(b, o) /\ At(b, o) = op /\ ~RexW(b) /\ RexB(b) = h
    BY <1>1, <2>1, <2>2, NarrowRead
  <2>4. RmOf(b, m) = Mem(d + h)
    BY <1>1, <2>3, SMT DEF RmOf
  <2> HIDE DEF o
  <2>5. /\ op = \hFF => DecodeAt(b, o) = Instr("push", NoOperand, Mem(d + h), next)
        /\ op = \h8F => DecodeAt(b, o) = Instr("pop", Mem(d + h), NoOperand, next)
    BY <1>1, <2>1, <2>3, <2>4, NarrowMemoryOpcodes, SMT
  <2> HIDE DEF next
  <2>6. /\ op = \hFF => Reads(b, "push", NoOperand, Mem(d + h))
        /\ op = \h8F => Reads(b, "pop", Mem(d + h), NoOperand)
    BY <2>1, <2>3, <2>5, SMT DEF Reads
  <2> QED
    BY <2>6 DEF b
<1>2. /\ \h30 + d \in Byte /\ ModField(\h30 + d) = 0 /\ RmField(\h30 + d) = d /\ RegField(\h30 + d) = 6
      /\ d \in Byte /\ ModField(d) = 0 /\ RmField(d) = d /\ RegField(d) = 0
  BY SMT DEF Octal, Byte, ModField, RmField, RegField
<1>3. \hFF \in Byte /\ \h8F \in Byte
  BY SMT DEF Byte
<1> QED
  BY <1>1, <1>2, <1>3, SMT

(* mov reg, imm32.                                                         *)
LEMMA MovFormRead ==
  ASSUME NEW h \in {0, 8}, NEW d \in Octal, NEW v \in Ints
  PROVE  Reads(HighPrefix(h) \o << \hB8 + d >> \o Le32(v), "mov32", Reg(d + h), Imm(v))
<1> DEFINE op == \hB8 + d
           s == HighPrefix(h) \o << op >>
           b == s \o Le32(v)
           o == OpcodePlace(h)
<1>1. op \in Byte /\ op \in Opcodes
  BY SMT DEF Octal, Byte, Opcodes
<1>2. op = \hB8 + d
  OBVIOUS
<1> HIDE DEF op
<1>3. s \in Seq(Byte) /\ Len(s) = o /\ Starts(s, h, op)
  BY <1>1, OpcodeBytes
<1> HIDE DEF s
<1>4. WordBehind(s, v, b)
  BY <1>3, ImmedRead, Zenon
<1> HIDE DEF b
<1>5. o \in Nat /\ o >= 1 /\ b \in Seq(Byte) /\ Len(b) = o + 4 /\ Signed32(b, o + 1) = v /\ Starts(b, h, op)
  <2>1. o \in Nat /\ o >= 1 /\ (h = 8 => o = 2)
    BY SMT DEF OpcodePlace
  <2>2. b \in Seq(Byte) /\ Len(b) = o + 4 /\ Signed32(b, o + 1) = v /\ \A k \in 1 .. o : b[k] = s[k]
    BY <1>3, <1>4, SMT DEF WordBehind
  <2>3. b[1] = s[1] /\ (h = 8 => b[2] = s[2])
    BY <2>1, <2>2, SMT
  <2>4. Starts(b, h, op)
    BY <1>3, <2>1, <2>2, <2>3, SMT DEF Starts
  <2> QED
    BY <2>1, <2>2, <2>4
<1>6. Decode(b) = DecodeAt(b, o) /\ At(b, o) = op /\ ~RexW(b) /\ RexB(b) = h
  BY <1>1, <1>5, NarrowRead
<1> HIDE DEF o
<1>7. DecodeAt(b, o) = Instr("mov32", Reg(d + h), Imm(Signed32(b, o + 1)), o + 4)
  BY <1>2, <1>6, NarrowOpcodes, SMT
<1>8. Reads(b, "mov32", Reg(d + h), Imm(v))
  BY <1>5, <1>6, <1>7, SMT DEF Reads
<1> QED
  BY <1>8, Zenon DEF b, s, op

(* An opcode alone and one with an int behind it.                          *)
LEMMA AloneRead ==
  ASSUME NEW op \in Opcodes, NEW b, Starts(b, 0, op)
  PROVE  Decode(b) = DecodeAt(b, 1) /\ At(b, 1) = op
<1>1. OpcodePlace(0) = 1 /\ 0 \in {0, 8}
  BY SMT DEF OpcodePlace
<1> QED
  BY <1>1, NarrowRead, SMT

LEMMA OpcodeAndWord ==
  ASSUME NEW op \in Opcodes, NEW v \in Ints
  PROVE  LET b == << op >> \o Le32(v)
         IN  Starts(b, 0, op) /\ Len(b) = 5 /\ Signed32(b, 2) = v
<1> DEFINE s == << op >>
           b == s \o Le32(v)
<1>1. s \in Seq(Byte) /\ Len(s) = 1 /\ s[1] = op
  BY SMT DEF Opcodes
<1> HIDE DEF s
<1>2. WordBehind(s, v, b)
  BY <1>1, ImmedRead, Zenon
<1> HIDE DEF b
<1>3. b \in Seq(Byte) /\ Len(b) = 5 /\ Signed32(b, 2) = v /\ b[1] = op
  BY <1>1, <1>2, SMT DEF WordBehind
<1>4. Starts(b, 0, op)
  BY <1>3, SMT DEF Starts, OpcodePlace
<1> QED
  BY <1>3, <1>4, Zenon DEF b, s

LEMMA CallFormRead ==
  ASSUME NEW v \in Ints
  PROVE  Reads(<< \hE8 >> \o Le32(v), "call", NoOperand, Imm(v))
<1>1. PICK op : op = \hE8
  BY SMT
<1>2. op \in Opcodes
  BY <1>1, SMT DEF Opcodes, Byte
<1> DEFINE b == << op >> \o Le32(v)
<1>3. Starts(b, 0, op) /\ Len(b) = 5 /\ Signed32(b, 2) = v
  BY <1>2, OpcodeAndWord
<1> HIDE DEF b
<1>4. Decode(b) = DecodeAt(b, 1) /\ At(b, 1) = op
  BY <1>2, <1>3, AloneRead
<1>5. DecodeAt(b, 1) = Instr("call", NoOperand, Imm(Signed32(b, 2)), 5)
  BY <1>1, <1>4, NarrowImmedOpcodes, SMT
<1>6. Reads(b, "call", NoOperand, Imm(v))
  BY <1>3, <1>4, <1>5, SMT DEF Reads
<1> QED
  BY <1>1, <1>6, SMT DEF b

LEMMA PushWordRead ==
  ASSUME NEW v \in Ints
  PROVE  Reads(<< \h68 >> \o Le32(v), "push", NoOperand, Imm(v))
<1>1. PICK op : op = \h68
  BY SMT
<1>2. op \in Opcodes
  BY <1>1, SMT DEF Opcodes, Byte
<1> DEFINE b == << op >> \o Le32(v)
<1>3. Starts(b, 0, op) /\ Len(b) = 5 /\ Signed32(b, 2) = v
  BY <1>2, OpcodeAndWord
<1> HIDE DEF b
<1>4. Decode(b) = DecodeAt(b, 1) /\ At(b, 1) = op
  BY <1>2, <1>3, AloneRead
<1>5. DecodeAt(b, 1) = Instr("push", NoOperand, Imm(Signed32(b, 2)), 5)
  BY <1>1, <1>4, NarrowImmedOpcodes, SMT
<1>6. Reads(b, "push", NoOperand, Imm(v))
  BY <1>3, <1>4, <1>5, SMT DEF Reads
<1> QED
  BY <1>1, <1>6, SMT DEF b

LEMMA PushByteRead ==
  ASSUME NEW v \in Int, -127 <= v, v <= 127
  PROVE  Reads(<< \h6A >> \o << v % 256 >>, "push", NoOperand, Imm(v))
<1>1. PICK op : op = \h6A
  BY SMT
<1>2. op \in Opcodes /\ op \in Byte
  BY <1>1, SMT DEF Opcodes, Byte
<1> DEFINE e == v % 256
           b == << op >> \o << e >>
<1>3. e \in Byte /\ v = IF e < 128 THEN e ELSE e - 256
  BY Byte8
<1> HIDE DEF e
<1>4. b \in Seq(Byte) /\ Len(b) = 2 /\ b[1] = op /\ b[2] = e
  BY <1>2, <1>3, SMT
<1> HIDE DEF b
<1>5. Starts(b, 0, op)
  BY <1>4, SMT DEF Starts, OpcodePlace
<1>6. Signed8(b, 2) = v
  BY <1>3, <1>4, SMT DEF Signed8, At
<1>7. Decode(b) = DecodeAt(b, 1) /\ At(b, 1) = op
  BY <1>2, <1>5, AloneRead
<1>8. DecodeAt(b, 1) = Instr("push", NoOperand, Imm(Signed8(b, 2)), 2)
  BY <1>1, <1>7, NarrowImmedOpcodes, SMT
<1>9. Reads(b, "push", NoOperand, Imm(v))
  BY <1>4, <1>6, <1>7, <1>8, SMT DEF Reads
<1> QED
  BY <1>1, <1>9, SMT DEF b, e

LEMMA RetFormRead == Reads(<< \hC3 >>, "ret", NoOperand, NoOperand)
<1>1. PICK op : op = \hC3
  BY SMT
<1>2. op \in Opcodes
  BY <1>1, SMT DEF Opcodes, Byte
<1> DEFINE b == << op >>
<1>3. Starts(b, 0, op) /\ Len(b) = 1
  BY <1>2, SMT DEF Starts, OpcodePlace, Opcodes
<1> HIDE DEF b
<1>4. Decode(b) = DecodeAt(b, 1) /\ At(b, 1) = op
  BY <1>2, <1>3, AloneRead
<1>5. DecodeAt(b, 1) = Instr("ret", NoOperand, NoOperand, 1)
  BY <1>1, <1>4, NarrowImmedOpcodes, SMT
<1>6. Reads(b, "ret", NoOperand, NoOperand)
  BY <1>3, <1>4, <1>5, SMT DEF Reads
<1> QED
  BY <1>1, <1>6, SMT DEF b

-----------------------------------------------------------------------------
(* The request.                                                            *)

HighBit(r) == IF IsHigh(r) THEN 8 ELSE 0

LEMMA RegisterSplit ==
  ASSUME NEW r \in Registers
  PROVE  /\ Low(r) \in Octal /\ Low(r) # INVALID_REG /\ r # INVALID_REG
         /\ HighBit(r) \in {0, 8}
         /\ IsHigh(r) => r - 2 = Low(r) + HighBit(r)
         /\ ~IsHigh(r) => r = Low(r) + HighBit(r) /\ Low(r) = r
<1>1. r \in Int /\ (r \in 0..7 \/ r \in 10..17)
  BY SMT DEF Registers, RDI, R8, R15
<1> QED
  BY <1>1, SMT DEF Low, IsHigh, HighBit, INVALID_REG, RDI, R8, Octal

LEMMA NoRegister == ~IsHigh(INVALID_REG) /\ Low(INVALID_REG) = INVALID_REG
BY SMT DEF Low, IsHigh, INVALID_REG

LEMMA OperandNames ==
  ASSUME NEW r \in Registers
  PROVE  /\ TheReg(r) = Reg(Low(r) + HighBit(r))
         /\ Mem(TheReg(r).reg) = Mem(Low(r) + HighBit(r))
<1>1. TheReg(r) = Reg(Low(r) + HighBit(r))
  <2>1. CASE IsHigh(r)
    BY <2>1, RegisterSplit, SMT DEF TheReg
  <2>2. CASE ~IsHigh(r)
    BY <2>2, RegisterSplit, SMT DEF TheReg
  <2> QED
    BY <2>1, <2>2
<1>2. Reg(Low(r) + HighBit(r)).reg = Low(r) + HighBit(r)
  BY SMT DEF Reg
<1> QED
  BY <1>1, <1>2, Zenon

LEMMA Fields ==
  ASSUME NEW info \in Infos(Ints)
  PROVE  /\ info.cmd_encode \in {MOV, ADD, SUB, MUL, DIV, PUSH, POP, CALL, RET}
         /\ info.dest_reg # INVALID_REG => info.dest_reg \in Registers
         /\ info.src_reg # INVALID_REG => info.src_reg \in Registers
         /\ info.immed_val \in Ints
         /\ info.use_memory4dest \in BOOLEAN /\ info.use_memory4src \in BOOLEAN
         /\ info.cmd_encode \in {MUL, DIV} => info.dest_reg # INVALID_REG
BY SMT DEF Infos, TwoOperandCmds

(* The bytes are the instruction asked for.                                *)
Right(info) ==
  \E op : /\ SameOp(op, Intended(info)[1], Intended(info)[3])
          /\ Reads(encode_cmd(info), op, Intended(info)[2], Intended(info)[3])

LEMMA RightBy ==
  ASSUME NEW info, NEW op, NEW w, NEW dst, NEW src, NEW b,
         encode_cmd(info) = b, Reads(b, op, dst, src),
         Intended(info) = << w, dst, src >>, SameOp(op, w, src)
  PROVE  Right(info)
<1>1. Intended(info)[1] = w /\ Intended(info)[2] = dst /\ Intended(info)[3] = src
  BY SMT
<1> QED
  BY <1>1, Zenon DEF Right

LEMMA ThreeJoined ==
  ASSUME NEW p \in Byte, NEW op \in Byte, NEW m \in Byte
  PROVE  << p >> \o << op >> \o << m >> = << p, op, m >>
<1> DEFINE s == << p >> \o << op >> \o << m >>
           t == << p, op, m >>
<1>1. s \in Seq(Byte) /\ Len(s) = 3 /\ s[1] = p /\ s[2] = op /\ s[3] = m
  BY SMT
<1>2. t \in Seq(Byte) /\ Len(t) = 3 /\ t[1] = p /\ t[2] = op /\ t[3] = m
  BY SMT
<1> HIDE DEF s, t
<1>3. \A k \in 1 .. 3 : s[k] = t[k]
  BY <1>1, <1>2, SMT
<1>4. s = t
  BY <1>1, <1>2, <1>3, SeqEqual, SMT
<1> QED
  BY <1>4 DEF s, t

(* The prefix of a 64-bit operation whose source, if any, is in reg.       *)
LEMMA WidePrefix ==
  ASSUME NEW info, Wide(info), ~(IsHigh(info.dest_reg) /\ IsHigh(info.src_reg))
  PROVE  \E p \in WideRexBytes :
           /\ Prefix(info) = << p >>
           /\ HighRm(p) = HighBit(info.dest_reg) /\ HighReg(p) = HighBit(info.src_reg)
           /\ ~IsHigh(info.dest_reg) /\ ~IsHigh(info.src_reg) => p = \h48
<1>1. CASE IsHigh(info.src_reg)
  <2>1. Prefix(info) = << \h4C >>
    BY <1>1, Zenon DEF Prefix
  <2>2. \h4C \in WideRexBytes /\ HighRm(\h4C) = 0 /\ HighReg(\h4C) = 8
    BY SMT DEF WideRexBytes, HighRm, HighReg
  <2> QED
    BY <1>1, <2>1, <2>2, SMT DEF HighBit
<1>2. CASE ~IsHigh(info.src_reg) /\ IsHigh(info.dest_reg)
  <2>1. Prefix(info) = << \h49 >>
    BY <1>2, Zenon DEF Prefix
  <2>2. \h49 \in WideRexBytes /\ HighRm(\h49) = 8 /\ HighReg(\h49) = 0
    BY SMT DEF WideRexBytes, HighRm, HighReg
  <2> QED
    BY <1>2, <2>1, <2>2, SMT DEF HighBit
<1>3. CASE ~IsHigh(info.src_reg) /\ ~IsHigh(info.dest_reg)
  <2>1. Prefix(info) = << \h48 >>
    BY <1>3, Zenon DEF Prefix
  <2>2. \h48 \in WideRexBytes /\ HighRm(\h48) = 0 /\ HighReg(\h48) = 0
    BY SMT DEF WideRexBytes, HighRm, HighReg
  <2> QED
    BY <1>3, <2>1, <2>2, SMT DEF HighBit
<1> QED
  BY <1>1, <1>2, <1>3

(* The ModR/M byte names the operand that was asked for.                   *)
LEMMA NamesRegister ==
  ASSUME NEW reg \in Registers, NEW r \in Octal, NEW p, HighRm(p) = HighBit(reg),
         NEW memory \in BOOLEAN, memory => ~NeedsMore(reg),
         NEW mod, mod = IF memory THEN 0 ELSE \hC0,
         NEW m, m = mod + 8 * r + Low(reg)
  PROVE  NamesOperands(p, m, TheRm(reg, memory), r)
<1> DEFINE d == Low(reg)
<1>1. d \in Octal
  BY RegisterSplit
<1>2. mod \in Mods /\ (mod = 0 <=> memory)
  BY SMT DEF Mods
<1>3. mod = 0 => d # 4 /\ d # 5
  BY <1>2, SMT DEF NeedsMore
<1>4. RmOperandOf(p, mod, d) = TheRm(reg, memory)
  <2>1. CASE memory
    BY <1>2, <2>1, OperandNames, Zenon DEF RmOperandOf, TheRm
  <2>2. CASE ~memory
    BY <1>2, <2>2, OperandNames, Zenon DEF RmOperandOf, TheRm
  <2> QED
    BY <2>1, <2>2
<1>6. m = mod + 8 * r + d
  OBVIOUS
<1> HIDE DEF d
<1>5. NamesOperands(p, m, RmOperandOf(p, mod, d), r)
  BY <1>1, <1>2, <1>3, <1>6, RmRead, Zenon
<1> QED
  BY <1>4, <1>5, Zenon

LEMMA Distinct ==
  /\ {MOV, ADD, SUB} \cap {MUL, DIV, PUSH, POP, CALL, RET} = {}
  /\ {MUL, DIV} \cap {PUSH, POP, CALL, RET} = {}
  /\ MOV # ADD /\ MOV # SUB /\ ADD # SUB /\ MUL # DIV
  /\ PUSH # POP /\ PUSH # CALL /\ PUSH # RET /\ POP # CALL /\ POP # RET /\ CALL # RET
BY SMT DEF MOV, ADD, SUB, MUL, DIV, PUSH, POP, CALL, RET

LEMMA Dispatch ==
  ASSUME NEW info
  PROVE  /\ info.cmd_encode = MOV => encode_cmd(info) = encode_mov(info)
         /\ info.cmd_encode \in {ADD, SUB, MUL, DIV} => encode_cmd(info) = encode_add_sub_mul_div(info)
         /\ info.cmd_encode \in {PUSH, POP} => encode_cmd(info) = encode_pop_push(info)
         /\ info.cmd_encode = CALL => encode_cmd(info) = encode_call(info)
         /\ info.cmd_encode = RET => encode_cmd(info) = encode_ret
<1>1. /\ MOV \in TwoOperandCmds /\ {ADD, SUB, MUL, DIV} \subseteq TwoOperandCmds
      /\ MOV \notin {ADD, SUB, MUL, DIV} /\ {PUSH, POP, CALL, RET} \cap TwoOperandCmds = {}
      /\ CALL \notin {PUSH, POP} /\ RET \notin {PUSH, POP} /\ CALL # RET
  BY SMT DEF TwoOperandCmds, MOV, ADD, SUB, MUL, DIV, PUSH, POP, CALL, RET
<1> QED
  BY <1>1, Zenon DEF encode_cmd, encode_two_operands_cmds

(* Where the two operands of mov, add and sub go.                          *)
LEMMA Operands ==
  ASSUME NEW info \in Infos(Ints), info.cmd_encode \in {MOV, ADD, SUB}
  PROVE  /\ info.use_memory4src =>
              /\ RmOperand(info) = Low(info.src_reg) /\ RegOperand(info) = Low(info.dest_reg)
              /\ ~info.use_memory4dest => DirectionBit(info) = 2 /\ Mod(info) = 0
         /\ ~info.use_memory4src =>
              /\ RmOperand(info) = Low(info.dest_reg) /\ RegOperand(info) = Low(info.src_reg)
              /\ DirectionBit(info) = 0
              /\ Mod(info) = IF info.use_memory4dest THEN 0 ELSE \hC0
<1>1. info.cmd_encode \notin {MUL, DIV}
  BY SMT DEF MOV, ADD, SUB, MUL, DIV
<1>2. info.use_memory4dest \in BOOLEAN /\ info.use_memory4src \in BOOLEAN
  BY Fields
<1>3. Exchanged(info) <=> info.use_memory4src
  BY <1>1, <1>2, Zenon DEF Exchanged
<1>4. CASE info.use_memory4src
  <2>1. RmOperand(info) = Low(info.src_reg) /\ RegOperand(info) = Low(info.dest_reg)
    BY <1>3, <1>4, Zenon DEF RmOperand, RegOperand
  <2>2. ~info.use_memory4dest => DirectionBit(info) = 2 /\ Mod(info) = 0
    BY <1>2, <1>4, Zenon DEF DirectionBit, Mod
  <2> QED
    BY <1>4, <2>1, <2>2
<1>5. CASE ~info.use_memory4src
  <2>1. RmOperand(info) = Low(info.dest_reg) /\ RegOperand(info) = Low(info.src_reg)
    BY <1>3, <1>5, Zenon DEF RmOperand, RegOperand
  <2>2. DirectionBit(info) = 0
    BY <1>5, Zenon DEF DirectionBit
  <2>3. Mod(info) = IF info.use_memory4dest THEN 0 ELSE \hC0
    <3>1. (info.use_memory4dest # info.use_memory4src) <=> info.use_memory4dest
      BY <1>2, <1>5, Zenon
    <3> QED
      BY <3>1, Zenon DEF Mod
  <2> QED
    BY <1>5, <2>1, <2>2, <2>3
<1> QED
  BY <1>4, <1>5

OpcodeOf(cmd_encode) == IF cmd_encode = MOV THEN \h89 ELSE IF cmd_encode = ADD THEN \h01 ELSE \h29

(* The bytes of a command with two registers.                              *)
LEMMA TwoRegisterBytes ==
  ASSUME NEW info \in Infos(Ints), info.cmd_encode \in {MOV, ADD, SUB},
         RmOperand(info) # INVALID_REG, RegOperand(info) # INVALID_REG
  PROVE  encode_cmd(info) =
           Prefix(info) \o << OpcodeOf(info.cmd_encode) + DirectionBit(info) >>
             \o << Mod(info) + 8 * RegOperand(info) + RmOperand(info) >>
<1>1. MOV \notin {ADD, SUB, MUL, DIV} /\ ADD # SUB /\ ADD \notin {MUL, DIV} /\ SUB \notin {MUL, DIV}
  BY SMT DEF MOV, ADD, SUB, MUL, DIV
<1>2. CASE info.cmd_encode = MOV
  <2>1. encode_cmd(info) = encode_mov(info) /\ OpcodeOf(info.cmd_encode) = \h89
    BY <1>2, Dispatch, Zenon DEF OpcodeOf
  <2>2. encode_mov(info) = Prefix(info) \o << \h89 + DirectionBit(info) >> \o ModRm(info, 8 * RegOperand(info))
    BY SMT DEF encode_mov
  <2> QED
    BY <2>1, <2>2, SMT DEF ModRm
<1>3. CASE info.cmd_encode \in {ADD, SUB}
  <2>1. /\ encode_cmd(info) = encode_add_sub_mul_div(info) /\ info.cmd_encode \notin {MUL, DIV}
        /\ OpcodeOf(info.cmd_encode) = IF info.cmd_encode = ADD THEN \h01 ELSE \h29
    BY <1>1, <1>3, Dispatch, Zenon DEF OpcodeOf
  <2>2. encode_add_sub_mul_div(info) =
          Prefix(info) \o << (IF info.cmd_encode = ADD THEN \h01 ELSE \h29) + DirectionBit(info) >>
            \o ModRm(info, 8 * RegOperand(info))
    BY <2>1, SMT DEF encode_add_sub_mul_div
  <2> QED
    BY <2>1, <2>2, SMT DEF ModRm
<1> QED
  BY <1>2, <1>3

LEMMA OpcodesOf ==
  ASSUME NEW cmd_encode \in {MOV, ADD, SUB}
  PROVE  /\ OpcodeOf(cmd_encode) \in Byte /\ OpcodeOf(cmd_encode) + 2 \in Byte
         /\ OpcodeOf(cmd_encode) + 0 = OpcodeOf(cmd_encode)
         /\ cmd_encode = MOV => OpcodeOf(cmd_encode) = \h89 /\ Names[cmd_encode] = "mov"
         /\ cmd_encode = ADD => OpcodeOf(cmd_encode) = \h01 /\ Names[cmd_encode] = "add"
         /\ cmd_encode = SUB => OpcodeOf(cmd_encode) = \h29 /\ Names[cmd_encode] = "sub"
<1>1. MOV # ADD /\ MOV # SUB /\ ADD # SUB
  BY SMT DEF MOV, ADD, SUB
<1>2. /\ cmd_encode = MOV => OpcodeOf(cmd_encode) = \h89
      /\ cmd_encode = ADD => OpcodeOf(cmd_encode) = \h01
      /\ cmd_encode = SUB => OpcodeOf(cmd_encode) = \h29
  BY <1>1, SMT DEF OpcodeOf
<1>3. Names[MOV] = "mov" /\ Names[ADD] = "add" /\ Names[SUB] = "sub"
  BY SMT DEF Names, MOV, ADD, SUB
<1> QED
  BY <1>2, <1>3, SMT DEF Byte

LEMMA IntendedTwo ==
  ASSUME NEW info \in Infos(Ints), info.cmd_encode \in {MOV, ADD, SUB}
  PROVE  /\ HasSrc(info) =>
              Intended(info) = << Names[info.cmd_encode], TheRm(info.dest_reg, info.use_memory4dest),
                                  TheRm(info.src_reg, info.use_memory4src) >>
         /\ ~HasSrc(info) =>
              Intended(info) = << Names[info.cmd_encode], TheRm(info.dest_reg, info.use_memory4dest),
                                  Imm(info.immed_val) >>
<1>1. /\ info.cmd_encode \notin {MUL, DIV} /\ info.cmd_encode # PUSH /\ info.cmd_encode # POP
      /\ info.cmd_encode # CALL /\ info.cmd_encode # RET
  BY Distinct, Zenon
<1> QED
  BY <1>1, Zenon DEF Intended

(* dest <- dest op src, neither exchanged.                                 *)
LEMMA TwoRegistersRight ==
  ASSUME NEW info \in Infos(Ints), info.cmd_encode \in {MOV, ADD, SUB}, HasDest(info), HasSrc(info),
         ~info.use_memory4src, ~(IsHigh(info.dest_reg) /\ IsHigh(info.src_reg)),
         info.use_memory4dest => ~NeedsMore(info.dest_reg)
  PROVE  Right(info)
<1> DEFINE dest == info.dest_reg
           src  == info.src_reg
           rm   == TheRm(dest, info.use_memory4dest)
           reg  == TheRm(src, info.use_memory4src)
           op   == OpcodeOf(info.cmd_encode)
           mod  == Mod(info)
           name == Names[info.cmd_encode]
<1>1. dest \in Registers /\ src \in Registers /\ info.use_memory4dest \in BOOLEAN
  BY Fields, Zenon DEF HasDest, HasSrc
<1>2. /\ RmOperand(info) = Low(dest) /\ RegOperand(info) = Low(src) /\ DirectionBit(info) = 0
      /\ mod = IF info.use_memory4dest THEN 0 ELSE \hC0
  BY Operands
<1>3. Low(dest) # INVALID_REG /\ Low(src) # INVALID_REG /\ Low(src) \in Octal
  BY <1>1, RegisterSplit
<1>4. Wide(info)
  BY SMT DEF Wide, HasSrc
<1>5. PICK p \in WideRexBytes : Prefix(info) = << p >> /\ HighRm(p) = HighBit(dest) /\ HighReg(p) = HighBit(src)
  BY <1>4, WidePrefix
<1>m. PICK m : m = mod + 8 * Low(src) + Low(dest)
  BY Zenon
<1>6. NamesOperands(p, m, rm, Low(src))
  <2>1. info.use_memory4dest => ~NeedsMore(dest)
    OBVIOUS
  <2>2. mod = IF info.use_memory4dest THEN 0 ELSE \hC0
    BY <1>2
  <2> HIDE DEF dest, src, mod
  <2>3. NamesOperands(p, m, TheRm(dest, info.use_memory4dest), Low(src))
    BY <1>m, <1>1, <1>3, <1>5, <2>1, <2>2, NamesRegister, ZenonT(40)
  <2> QED
    BY <2>3
<1>7. reg = Reg(Low(src) + HighReg(p))
  <2>1. reg = TheReg(src)
    BY Zenon DEF TheRm
  <2> QED
    BY <1>1, <1>5, <2>1, OperandNames, Zenon
<1>8. op \in Byte /\ op + 0 = op /\ p \in Byte /\ m \in Byte
  <2>1. p \in Byte
    BY SMT DEF WideRexBytes, Byte
  <2>2. m \in Byte
    BY <1>6, Zenon DEF NamesOperands
  <2> QED
    BY <2>1, <2>2, OpcodesOf
<1>9. encode_cmd(info) = << p, op, m >>
  <2>1. encode_cmd(info) =
          Prefix(info) \o << OpcodeOf(info.cmd_encode) + DirectionBit(info) >>
            \o << Mod(info) + 8 * RegOperand(info) + RmOperand(info) >>
    BY <1>2, <1>3, TwoRegisterBytes, Zenon
  <2>2. encode_cmd(info) = << p >> \o << op + 0 >> \o << m >>
    BY <1>m, <1>2, <1>5, <2>1, Zenon
  <2> QED
    BY <1>8, <2>2, ThreeJoined, Zenon
<1>10. Intended(info) = << name, rm, reg >>
  BY IntendedTwo, Zenon
<1> HIDE DEF dest, src, rm, reg, mod
<1>11. Reads(<< p, op, m >>, name, rm, reg)
  <2> DEFINE b == << p, op, m >>
  <2>1. /\ op = \h01 => Reads(b, "add", rm, reg)
        /\ op = \h29 => Reads(b, "sub", rm, reg)
        /\ op = \h89 => Reads(b, "mov", rm, reg)
    BY <1>6, <1>7, <1>8, FormRead
  <2> HIDE DEF b
  <2>2. Reads(b, name, rm, reg)
    BY <2>1, OpcodesOf, SMT
  <2> QED
    BY <2>2 DEF b
<1> QED
  BY <1>9, <1>10, <1>11, RightBy DEF SameOp

(* reg <- reg op [src].                                                    *)
LEMMA FromMemoryRight ==
  ASSUME NEW info \in Infos(Ints), info.cmd_encode \in {MOV, ADD, SUB}, HasDest(info), HasSrc(info),
         info.use_memory4src, ~info.use_memory4dest,
         ~IsHigh(info.dest_reg), ~IsHigh(info.src_reg), ~NeedsMore(info.src_reg)
  PROVE  Right(info)
<1> DEFINE dest == info.dest_reg
           src  == info.src_reg
           rm   == TheRm(src, info.use_memory4src)
           reg  == TheRm(dest, info.use_memory4dest)
           op   == OpcodeOf(info.cmd_encode) + 2
           mod  == Mod(info)
           name == Names[info.cmd_encode]
<1>1. dest \in Registers /\ src \in Registers /\ info.use_memory4src \in BOOLEAN
  BY Fields, Zenon DEF HasDest, HasSrc
<1>2. /\ RmOperand(info) = Low(src) /\ RegOperand(info) = Low(dest) /\ DirectionBit(info) = 2
      /\ mod = IF info.use_memory4src THEN 0 ELSE \hC0
  BY Operands
<1>3. Low(dest) # INVALID_REG /\ Low(src) # INVALID_REG /\ Low(dest) \in Octal
  BY <1>1, RegisterSplit
<1>4. Wide(info)
  BY SMT DEF Wide, HasSrc
<1>5. PICK p \in WideRexBytes : Prefix(info) = << p >> /\ HighRm(p) = HighBit(dest) /\ HighReg(p) = HighBit(src)
  BY <1>4, WidePrefix
<1>6. HighBit(dest) = 0 /\ HighBit(src) = 0
  BY SMT DEF HighBit
<1>m. PICK m : m = mod + 8 * Low(dest) + Low(src)
  BY Zenon
<1>7. NamesOperands(p, m, rm, Low(dest))
  <2>1. HighRm(p) = HighBit(src)
    BY <1>5, <1>6
  <2> QED
    BY <1>m, <1>1, <1>2, <1>3, <2>1, NamesRegister, Zenon
<1>8. reg = Reg(Low(dest) + HighReg(p))
  <2>1. reg = TheReg(dest)
    BY Zenon DEF TheRm
  <2>2. HighReg(p) = HighBit(dest)
    BY <1>5, <1>6
  <2> QED
    BY <1>1, <2>1, <2>2, OperandNames, Zenon
<1>9. op \in Byte /\ p \in Byte /\ m \in Byte
  <2>1. p \in Byte
    BY SMT DEF WideRexBytes, Byte
  <2>2. m \in Byte
    BY <1>7, Zenon DEF NamesOperands
  <2> QED
    BY <2>1, <2>2, OpcodesOf
<1>10. encode_cmd(info) = << p, op, m >>
  <2>1. encode_cmd(info) =
          Prefix(info) \o << OpcodeOf(info.cmd_encode) + DirectionBit(info) >>
            \o << Mod(info) + 8 * RegOperand(info) + RmOperand(info) >>
    BY <1>2, <1>3, TwoRegisterBytes, Zenon
  <2>2. encode_cmd(info) = << p >> \o << op >> \o << m >>
    BY <1>m, <1>2, <1>5, <2>1, Zenon
  <2> QED
    BY <1>9, <2>2, ThreeJoined, Zenon
<1>11. Intended(info) = << name, reg, rm >>
  BY IntendedTwo, Zenon
<1>12. /\ info.cmd_encode = MOV => op = \h8B /\ name = "mov"
       /\ info.cmd_encode = ADD => op = \h03 /\ name = "add"
       /\ info.cmd_encode = SUB => op = \h2B /\ name = "sub"
  BY OpcodesOf, SMT
<1> HIDE DEF dest, src, rm, reg, mod, op, name
<1>13. Reads(<< p, op, m >>, name, reg, rm)
  <2> DEFINE b == << p, op, m >>
  <2>1. /\ op = \h03 => Reads(b, "add", reg, rm)
        /\ op = \h2B => Reads(b, "sub", reg, rm)
        /\ op = \h8B => Reads(b, "mov", reg, rm)
    BY <1>7, <1>8, <1>9, FormRead
  <2> HIDE DEF b
  <2>2. Reads(b, name, reg, rm)
    BY <1>12, <2>1, SMT
  <2> QED
    BY <2>2 DEF b
<1> QED
  BY <1>10, <1>11, <1>13, RightBy DEF SameOp

-----------------------------------------------------------------------------
(* Add and sub of an immediate.                                            *)

LEMMA FourJoined ==
  ASSUME NEW p \in Byte, NEW op \in Byte, NEW m \in Byte, NEW e \in Byte
  PROVE  << p, op, m >> \o << e >> = << p, op, m, e >>
<1> DEFINE s == << p, op, m >> \o << e >>
           t == << p, op, m, e >>
<1>1. s \in Seq(Byte) /\ Len(s) = 4 /\ s[1] = p /\ s[2] = op /\ s[3] = m /\ s[4] = e
  BY SMT
<1>2. t \in Seq(Byte) /\ Len(t) = 4 /\ t[1] = p /\ t[2] = op /\ t[3] = m /\ t[4] = e
  BY SMT
<1> HIDE DEF s, t
<1>3. \A k \in 1 .. 4 : s[k] = t[k]
  BY <1>1, <1>2, SMT
<1>4. s = t
  BY <1>1, <1>2, <1>3, SeqEqual, SMT
<1> QED
  BY <1>4 DEF s, t

(* ModR/M.reg of the group of an instruction with an immediate.            *)
GroupOf(cmd_encode) == IF cmd_encode = SUB THEN 5 ELSE 0

AddOpcode(v) == IF get_sizeof_number2write(v) = 1 THEN \h83 ELSE \h81

LEMMA GroupsOf ==
  ASSUME NEW cmd_encode \in {ADD, SUB}
  PROVE  /\ GroupOf(cmd_encode) \in Octal
         /\ 8 * GroupOf(cmd_encode) = IF cmd_encode = SUB THEN \h28 ELSE 0
         /\ cmd_encode = ADD => GroupOf(cmd_encode) = 0 /\ Names[cmd_encode] = "add"
         /\ cmd_encode = SUB => GroupOf(cmd_encode) = 5 /\ Names[cmd_encode] = "sub"
<1>1. ADD # SUB
  BY SMT DEF ADD, SUB
<1>2. cmd_encode = ADD \/ cmd_encode = SUB
  OBVIOUS
<1>3. Names[ADD] = "add" /\ Names[SUB] = "sub"
  BY SMT DEF Names, ADD, SUB
<1>4. /\ cmd_encode = ADD => GroupOf(cmd_encode) = 0
      /\ cmd_encode = SUB => GroupOf(cmd_encode) = 5
  BY <1>1, SMT DEF GroupOf
<1> QED
  BY <1>1, <1>2, <1>3, <1>4, SMT DEF Octal

(* The head of the instruction and the immediate behind it.                *)
LEMMA AddImmediateBytes ==
  ASSUME NEW info \in Infos(Ints), info.cmd_encode \in {ADD, SUB},
         RmOperand(info) # INVALID_REG, RegOperand(info) = INVALID_REG
  PROVE  encode_cmd(info) =
           Prefix(info)
             \o << AddOpcode(info.immed_val) >>
             \o << Mod(info) + 8 * GroupOf(info.cmd_encode) + RmOperand(info) >>
             \o NumberBytes(info.immed_val)
<1>1. info.cmd_encode \notin {MUL, DIV} /\ encode_cmd(info) = encode_add_sub_mul_div(info)
  BY Distinct, Dispatch, Zenon
<1>2. 8 * GroupOf(info.cmd_encode) = IF info.cmd_encode = SUB THEN \h28 ELSE 0
  BY GroupsOf
<1>3. encode_add_sub_mul_div(info) =
        Prefix(info)
          \o << IF get_sizeof_number2write(info.immed_val) = 1 THEN \h83 ELSE \h81 >>
          \o ModRm(info, IF info.cmd_encode = SUB THEN \h28 ELSE 0)
          \o NumberBytes(info.immed_val)
  BY <1>1, SMT DEF encode_add_sub_mul_div
<1> QED
  BY <1>1, <1>2, <1>3, SMT DEF ModRm, AddOpcode

(* What those bytes are.                                                   *)
LEMMA AddImmediateRead ==
  ASSUME NEW p \in WideRexBytes, NEW m, NEW rm, NEW r, NamesOperands(p, m, rm, r), NEW v \in Ints,
         NEW op, op = AddOpcode(v)
  PROVE  LET b == << p >> \o << op >> \o << m >> \o NumberBytes(v)
         IN  /\ r = 0 => Reads(b, "add", rm, Imm(v))
             /\ r = 5 => Reads(b, "sub", rm, Imm(v))
<1>1. m \in Byte /\ p \in Byte /\ op \in Byte
  <2>1. p \in Byte
    BY SMT DEF WideRexBytes, Byte
  <2>2. m \in Byte
    BY Zenon DEF NamesOperands
  <2>3. op \in Byte
    BY SMT DEF Byte, AddOpcode
  <2> QED
    BY <2>1, <2>2, <2>3
<1>2. << p >> \o << op >> \o << m >> = << p, op, m >>
  BY <1>1, ThreeJoined, Zenon
<1>3. CASE get_sizeof_number2write(v) = 1
  <2> DEFINE e == v % 256
             b == << p, op, m, e >>
  <2>1. v \in Int /\ -127 <= v /\ v <= 127
    <3>1. v \in Int
      BY ValueRange
    <3> QED
      BY <1>3, <3>1, SMT DEF get_sizeof_number2write, ASCII_MAX_SYMBOL
  <2>2. e \in Byte
    BY <2>1, Byte8
  <2>3. Begins(b, p, op, m) /\ Len(b) = 4 /\ Signed8(b, 4) = v
    BY <1>1, <2>1, ByteForm
  <2>4. NumberBytes(v) = << e >>
    BY <1>3, Zenon DEF NumberBytes
  <2>5. << p >> \o << op >> \o << m >> \o NumberBytes(v) = b
    <3> HIDE DEF e
    <3>1. << p, op, m >> \o << e >> = << p, op, m, e >>
      BY <1>1, <2>2, FourJoined
    <3>2. << p >> \o << op >> \o << m >> \o NumberBytes(v) = << p, op, m >> \o << e >>
      BY <1>2, <2>4
    <3> QED
      BY <3>1, <3>2 DEF b
  <2> HIDE DEF b
  <2>6. op = \h83
    BY <1>3 DEF AddOpcode
  <2>7. /\ r = 0 => Reads(b, "add", rm, Imm(v))
        /\ r = 5 => Reads(b, "sub", rm, Imm(v))
    BY <2>3, <2>6, ImmedFormRead, SMT
  <2> QED
    BY <2>5, <2>7, Zenon
<1>4. CASE get_sizeof_number2write(v) # 1
  <2> DEFINE b == << p, op, m >> \o Le32(v)
  <2>1. Begins(b, p, op, m) /\ Len(b) = 7 /\ Signed32(b, 4) = v
    BY <1>1, WordForm
  <2>2. NumberBytes(v) = Le32(v)
    BY <1>4, Zenon DEF NumberBytes
  <2>3. << p >> \o << op >> \o << m >> \o NumberBytes(v) = b
    BY <1>2, <2>2, Zenon DEF b
  <2> HIDE DEF b
  <2>4. op = \h81
    BY <1>4 DEF AddOpcode
  <2>5. /\ r = 0 => Reads(b, "add", rm, Imm(v))
        /\ r = 5 => Reads(b, "sub", rm, Imm(v))
    BY <2>1, <2>4, ImmedFormRead, SMT
  <2> QED
    BY <2>3, <2>5, Zenon
<1> QED
  BY <1>3, <1>4

LEMMA NoHighSource ==
  ASSUME NEW info, ~HasSrc(info)
  PROVE  ~IsHigh(info.src_reg) /\ Low(info.src_reg) = INVALID_REG /\ HighBit(info.src_reg) = 0
<1>1. info.src_reg = INVALID_REG
  BY DEF HasSrc
<1> QED
  BY <1>1, NoRegister, Zenon DEF HighBit

LEMMA AddImmediateRight ==
  ASSUME NEW info \in Infos(Ints), info.cmd_encode \in {ADD, SUB}, HasDest(info), ~HasSrc(info),
         ~info.use_memory4src, info.use_memory4dest => ~NeedsMore(info.dest_reg)
  PROVE  Right(info)
<1> DEFINE dest == info.dest_reg
           rm   == TheRm(dest, info.use_memory4dest)
           v    == info.immed_val
           r    == GroupOf(info.cmd_encode)
           mod  == Mod(info)
           name == Names[info.cmd_encode]
<1>1. dest \in Registers /\ v \in Ints /\ info.use_memory4dest \in BOOLEAN
  BY Fields, Zenon DEF HasDest
<1>2. /\ RmOperand(info) = Low(dest) /\ RegOperand(info) = INVALID_REG
      /\ mod = IF info.use_memory4dest THEN 0 ELSE \hC0
  BY Operands, NoHighSource
<1>3. Low(dest) # INVALID_REG /\ r \in Octal
  BY <1>1, RegisterSplit, GroupsOf
<1>4. Wide(info)
  BY Distinct, Zenon DEF Wide
<1>5. PICK p \in WideRexBytes : Prefix(info) = << p >> /\ HighRm(p) = HighBit(dest)
  BY <1>4, NoHighSource, WidePrefix
<1>6. PICK m : m = mod + 8 * r + Low(dest)
  BY Zenon
<1>7. PICK op : op = AddOpcode(v)
  BY Zenon
<1>8. NamesOperands(p, m, rm, r)
  <2>1. info.use_memory4dest => ~NeedsMore(dest)
    OBVIOUS
  <2> HIDE DEF dest, mod, r
  <2>2. NamesOperands(p, m, TheRm(dest, info.use_memory4dest), r)
    BY <1>1, <1>2, <1>3, <1>5, <1>6, <2>1, NamesRegister, ZenonT(40)
  <2> QED
    BY <2>2
<1> DEFINE b == << p >> \o << op >> \o << m >> \o NumberBytes(v)
<1>9. encode_cmd(info) = b
  <2>1. encode_cmd(info) =
          Prefix(info)
            \o << AddOpcode(info.immed_val) >>
            \o << Mod(info) + 8 * GroupOf(info.cmd_encode) + RmOperand(info) >>
            \o NumberBytes(info.immed_val)
    BY <1>2, <1>3, AddImmediateBytes, Zenon
  <2> QED
    BY <1>2, <1>5, <1>6, <1>7, <2>1, Zenon
<1>10. Intended(info) = << name, rm, Imm(v) >>
  BY IntendedTwo, Zenon
<1>11. (r = 0 /\ name = "add") \/ (r = 5 /\ name = "sub")
  BY GroupsOf
<1> HIDE DEF dest, rm, r, mod, name, v
<1>12. /\ r = 0 => Reads(b, "add", rm, Imm(v))
       /\ r = 5 => Reads(b, "sub", rm, Imm(v))
  BY <1>1, <1>7, <1>8, AddImmediateRead
<1> HIDE DEF b
<1>13. Reads(b, name, rm, Imm(v))
  BY <1>11, <1>12, SMT
<1> QED
  BY <1>9, <1>10, <1>13, RightBy DEF SameOp

-----------------------------------------------------------------------------
(* Mov of an immediate, mul and div.                                       *)

LEMMA TwoJoined ==
  ASSUME NEW p \in Byte, NEW op \in Byte, NEW m \in Byte
  PROVE  << p >> \o << op, m >> = << p, op, m >>
<1> DEFINE s == << p >> \o << op, m >>
           t == << p, op, m >>
<1>1. s \in Seq(Byte) /\ Len(s) = 3 /\ s[1] = p /\ s[2] = op /\ s[3] = m
  BY SMT
<1>2. t \in Seq(Byte) /\ Len(t) = 3 /\ t[1] = p /\ t[2] = op /\ t[3] = m
  BY SMT
<1> HIDE DEF s, t
<1>3. \A k \in 1 .. 3 : s[k] = t[k]
  BY <1>1, <1>2, SMT
<1>4. s = t
  BY <1>1, <1>2, <1>3, SeqEqual, SMT
<1> QED
  BY <1>4 DEF s, t

LEMMA MovImmediateBytes ==
  ASSUME NEW info \in Infos(Ints), info.cmd_encode = MOV, RmOperand(info) # INVALID_REG, RegOperand(info) = INVALID_REG,
         info.immed_val # -1, info.use_memory4dest \in BOOLEAN
  PROVE  /\ info.use_memory4dest =>
              encode_cmd(info) = Prefix(info) \o << \hC7, RmOperand(info) >> \o Le32(info.immed_val)
         /\ ~info.use_memory4dest =>
              encode_cmd(info) = Prefix(info) \o << \hB8 + RmOperand(info) >> \o Le32(info.immed_val)
<1>1. encode_cmd(info) = encode_mov(info)
  BY Dispatch
<1>2. encode_mov(info) =
        IF info.use_memory4dest
        THEN Prefix(info) \o << \hC7, RmOperand(info) >> \o Le32(info.immed_val)
        ELSE Prefix(info) \o << \hB8 + RmOperand(info) >> \o Le32(info.immed_val)
  BY SMT DEF encode_mov
<1> QED
  BY <1>1, <1>2

LEMMA MovToMemoryRight ==
  ASSUME NEW info \in Infos(Ints), info.cmd_encode = MOV, HasDest(info), ~HasSrc(info),
         ~info.use_memory4src, info.use_memory4dest, ~NeedsMore(info.dest_reg),
         info.immed_val # -1
  PROVE  Right(info)
<1> DEFINE dest == info.dest_reg
           rm   == TheRm(dest, info.use_memory4dest)
           v    == info.immed_val
           m    == Low(dest)
<1>1. dest \in Registers /\ v \in Ints /\ info.use_memory4dest \in BOOLEAN
  BY Fields, Zenon DEF HasDest
<1>2. RmOperand(info) = m /\ RegOperand(info) = INVALID_REG
  BY Operands, NoHighSource
<1>3. m # INVALID_REG /\ m \in Octal
  BY <1>1, RegisterSplit
<1>4. Wide(info)
  BY Zenon DEF Wide
<1>5. PICK p \in WideRexBytes : Prefix(info) = << p >> /\ HighRm(p) = HighBit(dest)
  BY <1>4, NoHighSource, WidePrefix
<1>6. PICK op : op = \hC7
  BY SMT
<1>7. NamesOperands(p, m, rm, 0)
  <2>1. ~NeedsMore(dest) /\ 0 \in Octal
    BY SMT DEF Octal
  <2>2. m = 0 + 8 * 0 + Low(dest)
    BY <1>3, SMT DEF Octal
  <2> HIDE DEF dest, m
  <2>3. NamesOperands(p, m, TheRm(dest, info.use_memory4dest), 0)
    BY <1>1, <1>5, <2>1, <2>2, NamesRegister, Zenon
  <2> QED
    BY <2>3
<1> DEFINE b == << p, op, m >> \o Le32(v)
<1>8. op \in Byte /\ m \in Byte /\ p \in Byte
  <2>1. p \in Byte
    BY SMT DEF WideRexBytes, Byte
  <2>2. m \in Byte
    BY <1>7, Zenon DEF NamesOperands
  <2>3. op \in Byte
    BY <1>6, SMT DEF Byte
  <2> QED
    BY <2>1, <2>2, <2>3
<1>9. encode_cmd(info) = b
  <2>0. encode_cmd(info) = Prefix(info) \o << \hC7, RmOperand(info) >> \o Le32(info.immed_val)
    BY <1>1, <1>2, <1>3, MovImmediateBytes, Zenon
  <2>1. encode_cmd(info) = << p >> \o << op, m >> \o Le32(v)
    BY <1>2, <1>5, <1>6, <2>0, Zenon
  <2>2. << p >> \o << op, m >> = << p, op, m >>
    BY <1>8, TwoJoined
  <2> QED
    BY <2>1, <2>2
<1>10. Intended(info) = << Names[MOV], rm, Imm(v) >>
  BY IntendedTwo, Zenon
<1>11. Names[MOV] = "mov"
  BY OpcodesOf
<1> HIDE DEF dest, rm, m, v
<1>12. Begins(b, p, op, m) /\ Len(b) = 7 /\ Signed32(b, 4) = v
  BY <1>1, <1>8, WordForm
<1> HIDE DEF b
<1>13. Reads(b, "mov", rm, Imm(v))
  BY <1>6, <1>7, <1>12, ImmedFormRead, SMT
<1> QED
  BY <1>9, <1>10, <1>11, <1>13, RightBy DEF SameOp

(* A prefix 41 or none.                                                    *)
LEMMA NarrowPrefix ==
  ASSUME NEW info, ~Wide(info), ~IsHigh(info.src_reg)
  PROVE  Prefix(info) = HighPrefix(HighBit(info.dest_reg))
<1>1. CASE IsHigh(info.dest_reg)
  <2>1. Prefix(info) = << \h41 >>
    BY <1>1, Zenon DEF Prefix
  <2>2. HighBit(info.dest_reg) = 8
    BY <1>1 DEF HighBit
  <2> QED
    BY <2>1, <2>2 DEF HighPrefix
<1>2. CASE ~IsHigh(info.dest_reg)
  <2>1. Prefix(info) = << >>
    BY <1>2, Zenon DEF Prefix
  <2>2. HighBit(info.dest_reg) = 0
    BY <1>2 DEF HighBit
  <2> QED
    BY <2>1, <2>2, SMT DEF HighPrefix
<1> QED
  BY <1>1, <1>2

LEMMA MovToRegisterRight ==
  ASSUME NEW info \in Infos(Ints), info.cmd_encode = MOV, HasDest(info), ~HasSrc(info),
         ~info.use_memory4src, ~info.use_memory4dest, info.immed_val # -1
  PROVE  Right(info)
<1> DEFINE dest == info.dest_reg
           rm   == TheRm(dest, info.use_memory4dest)
           v    == info.immed_val
           d    == Low(dest)
           h    == HighBit(dest)
<1>1. dest \in Registers /\ v \in Ints /\ info.use_memory4dest \in BOOLEAN
  BY Fields, Zenon DEF HasDest
<1>2. RmOperand(info) = d /\ RegOperand(info) = INVALID_REG
  BY Operands, NoHighSource
<1>3. d # INVALID_REG /\ d \in Octal /\ h \in {0, 8}
  BY <1>1, RegisterSplit
<1>4. ~Wide(info)
  BY Zenon DEF Wide, HasSrc
<1>5. Prefix(info) = HighPrefix(h)
  BY <1>4, NoHighSource, NarrowPrefix
<1> DEFINE b == HighPrefix(h) \o << \hB8 + d >> \o Le32(v)
<1>6. encode_cmd(info) = b
  BY <1>1, <1>2, <1>3, <1>5, MovImmediateBytes
<1>7. rm = Reg(d + h)
  <2>1. rm = TheReg(dest)
    BY Zenon DEF TheRm
  <2> QED
    BY <1>1, <2>1, OperandNames, Zenon
<1>8. Intended(info) = << Names[MOV], rm, Imm(v) >>
  BY IntendedTwo, Zenon
<1>9. Names[MOV] = "mov"
  BY OpcodesOf
<1> HIDE DEF dest, rm, v, d, h
<1>10. Reads(b, "mov32", rm, Imm(v))
  BY <1>1, <1>3, <1>7, MovFormRead
<1> HIDE DEF b
<1> QED
  BY <1>6, <1>8, <1>9, <1>10, RightBy DEF SameOp, Imm

(* ModR/M.reg of mul and div.                                              *)
UnaryGroup(cmd_encode) == IF cmd_encode = MUL THEN 4 ELSE 6

LEMMA UnaryGroups ==
  ASSUME NEW cmd_encode \in {MUL, DIV}
  PROVE  /\ UnaryGroup(cmd_encode) \in Octal
         /\ 8 * UnaryGroup(cmd_encode) = IF cmd_encode = MUL THEN \h20 ELSE \h30
         /\ \/ UnaryGroup(cmd_encode) = 4 /\ Names[cmd_encode] = "mul"
            \/ UnaryGroup(cmd_encode) = 6 /\ Names[cmd_encode] = "div"
<1>1. MUL # DIV
  BY SMT DEF MUL, DIV
<1>2. cmd_encode = MUL \/ cmd_encode = DIV
  OBVIOUS
<1>3. Names[MUL] = "mul" /\ Names[DIV] = "div"
  BY SMT DEF Names, MUL, DIV
<1>4. /\ cmd_encode = MUL => UnaryGroup(cmd_encode) = 4
      /\ cmd_encode = DIV => UnaryGroup(cmd_encode) = 6
  BY <1>1, SMT DEF UnaryGroup
<1> QED
  BY <1>1, <1>2, <1>3, <1>4, SMT DEF Octal

LEMMA UnaryBytes ==
  ASSUME NEW info \in Infos(Ints), info.cmd_encode \in {MUL, DIV}, RegOperand(info) = INVALID_REG
  PROVE  encode_cmd(info) =
           Prefix(info) \o << \hF7 >>
             \o << Mod(info) + 8 * UnaryGroup(info.cmd_encode) + RmOperand(info) >>
<1>1. encode_cmd(info) = encode_add_sub_mul_div(info)
  BY Dispatch, Zenon
<1>2. 8 * UnaryGroup(info.cmd_encode) = IF info.cmd_encode = MUL THEN \h20 ELSE \h30
  BY UnaryGroups
<1>3. encode_add_sub_mul_div(info) =
        Prefix(info) \o << \hF7 >> \o ModRm(info, IF info.cmd_encode = MUL THEN \h20 ELSE \h30)
  BY SMT DEF encode_add_sub_mul_div
<1> QED
  BY <1>1, <1>2, <1>3, SMT DEF ModRm

LEMMA UnaryRight ==
  ASSUME NEW info \in Infos(Ints), info.cmd_encode \in {MUL, DIV}, ~HasSrc(info),
         ~(info.use_memory4src /\ info.use_memory4dest),
         info.use_memory4dest \/ info.use_memory4src => ~NeedsMore(info.dest_reg)
  PROVE  Right(info)
<1> DEFINE dest   == info.dest_reg
           memory == info.use_memory4dest \/ info.use_memory4src
           rm     == TheRm(dest, memory)
           r      == UnaryGroup(info.cmd_encode)
           mod    == Mod(info)
           name   == Names[info.cmd_encode]
<1>1. /\ dest \in Registers /\ memory \in BOOLEAN
      /\ info.use_memory4dest \in BOOLEAN /\ info.use_memory4src \in BOOLEAN
  BY Fields, Zenon
<1>2. RmOperand(info) = Low(dest) /\ RegOperand(info) = INVALID_REG
  BY NoHighSource, Zenon DEF RmOperand, RegOperand, Exchanged
<1>3. mod = IF memory THEN 0 ELSE \hC0
  <2>1. (info.use_memory4dest # info.use_memory4src) <=> memory
    BY <1>1, Zenon
  <2> QED
    BY <2>1, Zenon DEF Mod
<1>4. r \in Octal
  BY UnaryGroups
<1>5. Wide(info)
  BY Distinct, Zenon DEF Wide
<1>6. PICK p \in WideRexBytes : Prefix(info) = << p >> /\ HighRm(p) = HighBit(dest)
  BY <1>5, NoHighSource, WidePrefix
<1>7. PICK m : m = mod + 8 * r + Low(dest)
  BY Zenon
<1>8. PICK op : op = \hF7
  BY SMT
<1>9. NamesOperands(p, m, rm, r)
  <2>1. memory => ~NeedsMore(dest)
    OBVIOUS
  <2> HIDE DEF dest, mod, r, memory
  <2> QED
    BY <1>1, <1>3, <1>4, <1>6, <1>7, <2>1, NamesRegister, ZenonT(40)
<1>10. op \in Byte /\ m \in Byte /\ p \in Byte
  <2>1. p \in Byte
    BY SMT DEF WideRexBytes, Byte
  <2>2. m \in Byte
    BY <1>9, Zenon DEF NamesOperands
  <2>3. op \in Byte
    BY <1>8, SMT DEF Byte
  <2> QED
    BY <2>1, <2>2, <2>3
<1> DEFINE b == << p, op, m >>
<1>11. encode_cmd(info) = b
  <2>0. encode_cmd(info) =
          Prefix(info) \o << \hF7 >>
            \o << Mod(info) + 8 * UnaryGroup(info.cmd_encode) + RmOperand(info) >>
    BY <1>2, UnaryBytes, Zenon
  <2>1. encode_cmd(info) = << p >> \o << op >> \o << m >>
    BY <1>2, <1>6, <1>7, <1>8, <2>0, Zenon
  <2> QED
    BY <1>10, <2>1, ThreeJoined
<1>12. Intended(info) = << name, rm, NoOperand >>
  <2>1. info.cmd_encode \notin {MOV, ADD, SUB}
    BY Distinct, Zenon
  <2> QED
    BY <2>1, Distinct, Zenon DEF Intended
<1>13. (r = 4 /\ name = "mul") \/ (r = 6 /\ name = "div")
  BY UnaryGroups
<1> HIDE DEF dest, memory, rm, r, mod, name
<1>14. /\ r = 4 => Reads(b, "mul", rm, NoOperand)
       /\ r = 6 => Reads(b, "div", rm, NoOperand)
  <2>1. PICK reg : reg = Reg(r + HighReg(p))
    BY Zenon
  <2> QED
    BY <1>8, <1>9, <1>10, <2>1, FormRead
<1> HIDE DEF b
<1>15. Reads(b, name, rm, NoOperand)
  BY <1>13, <1>14, SMT
<1> QED
  BY <1>11, <1>12, <1>15, RightBy DEF SameOp

-----------------------------------------------------------------------------
(* Push, pop, call and ret.                                                *)

LEMMA OneRegisterPrefix ==
  ASSUME NEW reg
  PROVE  (IF IsHigh(reg) THEN << \h41 >> ELSE << >>) = HighPrefix(HighBit(reg))
<1>1. CASE IsHigh(reg)
  <2>1. HighBit(reg) = 8
    BY <1>1 DEF HighBit
  <2> QED
    BY <1>1, <2>1 DEF HighPrefix
<1>2. CASE ~IsHigh(reg)
  <2>1. HighBit(reg) = 0
    BY <1>2 DEF HighBit
  <2> QED
    BY <1>2, <2>1, SMT DEF HighPrefix
<1> QED
  BY <1>1, <1>2

LEMMA PushRegisterBytes ==
  ASSUME NEW info, info.cmd_encode = PUSH, ~HasDest(info), HasSrc(info), ~info.use_memory4dest,
         info.use_memory4src \in BOOLEAN,
         NEW h, h = HighBit(info.src_reg)
  PROVE  /\ info.use_memory4src =>
              encode_cmd(info) = HighPrefix(h) \o << \hFF, \h30 + Low(info.src_reg) >>
         /\ ~info.use_memory4src =>
              encode_cmd(info) = HighPrefix(h) \o << \h50 + Low(info.src_reg) >>
<1>1. encode_cmd(info) = encode_pop_push(info)
  BY Dispatch, Zenon
<1>2. info.dest_reg = INVALID_REG /\ info.src_reg # INVALID_REG /\ info.dest_reg # info.src_reg
  BY Zenon DEF HasDest, HasSrc
<1>3. (IF IsHigh(info.src_reg) THEN << \h41 >> ELSE << >>) = HighPrefix(h)
  BY OneRegisterPrefix
<1>4. CASE info.use_memory4src
  <2>1. encode_pop_push(info) =
          (IF IsHigh(info.src_reg) THEN << \h41 >> ELSE << >>) \o << \hFF, \h30 + Low(info.src_reg) >>
    BY <1>2, <1>4, SMT DEF encode_pop_push
  <2> QED
    BY <1>1, <1>3, <1>4, <2>1, ZenonT(40)
<1>5. CASE ~info.use_memory4src
  <2>1. encode_pop_push(info) =
          (IF IsHigh(info.src_reg) THEN << \h41 >> ELSE << >>) \o << \h50 + Low(info.src_reg) >>
    BY <1>2, <1>5, SMT DEF encode_pop_push
  <2> QED
    BY <1>1, <1>3, <1>5, <2>1
<1> QED
  BY <1>4, <1>5

LEMMA PushRegisterRight ==
  ASSUME NEW info \in Infos(Ints), info.cmd_encode = PUSH, ~HasDest(info), HasSrc(info), ~info.use_memory4dest,
         info.use_memory4src => ~NeedsMore(info.src_reg)
  PROVE  Right(info)
<1> DEFINE src == info.src_reg
           rm  == TheRm(src, info.use_memory4src)
           d   == Low(src)
           h   == HighBit(src)
<1>1. src \in Registers /\ info.use_memory4src \in BOOLEAN
  BY Fields, Zenon DEF HasSrc
<1>2. d \in Octal /\ h \in {0, 8}
  BY <1>1, RegisterSplit
<1>3. Intended(info) = << "push", NoOperand, rm >>
  <2>1. info.cmd_encode \notin {MOV, ADD, SUB} /\ info.cmd_encode \notin {MUL, DIV}
    BY Distinct, Zenon
  <2> QED
    BY <2>1, Distinct, Zenon DEF Intended
<1>4. CASE info.use_memory4src
  <2>1. rm = Mem(d + h)
    BY <1>1, <1>4, OperandNames, Zenon DEF TheRm
  <2>2. d # 4 /\ d # 5
    BY <1>4, SMT DEF NeedsMore
  <2> DEFINE b == HighPrefix(h) \o << \hFF, \h30 + d >>
  <2>3. encode_cmd(info) = b
    BY <1>1, <1>4, PushRegisterBytes
  <2> HIDE DEF src, rm, d, h
  <2>4. Reads(b, "push", NoOperand, rm)
    BY <1>2, <2>1, <2>2, MemoryFormRead
  <2> HIDE DEF b
  <2> QED
    BY <1>3, <2>3, <2>4, RightBy DEF SameOp
<1>5. CASE ~info.use_memory4src
  <2>1. rm = Reg(d + h)
    BY <1>1, <1>5, OperandNames, Zenon DEF TheRm
  <2> DEFINE b == HighPrefix(h) \o << \h50 + d >>
  <2>2. encode_cmd(info) = b
    BY <1>1, <1>5, PushRegisterBytes
  <2> HIDE DEF src, rm, d, h
  <2>3. Reads(b, "push", NoOperand, rm)
    BY <1>2, <2>1, RegFormRead
  <2> HIDE DEF b
  <2> QED
    BY <1>3, <2>2, <2>3, RightBy DEF SameOp
<1> QED
  BY <1>4, <1>5

LEMMA PopBytes ==
  ASSUME NEW info, info.cmd_encode = POP, HasDest(info), ~HasSrc(info), ~info.use_memory4src,
         info.use_memory4dest \in BOOLEAN,
         NEW h, h = HighBit(info.dest_reg)
  PROVE  /\ info.use_memory4dest =>
              encode_cmd(info) = HighPrefix(h) \o << \h8F, Low(info.dest_reg) >>
         /\ ~info.use_memory4dest =>
              encode_cmd(info) = HighPrefix(h) \o << \h58 + Low(info.dest_reg) >>
<1>1. encode_cmd(info) = encode_pop_push(info)
  BY Dispatch, Zenon
<1>2. info.dest_reg # INVALID_REG /\ info.src_reg = INVALID_REG /\ info.dest_reg # info.src_reg
  BY Zenon DEF HasDest, HasSrc
<1>3. (IF IsHigh(info.dest_reg) THEN << \h41 >> ELSE << >>) = HighPrefix(h)
  BY OneRegisterPrefix
<1>4. CASE info.use_memory4dest
  <2>1. encode_pop_push(info) =
          (IF IsHigh(info.dest_reg) THEN << \h41 >> ELSE << >>) \o << \h8F, Low(info.dest_reg) >>
    BY <1>2, <1>4, SMT DEF encode_pop_push
  <2> QED
    BY <1>1, <1>3, <1>4, <2>1
<1>5. CASE ~info.use_memory4dest
  <2>1. encode_pop_push(info) =
          (IF IsHigh(info.dest_reg) THEN << \h41 >> ELSE << >>) \o << \h58 + Low(info.dest_reg) >>
    BY <1>2, <1>5, SMT DEF encode_pop_push
  <2> QED
    BY <1>1, <1>3, <1>5, <2>1
<1> QED
  BY <1>4, <1>5

LEMMA PopRight ==
  ASSUME NEW info \in Infos(Ints), info.cmd_encode = POP, HasDest(info), ~HasSrc(info), ~info.use_memory4src,
         info.use_memory4dest => ~NeedsMore(info.dest_reg)
  PROVE  Right(info)
<1> DEFINE dest == info.dest_reg
           rm   == TheRm(dest, info.use_memory4dest)
           d    == Low(dest)
           h    == HighBit(dest)
<1>1. dest \in Registers /\ info.use_memory4dest \in BOOLEAN
  BY Fields, Zenon DEF HasDest
<1>2. d \in Octal /\ h \in {0, 8}
  BY <1>1, RegisterSplit
<1>3. Intended(info) = << "pop", rm, NoOperand >>
  <2>1. info.cmd_encode \notin {MOV, ADD, SUB} /\ info.cmd_encode \notin {MUL, DIV}
    BY Distinct, Zenon
  <2> QED
    BY <2>1, Distinct, Zenon DEF Intended
<1>4. CASE info.use_memory4dest
  <2>1. rm = Mem(d + h)
    BY <1>1, <1>4, OperandNames, Zenon DEF TheRm
  <2>2. d # 4 /\ d # 5
    BY <1>4, SMT DEF NeedsMore
  <2> DEFINE b == HighPrefix(h) \o << \h8F, d >>
  <2>3. encode_cmd(info) = b
    BY <1>1, <1>4, PopBytes
  <2> HIDE DEF dest, rm, d, h
  <2>4. Reads(b, "pop", rm, NoOperand)
    BY <1>2, <2>1, <2>2, MemoryFormRead
  <2> HIDE DEF b
  <2> QED
    BY <1>3, <2>3, <2>4, RightBy DEF SameOp
<1>5. CASE ~info.use_memory4dest
  <2>1. rm = Reg(d + h)
    BY <1>1, <1>5, OperandNames, Zenon DEF TheRm
  <2> DEFINE b == HighPrefix(h) \o << \h58 + d >>
  <2>2. encode_cmd(info) = b
    BY <1>1, <1>5, PopBytes
  <2> HIDE DEF dest, rm, d, h
  <2>3. Reads(b, "pop", rm, NoOperand)
    BY <1>2, <2>1, RegFormRead
  <2> HIDE DEF b
  <2> QED
    BY <1>3, <2>2, <2>3, RightBy DEF SameOp
<1> QED
  BY <1>4, <1>5

LEMMA PushImmediateRight ==
  ASSUME NEW info \in Infos(Ints), info.cmd_encode = PUSH, ~HasDest(info), ~HasSrc(info),
         ~info.use_memory4dest, ~info.use_memory4src, info.immed_val >= 0
  PROVE  Right(info)
<1> DEFINE v == info.immed_val
           b == << IF get_sizeof_number2write(v) = 1 THEN \h6A ELSE \h68 >> \o NumberBytes(v)
<1>1. v \in Ints /\ v \in Int
  BY Fields, ValueRange
<1>2. encode_cmd(info) = b
  <2>1. encode_cmd(info) = encode_pop_push(info)
    BY Dispatch, Zenon
  <2>2. info.dest_reg = info.src_reg
    BY Zenon DEF HasDest, HasSrc
  <2>3. v >= 0 /\ ~(v < 0)
    BY <1>1, SMT
  <2>4. encode_pop_push(info) = b
    BY <2>2, <2>3, SMT DEF encode_pop_push
  <2> QED
    BY <2>1, <2>4
<1>3. Intended(info) = << "push", NoOperand, Imm(v) >>
  <2>1. info.cmd_encode \notin {MOV, ADD, SUB} /\ info.cmd_encode \notin {MUL, DIV}
    BY Distinct, Zenon
  <2> QED
    BY <2>1, Distinct, Zenon DEF Intended
<1>4. Reads(b, "push", NoOperand, Imm(v))
  <2>1. CASE get_sizeof_number2write(v) = 1
    <3>1. -127 <= v /\ v <= 127
      BY <1>1, <2>1, SMT DEF get_sizeof_number2write, ASCII_MAX_SYMBOL
    <3>2. NumberBytes(v) = << v % 256 >>
      BY <2>1, Zenon DEF NumberBytes
    <3> HIDE DEF v
    <3> QED
      BY <1>1, <2>1, <3>1, <3>2, PushByteRead
  <2>2. CASE get_sizeof_number2write(v) # 1
    <3>1. NumberBytes(v) = Le32(v)
      BY <2>2, Zenon DEF NumberBytes
    <3> HIDE DEF v
    <3> QED
      BY <1>1, <2>2, <3>1, PushWordRead
  <2> QED
    BY <2>1, <2>2
<1> HIDE DEF v, b
<1> QED
  BY <1>2, <1>3, <1>4, RightBy DEF SameOp

LEMMA CallRight ==
  ASSUME NEW info \in Infos(Ints), info.cmd_encode = CALL, ~HasSrc(info), ~info.use_memory4src
  PROVE  Right(info)
<1> DEFINE v == info.immed_val
           b == << \hE8 >> \o Le32(v)
<1>1. v \in Ints
  BY Fields
<1>2. encode_cmd(info) = b
  <2>1. encode_cmd(info) = encode_call(info)
    BY Dispatch, Zenon
  <2>2. encode_call(info) = b
    BY SMT DEF encode_call, HasSrc
  <2> QED
    BY <2>1, <2>2
<1>3. Intended(info) = << "call", NoOperand, Imm(v) >>
  <2>1. info.cmd_encode \notin {MOV, ADD, SUB} /\ info.cmd_encode \notin {MUL, DIV}
    BY Distinct, Zenon
  <2> QED
    BY <2>1, Distinct, Zenon DEF Intended
<1> HIDE DEF v
<1>4. Reads(b, "call", NoOperand, Imm(v))
  BY <1>1, CallFormRead
<1> HIDE DEF b
<1> QED
  BY <1>2, <1>3, <1>4, RightBy DEF SameOp

LEMMA RetRight ==
  ASSUME NEW info, info.cmd_encode = RET
  PROVE  Right(info)
<1> DEFINE b == << \hC3 >>
<1>1. encode_cmd(info) = b
  BY Dispatch DEF encode_ret
<1>2. Intended(info) = << "ret", NoOperand, NoOperand >>
  <2>1. info.cmd_encode \notin {MOV, ADD, SUB} /\ info.cmd_encode \notin {MUL, DIV}
    BY Distinct, Zenon
  <2> QED
    BY <2>1, Distinct, Zenon DEF Intended
<1>3. Reads(b, "ret", NoOperand, NoOperand)
  BY RetFormRead
<1> HIDE DEF b
<1> QED
  BY <1>1, <1>2, <1>3, RightBy DEF SameOp

-----------------------------------------------------------------------------
(* Every request but the ones set aside.                                   *)

LEMMA EncodableIsRight ==
  ASSUME NEW info \in Infos(Ints), Encodable(info)
  PROVE  Right(info)
<1>1. Meaningful(info) /\ ~OutsideEncoder(info)
  BY DEF Encodable
<1>2. /\ info.use_memory4dest => ~NeedsMore(info.dest_reg)
      /\ info.use_memory4src => ~NeedsMore(info.src_reg) /\ (HasSrc(info) \/ ~NeedsMore(info.dest_reg))
  BY <1>1, Zenon DEF OutsideEncoder
<1>3. /\ MOV \in TwoOperandCmds /\ ADD \in TwoOperandCmds /\ SUB \in TwoOperandCmds
  BY SMT DEF TwoOperandCmds
<1>4. CASE info.cmd_encode \in {MOV, ADD, SUB}
  <2>1. /\ HasDest(info)
        /\ info.use_memory4src => HasSrc(info)
        /\ ~(info.use_memory4src /\ info.use_memory4dest)
    BY <1>1, <1>4, Distinct, Zenon DEF Meaningful
  <2>2. ~(IsHigh(info.dest_reg) /\ IsHigh(info.src_reg))
    BY <1>1, <1>3, <1>4, Zenon DEF OutsideEncoder
  <2>3. info.use_memory4src => ~IsHigh(info.dest_reg) /\ ~IsHigh(info.src_reg)
    BY <1>1, <1>4, Distinct, Zenon DEF OutsideEncoder, Exchanged
  <2>4. CASE info.use_memory4src
    BY <1>2, <1>4, <2>1, <2>3, <2>4, FromMemoryRight, Zenon
  <2>5. CASE ~info.use_memory4src /\ HasSrc(info)
    BY <1>2, <1>4, <2>1, <2>2, <2>5, TwoRegistersRight, Zenon
  <2>6. CASE ~HasSrc(info) /\ info.cmd_encode \in {ADD, SUB}
    BY <1>2, <2>1, <2>6, AddImmediateRight, Zenon
  <2>7. CASE ~HasSrc(info) /\ info.cmd_encode = MOV
    <3>1. ~(info.immed_val < 0 /\ (~info.use_memory4dest \/ info.immed_val = -1))
      BY <1>1, <2>7, Zenon DEF OutsideEncoder
    <3>2. info.immed_val # -1
      BY <3>1, SMT
    <3>3. ~info.use_memory4src
      BY <2>1, <2>7
    <3>4. CASE info.use_memory4dest
      BY <1>2, <2>1, <2>7, <3>2, <3>3, <3>4, MovToMemoryRight, Zenon
    <3>5. CASE ~info.use_memory4dest
      BY <2>1, <2>7, <3>2, <3>3, <3>5, MovToRegisterRight, Zenon
    <3> QED
      BY <3>4, <3>5
  <2> QED
    BY <1>4, <2>1, <2>4, <2>5, <2>6, <2>7
<1>5. CASE info.cmd_encode \in {MUL, DIV}
  <2>1. ~HasSrc(info) /\ ~(info.use_memory4src /\ info.use_memory4dest)
    BY <1>1, <1>5, Distinct, Zenon DEF Meaningful
  <2> QED
    BY <1>2, <1>5, <2>1, UnaryRight, Zenon
<1>6. CASE info.cmd_encode = PUSH
  <2>1. ~HasDest(info) /\ ~info.use_memory4dest /\ (info.use_memory4src => HasSrc(info))
    BY <1>1, <1>6, Distinct, Zenon DEF Meaningful
  <2>2. CASE HasSrc(info)
    BY <1>2, <1>6, <2>1, <2>2, PushRegisterRight, Zenon
  <2>3. CASE ~HasSrc(info)
    <3>1. ~(info.immed_val < 0)
      BY <1>1, <1>6, <2>3, Zenon DEF OutsideEncoder
    <3>2. info.immed_val \in Int
      BY Fields, ValueRange
    <3>3. info.immed_val >= 0
      BY <3>1, <3>2, SMT
    <3> QED
      BY <1>6, <2>1, <2>3, <3>3, PushImmediateRight, Zenon
  <2> QED
    BY <2>2, <2>3
<1>7. CASE info.cmd_encode = POP
  <2>1. HasDest(info) /\ ~HasSrc(info) /\ ~info.use_memory4src
    BY <1>1, <1>7, Distinct, Zenon DEF Meaningful
  <2> QED
    BY <1>2, <1>7, <2>1, PopRight, Zenon
<1>8. CASE info.cmd_encode = CALL
  <2>1. ~HasSrc(info) /\ ~info.use_memory4src
    BY <1>1, <1>8, Distinct, Zenon DEF Meaningful
  <2> QED
    BY <1>8, <2>1, CallRight, Zenon
<1>9. CASE info.cmd_encode = RET
  BY <1>9, RetRight
<1> QED
  BY <1>4, <1>5, <1>6, <1>7, <1>8, <1>9, Fields
=============================================================================
