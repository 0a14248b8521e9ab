----------------------------- MODULE Translator -----------------------------
(***************************************************************************)
(* fill_jit_code_buf: the loop that appends the code of each token to the  *)
(* execution buffer, the two passes that scan the finished bytes for jumps *)
(* and replace guest offsets by displacements, the patch that turns the    *)
(* guest's set-up of rbx into the address of the data memory, and the      *)
(* epilogue.  A step is one round of a loop that changes something; a scan *)
(* runs over the bytes it skips without a step.                            *)
(***************************************************************************)
EXTENDS Tokens2x86, FiniteSetsExt

CONSTANTS
  Programs,        \* the token arrays the parser may hand over
  BeyondTokens,    \* what a token read past the array's size may hold
  HeapBytes,       \* what a byte past the buffer's capacity may hold
  BufLen,          \* bytes of memory modelled from the buffer's start
  JitBuf,          \* address of the execution buffer
  DataMemory,      \* address of the data memory
  MAX_N_LABELS,    \* room in the label table
  RunWithInt3      \* built with RUN_WITH_INT3: the buffer starts with int3

(* Labels carry increasing offsets: TokenStream!LabelOffsetsIncrease.  A   *)
(* register operand is one of the guest's eight: TokenStream!OperandsExact *)
(* says what the others are.  The modelled memory holds everything         *)
(* fill_jit_code_buf writes.                                               *)
IsProgram(p) ==
  /\ p \in Seq(Token)
  /\ \A j, k \in 1..Len(p) :
       j < k /\ p[j].my_cmd = CMD_MY_LABEL /\ p[k].my_cmd = CMD_MY_LABEL
         => p[j].offset < p[k].offset
  /\ 32 + 16 * Len(p) <= BufLen

ASSUME ProgramsAssumption == \A p \in Programs : IsProgram(p)

ASSUME ConstantsAssumption ==
  /\ BufLen \in Nat
  /\ JitBuf \in Nat /\ DataMemory \in Nat /\ DataMemory >= 8
  /\ PrintDecimal \in Nat /\ ScanDecimal \in Nat
  /\ MAX_N_LABELS \in Nat
  /\ HeapBytes \subseteq Byte
  /\ BeyondTokens \subseteq Token
  /\ RunWithInt3 \in BOOLEAN

VARIABLES
  tokens,     \* tokens_t::tokens, up to size
  beyond,     \* the memory after them, as a token
  i,          \* the loop's token number, then a scan's byte number
  buf,        \* jit_code_t::buf, and the memory behind it
  size,       \* jit_code_t::size
  labels,     \* labels_t
  phase,      \* where fill_jit_code_buf is
  sites,      \* history: the jumps emitted, by the place of their opcode
  stray       \* history: bytes a pass takes for a jump's that are none's, when linking starts

vars == << tokens, beyond, i, buf, size, labels, phase, sites, stray >>

Phases == {"prolog", "tokens", "cond_jmps", "calls_jmps", "memory_offset", "return_value",
           "ready", "label_overflow", "endless"}

Label == [my_address : Int, new_address : Nat]
Site  == [at : Nat, kind : {"jmp", "cond", "external"}, target : Int]

-----------------------------------------------------------------------------
capacity == 4 * Len(tokens)

PROLOG_LENGTH == 10

RET_BYTE == \hC3
INT3     == \hCC
NOP      == \h90
POP_RBX  == \h5B

(* Mutant: the result stays on the stack.                                  *)
NO_POP_RAX == << >>

POP_RAX == << \h58 >>

(* bytes written over the buffer from at on                                *)
Paste(b, at, bytes) ==
  [k \in DOMAIN b |-> IF k \in at .. at + Len(bytes) - 1 THEN bytes[k - at + 1] ELSE b[k]]

TokenAt(n) == IF n < Len(tokens) THEN tokens[n + 1] ELSE beyond

Look(n) == [k \in 0..4 |-> TokenAt(n + k)]

SetCallStack == encode_cmd(ImmedInfo(MOV, R15, DataMemory + capacity - 8))

(* jit_code_ctor                                                           *)
Init ==
  /\ tokens \in Programs
  /\ beyond \in BeyondTokens
  /\ \E heap \in HeapBytes :
       buf = [k \in 0 .. BufLen - 1 |->
                IF k = 0 /\ RunWithInt3 THEN INT3 ELSE IF k < capacity THEN RET_BYTE ELSE heap]
  /\ size = IF RunWithInt3 THEN 1 ELSE 0
  /\ i = 0
  /\ labels = << >>
  /\ phase = "prolog"
  /\ sites = {} /\ stray = {}

(* Mutant: as many nops as the argument says.                              *)
insert_all_nops(at, amount2insert) == [k \in 1 .. amount2insert |-> NOP]

(* Nops up to the place amount2insert.                                     *)
insert_nops(at, amount2insert) == [k \in 1 .. amount2insert - at |-> NOP]

(* mov r15d, end of the data memory; nops up to byte 10.                   *)
Prolog ==
  /\ phase = "prolog"
  /\ LET code == SetCallStack \o insert_nops(size + Len(SetCallStack), PROLOG_LENGTH)
     IN  buf' = Paste(buf, size, code) /\ size' = size + Len(code)
  /\ phase' = "tokens"
  /\ UNCHANGED << tokens, beyond, i, labels, sites, stray >>

-----------------------------------------------------------------------------
(* The quantifier gives the bytes a value: TLC would evaluate them again   *)
(* for each byte of the buffer.                                            *)
Emit(bytes) ==
  \E code \in {bytes} : buf' = Paste(buf, size, code) /\ size' = size + Len(code)

Fold_i == convert_tokens2nonstack_logic(Look(i))

FoldTokens ==
  /\ phase = "tokens" /\ i < Len(tokens)
  /\ Fold_i.skip > 0
  /\ Emit(Fold_i.bytes)
  /\ i' = i + Fold_i.skip
  /\ UNCHANGED << tokens, beyond, labels, phase, sites, stray >>

LabelOf(token) == [my_address |-> token.offset, new_address |-> size]

(* Mutant: the newest label goes first.                                    *)
insert_label_first(token) == << LabelOf(token) >> \o labels

insert_label(token) == Append(labels, LabelOf(token))

(* insert_label does not look at the table's room.  The label too many is  *)
(* written over the table's own size: what follows is undefined, and the   *)
(* model stops.                                                            *)
InsertLabel ==
  /\ phase = "tokens" /\ i < Len(tokens)
  /\ Fold_i.skip = 0
  /\ TokenAt(i).my_cmd = CMD_MY_LABEL
  /\ \/ /\ Len(labels) < MAX_N_LABELS
        /\ labels' = insert_label(TokenAt(i))
        /\ UNCHANGED phase
     \/ /\ Len(labels) >= MAX_N_LABELS
        /\ phase' = "label_overflow"
        /\ UNCHANGED labels
  /\ i' = i + 1
  /\ UNCHANGED << tokens, beyond, buf, size, sites, stray >>

(* Where a token's own jump has its opcode, from the start of its code, or *)
(* the call of in and out, whose displacement must stay as it is.          *)
SitesOf(token, at) ==
  CASE token.my_cmd = CMD_MY_JMP -> {[at |-> at, kind |-> "jmp", target |-> token.offset]}
    [] token.my_cmd = CMD_MY_CALL -> {[at |-> at + 11, kind |-> "jmp", target |-> token.offset]}
    [] token.my_cmd \in CondJmpCmds -> {[at |-> at + 5, kind |-> "cond", target |-> token.offset]}
    [] token.my_cmd = CMD_MY_OUT ->
         {[at |-> at + 1, kind |-> "external", target |-> PrintDecimal - (JitBuf + at + JMP_LENGTH)]}
    [] token.my_cmd = CMD_MY_IN ->
         {[at |-> at, kind |-> "external", target |-> ScanDecimal - (JitBuf + at + JMP_LENGTH)]}
    [] OTHER -> {}

AssembleToken ==
  /\ phase = "tokens" /\ i < Len(tokens)
  /\ Fold_i.skip = 0
  /\ TokenAt(i).my_cmd # CMD_MY_LABEL
  /\ Emit(x86_cmd_ctor(TokenAt(i), JitBuf + size))
  /\ sites' = sites \cup SitesOf(TokenAt(i), size)
  /\ i' = i + 1
  /\ UNCHANGED << tokens, beyond, labels, phase, stray >>

-----------------------------------------------------------------------------
(* The passes recognise a jump by its opcode bytes, wherever they stand.   *)

IsCondMark(k) == buf[k] = \h0F /\ buf[k + 1] >= \h80
IsJmpMark(k)  == buf[k] \in {\hE8, \hE9}

KindsOf(k) == IF IsCondMark(k) THEN {"cond"} ELSE {"jmp", "external"}

HasLabel(offset) == \E n \in DOMAIN labels : labels[n].my_address = offset

(* encode_calls_jmps reads all four; read as a signed number here, so that *)
(* a negative one stands for one far above any size.                       *)
JmpOffset(k) ==
  buf[k + 1] + 256 * buf[k + 2] + 65536 * buf[k + 3]
    + 16777216 * (IF buf[k + 4] < 128 THEN buf[k + 4] ELSE buf[k + 4] - 256)

(* What a pass would not step over: the second one skips a value that is   *)
(* neither a label's offset nor small enough to be one.                    *)
IsTaken(k) ==
  IsCondMark(k) \/ (IsJmpMark(k) /\ (HasLabel(JmpOffset(k)) \/ JmpOffset(k) \in 0 .. size - 1))

EndOfTokens ==
  /\ phase = "tokens" /\ i >= Len(tokens)
  /\ phase' = "cond_jmps"
  /\ i' = 0
  /\ stray' = { k \in 0 .. size - 1 : /\ IsTaken(k)
                                      /\ ~ \E s \in sites : s.at = k /\ s.kind \in KindsOf(k) }
  /\ UNCHANGED << tokens, beyond, buf, size, labels, sites >>

(* find_label: the first entry with that guest offset.                     *)
find_label(offset) ==
  CHOOSE n \in DOMAIN labels :
    /\ labels[n].my_address = offset
    /\ \A m \in DOMAIN labels : labels[m].my_address = offset => n <= m

NewAddress(offset) == labels[find_label(offset)].new_address

(* The mark a scan stands at next; none when the scan is over.             *)
NextCond(k) ==
  k \in i .. size - 1 /\ IsCondMark(k) /\ \A j \in i .. k - 1 : ~IsCondMark(j)
NextJmp(k) ==
  k \in i .. size - 1 /\ IsJmpMark(k) /\ \A j \in i .. k - 1 : ~IsJmpMark(j)

(* Mutant: the displacement of any jump begins after one byte.             *)
PatchSecondByte(k, opcodeLength, offset) ==
  buf' = Paste(buf, k + 1, Le32(NewAddress(offset) - (k + opcodeLength - 1 + JMP_LENGTH)))

(* The displacement after the opcode, measured from the end of the jump.   *)
Patch(k, opcodeLength, offset) ==
  buf' = Paste(buf, k + opcodeLength,
               Le32(NewAddress(offset) - (k + opcodeLength - 1 + JMP_LENGTH)))

(* Mutant: the byte before the offset.                                     *)
CondOffsetEarly(k) == buf[k + 1]

(* encode_conditional_jmps reads one byte of the guest offset.             *)
CondOffset(k) == buf[k + 2]

PatchConditionalJmp ==
  /\ phase = "cond_jmps"
  /\ \E k \in i .. size - 1 :
       /\ NextCond(k)
       /\ HasLabel(CondOffset(k))
       /\ Patch(k, 2, CondOffset(k))
       /\ i' = k + 5
  /\ UNCHANGED << tokens, beyond, size, labels, phase, sites, stray >>

(* An unknown label ends the pass, and so does the end of the code.        *)
EndConditionalJmps ==
  /\ phase = "cond_jmps"
  /\ \/ \E k \in i .. size - 1 : NextCond(k) /\ ~HasLabel(CondOffset(k))
     \/ \A k \in i .. size - 1 : ~IsCondMark(k)
  /\ phase' = "calls_jmps"
  /\ i' = 0
  /\ UNCHANGED << tokens, beyond, buf, size, labels, sites, stray >>

PatchJmp ==
  /\ phase = "calls_jmps"
  /\ \E k \in i .. size - 1 :
       /\ NextJmp(k)
       /\ HasLabel(JmpOffset(k))
       /\ Patch(k, 1, JmpOffset(k))
       /\ i' = k + 5
  /\ UNCHANGED << tokens, beyond, size, labels, phase, sites, stray >>

(* A value too large for a guest offset is taken for an external call.     *)
SkipJmp ==
  /\ phase = "calls_jmps"
  /\ \E k \in i .. size - 1 :
       /\ NextJmp(k)
       /\ ~HasLabel(JmpOffset(k))
       /\ JmpOffset(k) \notin 0 .. size - 1
       /\ i' = k + 1
  /\ UNCHANGED << tokens, beyond, buf, size, labels, phase, sites, stray >>

EndCallsJmps ==
  /\ phase = "calls_jmps"
  /\ \/ \E k \in i .. size - 1 : /\ NextJmp(k)
                                 /\ ~HasLabel(JmpOffset(k))
                                 /\ JmpOffset(k) \in 0 .. size - 1
     \/ \A k \in i .. size - 1 : ~IsJmpMark(k)
  /\ phase' = "memory_offset"
  /\ i' = 0
  /\ UNCHANGED << tokens, beyond, buf, size, labels, sites, stray >>

-----------------------------------------------------------------------------
(* change_memory_offset looks for the first pop rbx with an 8-bit counter. *)

(* Mutant: the search begins after the place of mov rbx.                   *)
PopRbxStopsAfterMov == { n \in 13..255 : n >= size \/ buf[n] = POP_RBX }

PopRbxStops == { n \in 0..255 : n >= size \/ buf[n] = POP_RBX }

(* Mutants: the pop itself is left; one byte more is taken.                *)
byte_of_first_pop == Min(PopRbxStops)
byte_beyond_first_pop == (Min(PopRbxStops) + 2) % 256

byte_after_first_pop == (Min(PopRbxStops) + 1) % 256

SetDataBase == encode_cmd(ImmedInfo(MOV, RBX, DataMemory))

(* From byte 7 on, so that it follows mov r15 with or without the int3.    *)
ChangeMemoryOffset ==
  /\ phase = "memory_offset"
  /\ PopRbxStops # {}
  /\ LET last == byte_after_first_pop - 1
     IN  buf' = [k \in DOMAIN buf |->
                   IF k \in 7 .. 6 + Len(SetDataBase) THEN SetDataBase[k - 6]
                   ELSE IF k \in 7 + Len(SetDataBase) .. last THEN NOP
                   ELSE buf[k]]
  /\ phase' = "return_value"
  /\ UNCHANGED << tokens, beyond, i, size, labels, sites, stray >>

(* With more than 255 bytes and no pop rbx among the first 256 the counter *)
(* wraps and the search does not end.                                      *)
SearchPopRbxForever ==
  /\ phase = "memory_offset"
  /\ PopRbxStops = {}
  /\ phase' = "endless"
  /\ UNCHANGED << tokens, beyond, i, buf, size, labels, sites, stray >>

(* change_return_value_src2rax: pop rax, and the C3 the buffer was filled  *)
(* with is the ret.                                                        *)
ChangeReturnValue ==
  /\ phase = "return_value"
  /\ Emit(POP_RAX)
  /\ phase' = "ready"
  /\ UNCHANGED << tokens, beyond, i, labels, sites, stray >>

-----------------------------------------------------------------------------
(* The function has returned, loops, or has lost its memory.               *)
Stopped ==
  /\ phase \in {"ready", "endless", "label_overflow"}
  /\ UNCHANGED vars

TokenStep == FoldTokens \/ InsertLabel \/ AssembleToken \/ EndOfTokens
LinkStep  == PatchConditionalJmp \/ EndConditionalJmps \/ PatchJmp \/ SkipJmp \/ EndCallsJmps
LastStep  == ChangeMemoryOffset \/ SearchPopRbxForever \/ ChangeReturnValue

Next == Prolog \/ TokenStep \/ LinkStep \/ LastStep \/ Stopped

(* Nothing but its own return stops the function from taking its next step. *)
Spec == Init /\ [][Next]_vars /\ WF_vars(Next)

-----------------------------------------------------------------------------
(* Every variable has its type; the buffer holds bytes throughout.         *)
TypeOK ==
  /\ tokens \in Seq(Token)
  /\ beyond \in Token
  /\ i \in Nat
  /\ buf \in [0 .. BufLen - 1 -> Byte]
  /\ size \in Nat
  /\ labels \in Seq(Label)
  /\ phase \in Phases
  /\ sites \subseteq Site
  /\ stray \subseteq Nat

MAX_TOKEN_CODE == 16

(* Hazard: jit_code_ctor reserves 4 bytes per token and nothing checks the *)
(* room on the way.  Whatever the folds do, the code never takes more than *)
(* 16 bytes for each token consumed, after the prolog and before pop rax:  *)
(* the bound a capacity of 4 * size would have to be.                      *)
SizeBound ==
  LET consumed == IF phase = "tokens" /\ i < Len(tokens) THEN i ELSE Len(tokens)
  IN  size <= PROLOG_LENGTH + MAX_TOKEN_CODE * consumed + (IF phase = "ready" THEN 1 ELSE 0)

(* Hazard: tokens are folded, skipped and assembled between one label and  *)
(* the next, and a table of fixed room is filled.  The table is ordered by *)
(* guest offset, so an entry find_label stops at is the only one, and by   *)
(* code address, which never lies past the code (insert_label).            *)
LabelsOrdered ==
  /\ \A m, n \in DOMAIN labels :
       m < n => /\ labels[m].my_address < labels[n].my_address
                /\ labels[m].new_address <= labels[n].new_address
  /\ \A n \in DOMAIN labels : labels[n].new_address \in PROLOG_LENGTH .. size

(* Where the displacement of a jump lies, and what it is.                  *)
OperandAt(s) == IF s.kind = "cond" THEN s.at + 2 ELSE s.at + 1

Displacement(s) == JmpOffset(OperandAt(s) - 1)

(* No byte but a jump's is taken for one, and no displacement of a call    *)
(* looks like a guest offset.                                              *)
External(s) == s.kind = "external"

Unmistakable ==
  /\ stray = {}
  /\ \A s \in sites : External(s) => ~HasLabel(s.target) /\ s.target \notin 0 .. size - 1

(* The programs the passes can link: besides, every target has a label in  *)
(* the table (one that is missing ends a pass), and conditional targets    *)
(* fit in the byte that is read.                                           *)
Linkable ==
  /\ Unmistakable
  /\ \A s \in sites : /\ External(s) \/ HasLabel(s.target)
                      /\ s.kind = "cond" => s.target \in Byte

(* Hazard: a displacement computed from the wrong end of the instruction,  *)
(* a jump the scan steps over, one pass undoing the other.  Once both have *)
(* run, each jump leads to the first byte of what follows its label.       *)
JumpsResolved ==
  phase = "memory_offset" /\ Linkable =>
    \A s \in sites : ~External(s) => OperandAt(s) + 4 + Displacement(s) = NewAddress(s.target)

(* Hazard: the passes scan bytes, not instructions.  Where every mark is a *)
(* jump they change the operands of jumps and nothing else: neither the    *)
(* displacement of a call of in or out, nor, where a displacement already  *)
(* written looks like another opcode, what follows it.                     *)
IsOperand(k) == \E s \in sites : ~External(s) /\ k \in OperandAt(s) .. OperandAt(s) + 3

PatchesOnlyOperands ==
  [][ Unmistakable /\ phase \in {"cond_jmps", "calls_jmps"}
        => \A k \in DOMAIN buf : buf'[k] # buf[k] => IsOperand(k) ]_vars

(* The guest's set-up of its data base: push N; pop rbx at the start, not  *)
(* folded into what follows.                                               *)
IsSetUp ==
  /\ Len(tokens) >= 2
  /\ tokens[1].my_cmd = CMD_MY_PUSH /\ tokens[1].use_immed /\ tokens[1].reg # RBX
  /\ tokens[2].my_cmd = CMD_MY_POP /\ tokens[2].mode = MODE_8_BYTE_IN_ADDRESS
  /\ tokens[2].reg = RBX /\ ~tokens[2].use_r8plus_regs /\ ~tokens[2].use_immed
  /\ TokenAt(2).my_cmd \notin MathCmds

SetUpEnd == PROLOG_LENGTH + Len(encode_token2push_pop(tokens[1])) + 1

(* mov r15 runs into mov rbx with nothing but nops around it up to the end *)
(* of the set-up, and the code after it is as it was.                      *)
SetUpBecomesMov ==
  /\ \A k \in 7 .. SetUpEnd - 1 :
       buf'[k] = IF k < 12 THEN SetDataBase[k - 6] ELSE NOP
  /\ \A k \in SetUpEnd .. size - 1 : buf'[k] = buf[k]

(* The set-up's own pop rbx is the first byte that reads as one.           *)
SetUpIsFound == IsSetUp /\ \A k \in 0 .. SetUpEnd - 2 : buf[k] # POP_RBX

(* Hazard: the search for pop rbx and the overwriting after it are off by  *)
(* one against the set-up's two lengths.  Where no earlier byte reads as   *)
(* pop rbx, and no pass has patched the set-up's own bytes, exactly the    *)
(* set-up is replaced (change_memory_offset).                              *)
SetUpReplaced ==
  [][ phase = "memory_offset" /\ Unmistakable /\ SetUpIsFound => SetUpBecomesMov ]_vars

(* Hazard: nothing writes the final ret, it is the filling behind the      *)
(* code, which the patch of the set-up may reach, and so may a pass that   *)
(* takes the last bytes for a jump's.  Otherwise code that ends inside the *)
(* buffer ends in pop rax; ret, if it is longer than mov rbx's place.      *)
EndsInRet ==
  phase = "ready" /\ Unmistakable /\ size > 12 /\ size < capacity =>
    buf[size - 1] = POP_RAX[1] /\ buf[size] = \hC3

MoreLabelsThanRoom ==
  Quantify(DOMAIN tokens, LAMBDA k : tokens[k].my_cmd = CMD_MY_LABEL) > MAX_N_LABELS

(* Hazard: a search over an 8-bit index, scans that step back over what    *)
(* they wrote, a table filled without a look at its room.  The translation *)
(* ends, except where the program has more labels than the table has room  *)
(* for, and where more than 255 bytes hold no pop rbx among the first 256. *)
Finishes ==
  <>( \/ phase = "ready"
      \/ phase = "label_overflow" /\ MoreLabelsThanRoom
      \/ phase = "endless" /\ size > 255 /\ \A k \in 0..255 : buf[k] # POP_RBX )

(* README: "Jumps' and call's addresses are fulfilled using 2 step         *)
(* passage": a jump to the offset of a label of the program is resolved.   *)
EveryJumpResolved ==
  phase = "memory_offset" =>
    \A s \in sites :
      (\E k \in DOMAIN tokens : tokens[k].my_cmd = CMD_MY_LABEL /\ tokens[k].offset = s.target)
        => HasLabel(s.target) /\ OperandAt(s) + 4 + Displacement(s) = NewAddress(s.target)
=============================================================================
