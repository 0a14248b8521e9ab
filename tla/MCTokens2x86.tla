---------------------------- MODULE MCTokens2x86 ----------------------------
(***************************************************************************)
(* The windows of Tokens2x86, each executed by the processor of X86Exec    *)
(* and compared with the guest CPU on the tokens the window stands for.    *)
(***************************************************************************)
EXTENDS Tokens2x86, X86Exec

CONSTANTS
  Immediates,      \* the values of the pushes
  PlainRegs,       \* guest registers without the r8+ flag
  HighRegs,        \* and with it
  Machines         \* the states in which a window may be reached

VARIABLES
  look,     \* the token at hand and the four after it
  start,    \* the state of the machine before the window
  skip,     \* tokens the fold consumed, 0 when one token was assembled
  code,     \* the bytes written
  translated

vars == << look, start, skip, code, translated >>

-----------------------------------------------------------------------------
(* One and four bytes, both signs, -1 on its path of its own, and 91, which *)
(* is the opcode of pop rbx.                                               *)
SizesAndSigns == {-200, -3, -1, 2, 91, 200}

(* The memory block makes a word number an offset in bytes, in an int.     *)
ASSUME ImmediatesAssumption == \A v \in Immediates : v \in Ints /\ 8 * v \in Ints

(* A token has two bits for its register.                                  *)
ASSUME RegsAssumption == PlainRegs \cup HighRegs \subseteq RAX..RBX

(* The address of the code.                                                *)
Space == 4096

(* The displacements of both calls are ints.                               *)
ASSUME AddressesAssumption ==
  \A address \in {PrintDecimal, ScanDecimal} :
    address \in Int /\ address - (Space + JMP_LENGTH) \in Ints

(* A state has values in the sixteen registers, on the stack and in words  *)
(* of memory that do not overlap.                                          *)
IsMachine(m) ==
  /\ m = Machine(m.regs, m.stack, m.mem)
  /\ m.regs \in [0..15 -> Int]
  /\ m.stack \in Seq(Int)
  /\ m.mem \in [DOMAIN m.mem -> Int]
  /\ \A a, b \in DOMAIN m.mem : a \in Int /\ (b \in a - 7 .. a + 7 => a = b)

ASSUME MachinesAssumption == \A m \in Machines : IsMachine(m)

(* Distinct registers, rbx and rcx at data words.                          *)
DataBase == 64

Sample(rdx, stack) ==
  Machine([r \in 0..15 |-> CASE r = RAX -> DataBase + 24 [] r = RBX -> DataBase [] r = RCX -> DataBase + 16
                             [] r = RDX -> rdx [] r = 9 -> DataBase + 8 [] OTHER -> 100 + r],
          stack,
          [a \in { DataBase + 8 * k : k \in {-200, -3, 0, 1, 2, 3, 91, 200} } |-> 500 + a])

(* The remainder of a division may be left in rdx, or not; the stack may    *)
(* hold a single value.                                                    *)
CleanMachine   == { Sample(0, << 40, 17, 6 >>) }
SampleMachines == CleanMachine \cup { Sample(3, << 40, 17, 6 >>), Sample(0, << 6 >>) }

-----------------------------------------------------------------------------
Arg(cmd, mode, reg, high) ==
  [ZeroToken EXCEPT !.my_cmd = cmd, !.mode = mode, !.reg = reg, !.use_r8plus_regs = high]

PushImmed(v) ==
  [ZeroToken EXCEPT !.my_cmd = CMD_MY_PUSH, !.reg = INVALID_REG,
                    !.immed = v, !.use_immed = TRUE]

AddressingModes == {MODE_8_BYTE_IN_ADDRESS, MODE_REG_ADDRESS}

RegArgs(cmd) ==
  { Arg(cmd, a[1], a[2], FALSE) : a \in AddressingModes \X PlainRegs }
    \cup { Arg(cmd, a[1], a[2], TRUE) : a \in AddressingModes \X HighRegs }

DropTop ==
  [ZeroToken EXCEPT !.my_cmd = CMD_MY_POP, !.reg = INVALID_REG, !.delete_stack_elem = TRUE]

Plain(cmd) == [ZeroToken EXCEPT !.my_cmd = cmd]
Jump(cmd)  == [ZeroToken EXCEPT !.my_cmd = cmd, !.reg = INVALID_REG, !.offset = 4]

Alphabet ==
  { PushImmed(v) : v \in Immediates }
    \cup RegArgs(CMD_MY_PUSH) \cup RegArgs(CMD_MY_POP) \cup { DropTop }
    \cup { Plain(cmd) : cmd \in MathCmds \cup {CMD_MY_OUT, CMD_MY_IN, CMD_MY_SQRT, CMD_MY_LABEL} }
    \cup { Jump(cmd) : cmd \in {CMD_MY_JMP, CMD_MY_JB, CMD_MY_JNE} }

(* A small part of the alphabet follows a memory access or ends a window.  *)
PushRbx  == Arg(CMD_MY_PUSH, MODE_8_BYTE_IN_ADDRESS, RBX, FALSE)
PopRcx   == Arg(CMD_MY_POP, MODE_8_BYTE_IN_ADDRESS, RCX, FALSE)
AtRcx    == { Arg(cmd, MODE_REG_ADDRESS, RCX, FALSE) : cmd \in {CMD_MY_PUSH, CMD_MY_POP} }

Ahead(tokens) == [k \in 0..4 |-> tokens[k + 1]]

Looks ==
  { Ahead(<< t[1], t[2], t[3], ZeroToken, ZeroToken >>) :
      t \in Alphabet \X Alphabet \X Alphabet }
  \cup
  { Ahead(<< PushRbx, t[1], t[2], PopRcx, t[3] >>) :
      t \in Alphabet \X Alphabet \X AtRcx }

Init ==
  /\ look \in Looks
  /\ start \in Machines
  /\ skip = 0
  /\ code = << >>
  /\ translated = FALSE

(* One round of the loop of fill_jit_code_buf.                             *)
Translate ==
  /\ ~translated
  /\ translated' = TRUE
  /\ LET fold == convert_tokens2nonstack_logic(look)
     IN  /\ skip' = fold.skip
         /\ code' = IF fold.skip > 0 THEN fold.bytes
                    ELSE IF look[0].my_cmd = CMD_MY_LABEL THEN << >>
                    ELSE x86_cmd_ctor(look[0], Space)
  /\ UNCHANGED << look, start >>

Spec == Init /\ [][Translate]_vars

-----------------------------------------------------------------------------
AfterCode   == RunBytes(start, code)
AfterTokens ==
  LET n == IF skip = 0 THEN 1 ELSE skip
  IN  RunTokens(start, [k \in 1..n |-> look[k - 1]])

(* rbx + N addresses the N-th word: the guest's N, the processor's 8 * N.  *)
AfterMemoryAccess ==
  LET word == start.regs[RBX] + 8 * look[1].immed
      at   == [start EXCEPT !.regs[RCX] = word]
  IN  GuestStep(at, look[4])

(* What the guest program can rely on; where the guest itself is undefined *)
(* (a division by zero) the code may do anything.  No code saves the       *)
(* guest's r8 to r11 from print_decimal.                                   *)
KeptRegs == {RBX} \cup (IF skip = 0 /\ look[0].my_cmd = CMD_MY_OUT THEN 12..15 ELSE 8..15)

Observable(m) ==
  << m.bad, m.stack, m.mem, m.printed, [r \in KeptRegs |-> m.regs[r]] >>

SameAs(guest) == ~guest.bad => Observable(AfterCode) = Observable(guest)

-----------------------------------------------------------------------------
(* An operand the folds take as it is: a small immediate, or a register    *)
(* that is neither a high one nor the accumulator the fold overwrites.     *)
Foldable(token) ==
  \/ token.use_immed
  \/ /\ token.mode = MODE_8_BYTE_IN_ADDRESS
     /\ ~token.use_r8plus_regs
     /\ token.reg # RAX

AddOrSub(token) == token.my_cmd \in {CMD_MY_ADD, CMD_MY_SUB}

Loadable(token) ==
  \/ token.use_immed /\ token.immed >= 0
  \/ ~token.use_immed /\ ~token.use_r8plus_regs /\ token.reg # RBX

(* The windows on which the translation keeps what the guest program       *)
(* computes: the other ones are listed in the README.                      *)
SoundFold ==
  CASE skip = 5 ->
         /\ look[0].mode = MODE_8_BYTE_IN_ADDRESS /\ ~look[0].use_r8plus_regs
         /\ look[1].my_cmd = CMD_MY_PUSH /\ look[2].my_cmd = CMD_MY_ADD
    [] skip = 3 ->
         /\ Loadable(look[0])
         /\ look[1].my_cmd = CMD_MY_PUSH /\ Foldable(look[1])
         /\ AddOrSub(look[2])
    [] skip = 2 -> Foldable(look[0]) /\ AddOrSub(look[1])
    [] skip = 1 -> look[0].my_cmd = CMD_MY_DIV => start.regs[rDX] = 0
    [] OTHER -> FALSE

(* Of a single token a push below -127 is written wrong, and in takes a    *)
(* value off the stack where it should leave one.                          *)
PushedWhole == look[0].use_immed => look[0].immed >= -127

SoundToken == PushedWhole /\ look[0].my_cmd # CMD_MY_IN

(* Hazard: a fold drops, reorders or mistakes an operand.  After a fold    *)
(* the stack, the data memory and the registers that hold the guest's data *)
(* base and its r8+ registers are what the folded tokens would have left   *)
(* (convert_tokens2nonstack_logic, find_convert_memory_access).            *)
FoldsKeepStackLogic ==
  translated /\ skip > 0 /\ SoundFold =>
    SameAs(IF skip = 5 THEN AfterMemoryAccess ELSE AfterTokens)

(* Hazard: a token assembled by itself has another effect on the stack     *)
(* than the guest command (x86_cmd_ctor, encode_token2push_pop).           *)
TokensKeepStackLogic ==
  translated /\ skip = 0 /\ SoundToken => SameAs(AfterTokens)

(* The -1 that a fold of three loads is written as the start of a longer   *)
(* instruction, which takes bytes of the next one.                         *)
LoadedWhole == skip = 3 /\ look[0].use_immed => look[0].immed # -1

(* Hazard: an opcode chosen for one operand size and an operand written    *)
(* with another desynchronises everything that follows.  The bytes of a    *)
(* window are a whole number of instructions (IMMED_PUSH_MRR_MASK and      *)
(* get_sizeof_number2write must agree).                                    *)
CodeIsWhole ==
  translated /\ (IF skip > 0 THEN LoadedWhole ELSE PushedWhole) =>
    ~ \E k \in DOMAIN Disassemble(code) : Disassemble(code)[k].op = "bad"

(* Where the calls of some instructions lead, the first standing at Space. *)
TargetsOf(instrs) ==
  LET end[k \in 0..Len(instrs)] == IF k = 0 THEN Space ELSE end[k - 1] + instrs[k].len
  IN  { end[k] + instrs[k].src.value : k \in { j \in DOMAIN instrs : instrs[j].op = "call" } }

CallTargets == TargetsOf(Disassemble(code))

(* Hazard: the displacement of a call is measured by hand from the start   *)
(* of its token.  in calls scan_decimal; out, whose call comes after the   *)
(* byte of pop rdi, calls the second byte of print_decimal, and nothing    *)
(* but that (encode_print, encode_scan).                                   *)
CallsLand ==
  translated /\ skip = 0 =>
    CASE look[0].my_cmd = CMD_MY_IN  -> CallTargets = {ScanDecimal}
      [] look[0].my_cmd = CMD_MY_OUT -> CallTargets = {PrintDecimal + 1}
      [] OTHER -> CallTargets = {}

(* What the README says of the folds: "We obliged to save stack logic in   *)
(* order to avoid destruction of program logic", for its own example: push *)
(* N; push rax; add leaves N + rax on the stack.                           *)
ReadmeFoldAdds ==
  translated /\ skip = 3
    /\ look[0].use_immed /\ look[0].immed > 0
    /\ look[1] = Arg(CMD_MY_PUSH, MODE_8_BYTE_IN_ADDRESS, RAX, FALSE)
    /\ look[2].my_cmd = CMD_MY_ADD
    => AfterCode.stack = AfterTokens.stack
=============================================================================
