------------------------------ MODULE X86Exec ------------------------------
(***************************************************************************)
(* Two machines on the same state, to compare what a run of guest tokens   *)
(* means with what the bytes written for them do: the processor, executing *)
(* straight-line code it decodes with X86Decode, and the guest stack CPU,  *)
(* executing tokens.  Both are known to src/ only through the code it      *)
(* generates for the one and the tokens it reads of the other.             *)
(*                                                                         *)
(* A state has the sixteen registers, the data stack (its top last), the   *)
(* data memory, the integer the floating-point register was loaded with,   *)
(* and what was printed.  Values are mathematical integers: the property   *)
(* compares results that stay far from the width of a register.            *)
(***************************************************************************)
EXTENDS X86Decode, SequencesExt

Machine(regs, stack, mem) ==
  [regs |-> regs, stack |-> stack, mem |-> mem, xmm0 |-> 0, printed |-> << >>, bad |-> FALSE]

Broken(m) == [m EXCEPT !.bad = TRUE]

(* Registers by architectural number, for the few the semantics names.     *)
rAX == 0
rDX == 2
rDI == 7

(* What a called function may leave in a register that is its own to use,  *)
(* a memory word of which another one overwrote a part, and a number read  *)
(* from the input.                                                         *)
Junk  == 900001
Torn  == 900002
Input == 900003
CallerSaved == {rAX, 1, rDX, 6, rDI} \cup 8..11

Value(m, operand) ==
  CASE operand.kind = "reg" -> m.regs[operand.reg]
    [] operand.kind = "mem" -> m.mem[m.regs[operand.reg]]
    [] operand.kind = "imm" -> operand.value

Defined(m, operand) ==
  \/ operand.kind \in {"reg", "imm"}
  \/ operand.kind = "mem" /\ m.regs[operand.reg] \in DOMAIN m.mem

(* Eight bytes are written: every word that starts among them or less than *)
(* eight bytes before them is torn.                                        *)
Overwrite(mem, at, v) ==
  [a \in DOMAIN mem |-> IF a = at THEN v
                        ELSE IF a \in at - 7 .. at + 7 THEN Torn ELSE mem[a]]

Store(m, operand, v) ==
  CASE operand.kind = "reg" -> [m EXCEPT !.regs[operand.reg] = v]
    [] operand.kind = "mem" -> [m EXCEPT !.mem = Overwrite(@, m.regs[operand.reg], v)]

Pushed(m, v) == [m EXCEPT !.stack = Append(@, v)]
Popped(m)    == [m EXCEPT !.stack = Front(@)]

(* print_decimal prints rdi; like any function it keeps the stack and the  *)
(* registers that are its caller's.                                        *)
Printed(m, v) == [m EXCEPT !.printed = Append(@, v)]
Called(m) ==
  [Printed(m, m.regs[rDI]) EXCEPT
     !.regs = [r \in DOMAIN @ |-> IF r \in CallerSaved THEN Junk ELSE @[r]]]

Isqrt(n) == CHOOSE r \in 0..n : r * r <= n /\ n < (r + 1) * (r + 1)

(* A 32-bit write zeroes the upper half, so a negative value becomes one   *)
(* that is far above every other; TwoTo32 stands for 2^32.                 *)
TwoTo32 == 1073741824
LowHalf(v) == IF v < 0 THEN TwoTo32 + v ELSE v

-----------------------------------------------------------------------------
(* The processor.  Where a call, a jump or a ret leads is looked at        *)
(* elsewhere.                                                              *)

Execute(m, i) ==
  CASE i.op \in {"mov", "add", "sub"} /\ Defined(m, i.dst) /\ Defined(m, i.src) ->
         LET v == Value(m, i.src)
         IN  Store(m, i.dst, CASE i.op = "mov" -> v
                               [] i.op = "add" -> Value(m, i.dst) + v
                               [] i.op = "sub" -> Value(m, i.dst) - v)
    [] i.op = "mov32" /\ Defined(m, i.src) -> Store(m, i.dst, LowHalf(Value(m, i.src)))
    [] i.op = "mul" /\ Defined(m, i.dst) ->
         [m EXCEPT !.regs[rAX] = @ * Value(m, i.dst), !.regs[rDX] = 0]
    [] i.op = "div" /\ Defined(m, i.dst) /\ m.regs[rDX] = 0 /\ Value(m, i.dst) > 0 ->
         [m EXCEPT !.regs[rAX] = @ \div Value(m, i.dst), !.regs[rDX] = @ % Value(m, i.dst)]
    [] i.op = "push" /\ Defined(m, i.src) -> Pushed(m, Value(m, i.src))
    [] i.op = "pop" /\ m.stack # << >> /\ Defined(m, i.dst) ->
         Store(Popped(m), i.dst, Last(m.stack))
    [] i.op = "cvtsi2sd" -> [m EXCEPT !.xmm0 = m.regs[rAX]]
    [] i.op = "sqrtsd" /\ m.xmm0 >= 0 -> [m EXCEPT !.xmm0 = Isqrt(@)]
    [] i.op = "cvttsd2si" -> [m EXCEPT !.regs[rAX] = m.xmm0]
    [] i.op = "call" -> Called(m)
    [] i.op = "ret" /\ m.stack # << >> -> Popped(m)
    [] i.op \in {"cmp", "nop"} -> m
    [] i.op \in {"jmp", "jb", "jbe", "ja", "jae", "je", "jne"} -> m
    [] OTHER -> Broken(m)

(* add rsp, 8 is the one instruction on the stack pointer itself.          *)
IsDropTop(i) == i.op = "add" /\ i.dst = Reg(4) /\ i.src = Imm(8)

Step(m, i) ==
  IF IsDropTop(i) /\ m.stack # << >> THEN Popped(m) ELSE Execute(m, i)

(* The instructions a byte sequence reads as, one after the other; a last  *)
(* one that runs past the end reads as a bad one.                          *)
Disassemble(b) ==
  LET from[k \in 1..Len(b) + 1] ==
        IF k > Len(b) THEN << >>
        ELSE LET i == Decode(SubSeq(b, k, Len(b)))
             IN  IF k + i.len > Len(b) + 1 THEN << BadInstr >>
                                           ELSE << i >> \o from[k + i.len]
  IN  from[1]

Execution(m, instrs) ==
  LET after[k \in 0..Len(instrs)] == IF k = 0 THEN m ELSE Step(after[k - 1], instrs[k])
  IN  after[Len(instrs)]

RunBytes(m, b) == Execution(m, Disassemble(b))

-----------------------------------------------------------------------------
(* The guest CPU.  A math command takes the second element from the top as *)
(* its left operand and the top as its right one.                          *)

GuestReg(token) == Reg(IF token.use_r8plus_regs THEN token.reg + 8 ELSE token.reg)

GuestOperand(token) ==
  CASE token.use_immed -> Imm(token.immed)
    [] ~token.use_immed /\ token.mode = MODE_REG_ADDRESS -> Mem(GuestReg(token).reg)
    [] OTHER -> GuestReg(token)

(* The guest's words do not overlap.                                       *)
GuestStore(m, operand, v) ==
  CASE operand.kind = "reg" -> [m EXCEPT !.regs[operand.reg] = v]
    [] operand.kind = "mem" -> [m EXCEPT !.mem[m.regs[operand.reg]] = v]

GuestMath(cmd, a, b) ==
  CASE cmd = CMD_MY_ADD -> a + b
    [] cmd = CMD_MY_SUB -> a - b
    [] cmd = CMD_MY_MUL -> a * b
    [] cmd = CMD_MY_DIV -> a \div b

GuestStep(m, token) ==
  LET depth == Len(m.stack)
      operand == GuestOperand(token)
  IN  CASE token.my_cmd = CMD_MY_PUSH /\ Defined(m, operand) -> Pushed(m, Value(m, operand))
        [] token.my_cmd = CMD_MY_POP /\ depth >= 1 /\ token.delete_stack_elem -> Popped(m)
        [] token.my_cmd = CMD_MY_POP /\ depth >= 1 /\ ~token.delete_stack_elem
             /\ Defined(m, operand) -> GuestStore(Popped(m), operand, Last(m.stack))
        [] token.my_cmd \in MathCmds /\ depth >= 2
             /\ (token.my_cmd = CMD_MY_DIV => Last(m.stack) > 0 /\ m.stack[depth - 1] >= 0) ->
             [m EXCEPT !.stack = Append(Front(Front(@)),
                GuestMath(token.my_cmd, m.stack[depth - 1], Last(m.stack)))]
        [] token.my_cmd = CMD_MY_SQRT /\ depth >= 1 /\ Last(m.stack) >= 0 ->
             [m EXCEPT !.stack = Append(Front(@), Isqrt(Last(@)))]
        [] token.my_cmd = CMD_MY_OUT /\ depth >= 1 -> Printed(Popped(m), Last(m.stack))
        [] token.my_cmd = CMD_MY_IN -> Pushed(m, Input)
        [] token.my_cmd \in CondJmpCmds /\ depth >= 2 -> Popped(Popped(m))
        [] token.my_cmd \in {CMD_MY_JMP, CMD_MY_LABEL} -> m
        [] OTHER -> Broken(m)

RunTokens(m, tokens) ==
  LET after[k \in 0..Len(tokens)] == IF k = 0 THEN m ELSE GuestStep(after[k - 1], tokens[k])
  IN  after[Len(tokens)]
=============================================================================
