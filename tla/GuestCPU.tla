------------------------------ MODULE GuestCPU ------------------------------
(***************************************************************************)
(* The guest stack CPU running a program of tokens: what the generated     *)
(* code promises.  It has a data stack, a stack of return positions of its *)
(* own, and data words that nothing else touches; the registers, which     *)
(* lead from one command to the next inside a memory access only, belong   *)
(* to the step of that access.                                             *)
(*                                                                         *)
(* A program begins with push N; pop rbx, which says where its data words  *)
(* are; they are numbered from there.  A position is the number of tokens  *)
(* before it.                                                              *)
(***************************************************************************)
EXTENDS X86Exec

CONSTANTS
  Programs,
  MaxWord,     \* the data words are 0 .. MaxWord
  Unwritten    \* what a word holds before the program writes it

VARIABLES
  program,
  pc,          \* the position of the next token that is no label
  stack,       \* its top last
  words,
  calls,       \* the positions calls return to
  printed,
  result       \* what the program left on the stack, or None

vars == << program, pc, stack, words, calls, printed, result >>

None == "none"

TokenThere(n) == program[n + 1]

(* The first position from n on with a token that is no label.             *)
Settle(n) ==
  CHOOSE k \in n .. Len(program) :
    /\ k < Len(program) => TokenThere(k).my_cmd # CMD_MY_LABEL
    /\ \A j \in n .. k - 1 : TokenThere(j).my_cmd = CMD_MY_LABEL

Init ==
  /\ program \in Programs
  /\ pc = Settle(2)
  /\ stack = << >> /\ calls = << >> /\ printed = << >>
  /\ words = [w \in 0 .. MaxWord |-> Unwritten]
  /\ result = None

Stands(cmds) == pc < Len(program) /\ TokenThere(pc).my_cmd \in cmds

Straight == MathCmds \cup {CMD_MY_PUSH, CMD_MY_POP, CMD_MY_SQRT, CMD_MY_OUT}

(* The state after the n commands from pc on; rbx is word 0.               *)
After(n) ==
  RunTokens([Machine([r \in 0..15 |-> 0], stack, words) EXCEPT !.printed = printed],
            SubSeq(program, pc + 1, pc + n))

CanAdvance(n) ==
  /\ result = None
  /\ pc + n <= Len(program)
  /\ \A k \in pc .. pc + n - 1 : TokenThere(k).my_cmd \in Straight
  /\ ~After(n).bad

(* Up to five commands without a jump, the most one fold stands for.       *)
Advance(n) ==
  /\ CanAdvance(n)
  /\ stack' = After(n).stack
  /\ words' = After(n).mem
  /\ printed' = After(n).printed
  /\ pc' = Settle(pc + n)
  /\ UNCHANGED << program, calls, result >>

(* A jump whose target is a label's offset goes to that label.             *)
IsTarget(k, offset) ==
  k < Len(program) /\ TokenThere(k).my_cmd = CMD_MY_LABEL /\ TokenThere(k).offset = offset

HasTarget(offset) == \E k \in 0 .. Len(program) : IsTarget(k, offset)

Target(offset) == Settle(CHOOSE k \in 0 .. Len(program) : IsTarget(k, offset))

CanJump == Stands({CMD_MY_JMP, CMD_MY_CALL}) /\ HasTarget(TokenThere(pc).offset)

Jump ==
  /\ CanJump /\ Stands({CMD_MY_JMP})
  /\ pc' = Target(TokenThere(pc).offset)
  /\ UNCHANGED << program, stack, words, calls, printed, result >>

(* The top of the stack is compared with the element below it, and both    *)
(* are gone.                                                               *)
Holds(cmd, top, second) ==
  CASE cmd = CMD_MY_JB  -> top < second
    [] cmd = CMD_MY_JBE -> top <= second
    [] cmd = CMD_MY_JA  -> top > second
    [] cmd = CMD_MY_JAE -> top >= second
    [] cmd = CMD_MY_JE  -> top = second
    [] cmd = CMD_MY_JNE -> top # second

CanCompare ==
  Stands(CondJmpCmds) /\ HasTarget(TokenThere(pc).offset) /\ Len(stack) >= 2

CondJump ==
  /\ CanCompare
  /\ stack' = Front(Front(stack))
  /\ pc' = IF Holds(TokenThere(pc).my_cmd, Last(stack), Last(Front(stack)))
           THEN Target(TokenThere(pc).offset) ELSE Settle(pc + 1)
  /\ UNCHANGED << program, words, calls, printed, result >>

Call ==
  /\ CanJump /\ Stands({CMD_MY_CALL})
  /\ calls' = Append(calls, Settle(pc + 1))
  /\ pc' = Target(TokenThere(pc).offset)
  /\ UNCHANGED << program, stack, words, printed, result >>

CanReturn == Stands({CMD_MY_RET}) /\ calls # << >>

Ret ==
  /\ CanReturn
  /\ pc' = Last(calls)
  /\ calls' = Front(calls)
  /\ UNCHANGED << program, stack, words, printed, result >>

(* A program that runs off its end has one value on the stack: its result. *)
CanHalt == result = None /\ pc = Len(program) /\ Len(stack) = 1

Halt ==
  /\ CanHalt
  /\ result' = Last(stack)
  /\ stack' = << >>
  /\ UNCHANGED << program, pc, words, calls, printed >>

Next == (\E n \in 1..5 : Advance(n)) \/ Jump \/ CondJump \/ Call \/ Ret \/ Halt

Spec == Init /\ [][Next]_vars

(* The program means something to the guest CPU: n commands from here, or  *)
(* the jump or the end it has come to.                                     *)
Sensible(n) == CanAdvance(n) \/ CanJump \/ CanCompare \/ CanReturn \/ CanHalt
=============================================================================
