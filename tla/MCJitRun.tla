------------------------------ MODULE MCJitRun ------------------------------
(***************************************************************************)
(* Whole programs for JitRun, put together from pieces the translation     *)
(* keeps: see SoundFold of MCTokens2x86 for what they must not contain.    *)
(***************************************************************************)
EXTENDS JitRun

(* In a program written down here a label and the jumps to it have the     *)
(* same name, a negative offset; Resolved gives them the offset the parser *)
(* would.                                                                  *)
Arg(cmd, mode, reg) == [ZeroToken EXCEPT !.my_cmd = cmd, !.mode = mode, !.reg = reg]

Push(v) ==
  << [ZeroToken EXCEPT !.my_cmd = CMD_MY_PUSH, !.reg = INVALID_REG,
                       !.immed = v, !.use_immed = TRUE] >>

Plain(cmd) == << [ZeroToken EXCEPT !.my_cmd = cmd] >>

Named(cmd, name) == << [ZeroToken EXCEPT !.my_cmd = cmd, !.reg = INVALID_REG, !.offset = name] >>

Drop == << [ZeroToken EXCEPT !.my_cmd = CMD_MY_POP, !.reg = INVALID_REG,
                             !.delete_stack_elem = TRUE] >>

PopRbx == << Arg(CMD_MY_POP, MODE_8_BYTE_IN_ADDRESS, RBX) >>

Access(cmd, w) ==
  << Arg(CMD_MY_PUSH, MODE_8_BYTE_IN_ADDRESS, RBX) >> \o Push(w) \o Plain(CMD_MY_ADD)
    \o << Arg(CMD_MY_POP, MODE_8_BYTE_IN_ADDRESS, RCX), Arg(cmd, MODE_REG_ADDRESS, RCX) >>

LoadWord(w) == Access(CMD_MY_PUSH, w)
SaveWord(w) == Access(CMD_MY_POP, w)

Numbers(token) == IF token.my_cmd \in JumpCmds \cup {CMD_MY_PUSH, CMD_MY_POP} THEN 2 ELSE 1

Resolved(cmds) ==
  LET at[k \in 1 .. Len(cmds) + 1] == IF k = 1 THEN 0 ELSE at[k - 1] + Numbers(cmds[k - 1])
      place(name) == CHOOSE k \in DOMAIN cmds : cmds[k].my_cmd = CMD_MY_LABEL /\ cmds[k].offset = name
  IN  [k \in DOMAIN cmds |->
         IF cmds[k].offset < 0 THEN [cmds[k] EXCEPT !.offset = at[place(cmds[k].offset)]]
         ELSE IF cmds[k].my_cmd = CMD_MY_LABEL THEN [cmds[k] EXCEPT !.offset = at[k]]
         ELSE cmds[k]]

FUNC == -1
DONE == -2
LOOP == -3
SKIP == -4

Labels(n) == [k \in 1..n |-> Plain(CMD_MY_LABEL)[1]]

(* The set-up, a main part, a function it may call, and its end, with some *)
(* labels behind it that give its buffer room.                             *)
Program(main, func, padding) ==
  Resolved(Push(100) \o PopRbx \o main \o Named(CMD_MY_JMP, DONE)
             \o Named(CMD_MY_LABEL, FUNC) \o func \o Plain(CMD_MY_RET)
             \o Named(CMD_MY_LABEL, DONE) \o Labels(padding))

-----------------------------------------------------------------------------
(* Pieces that leave the stack as deep as it was: arithmetic with the top, *)
(* an output, a word written, a word added, a call.                        *)
CallFunc == Named(CMD_MY_CALL, FUNC)

Pieces(w) ==
  { Push(3) \o Plain(CMD_MY_SUB), Push(2) \o Plain(CMD_MY_OUT), Push(7) \o SaveWord(w),
    LoadWord(w) \o Plain(CMD_MY_SUB), CallFunc }

Bodies(w) ==
  { << >>, Push(4) \o Plain(CMD_MY_SUB), LoadWord(0) \o SaveWord(w) }

Combined(w) ==
  { Program(Push(6) \o p1 \o p2, b, 7) : p1 \in Pieces(w), p2 \in Pieces(w), b \in Bodies(w) }

(* Counts word 0 down to 0, once around a loop and once by calls within    *)
(* calls.                                                                  *)
Down == LoadWord(0) \o Push(1) \o Plain(CMD_MY_SUB) \o SaveWord(0)

Countdown(n) ==
  Program(Push(n) \o SaveWord(0) \o Named(CMD_MY_LABEL, LOOP) \o Down
            \o LoadWord(0) \o Push(0) \o Named(CMD_MY_JNE, LOOP) \o LoadWord(0), << >>, 0)

Recursion(n, w, padding) ==
  Program(Push(n) \o SaveWord(0) \o CallFunc \o LoadWord(w),
          Down \o LoadWord(0) \o Push(0) \o Named(CMD_MY_JE, SKIP) \o CallFunc
            \o Named(CMD_MY_LABEL, SKIP) \o Push(9) \o SaveWord(w), padding)

(* The same with the word that has words(n) above it: as many as there are *)
(* calls at once, or fewer, or none.  An odd number of tokens makes the    *)
(* memory end half a word after one.                                       *)
Meeting(n, above, padding) ==
  Recursion(n, Len(Recursion(n, 1, padding)) \div 2 - 1 - above, padding)

(* Programs the guest CPU makes no sense of: a return without a call, two  *)
(* values at the end, none.                                                *)
Senseless ==
  { Program(Plain(CMD_MY_RET), << >>, 7), Program(Push(1) \o Push(2), << >>, 7),
    Program(<< >>, << >>, 7) }

(* One label more than the table of the run has room for.                  *)
TooManyLabels == Program(Push(6), << >>, 8)

(* More than 255 bytes of code: a loop around square roots, with and       *)
(* without the set-up of rbx.                                              *)
LongLoop(start, back) ==
  Resolved(start \o Named(CMD_MY_LABEL, LOOP) \o [k \in 1..17 |-> Plain(CMD_MY_SQRT)[1]]
             \o Named(back, LOOP) \o Named(CMD_MY_CALL, LOOP))

SetUp == Push(100) \o PopRbx

RunPrograms ==
  Combined(1)
    \cup { Countdown(n) : n \in {1, 3} }
    \cup { Recursion(n, 1, 0) : n \in {1, 5, 20, 21} }
    \cup { Meeting(n, above, padding) : n \in {2, 3}, above \in 0 .. 3, padding \in {0, 1} }
    \cup Senseless
    \cup { TooManyLabels }
    \cup { LongLoop(start, back) : start \in {SetUp, << >>}, back \in {CMD_MY_JMP, CMD_MY_JB} }

OnlyZeroes == {ZeroToken}
Computed == -10 .. 25
=============================================================================
