------------------------------- MODULE JitRun -------------------------------
(***************************************************************************)
(* The translation followed by the call of its buffer (run_jit_buffer):    *)
(* the processor of X86Exec runs the very bytes Translator wrote, from the *)
(* first one until it returns to its caller.  One step runs the code of    *)
(* one token or fold, whose last instruction may be a jump or a ret.       *)
(*                                                                         *)
(* Where that leaves the code, or does what no program may rely on, the    *)
(* run is wild and the model stops.                                        *)
(***************************************************************************)
EXTENDS Translator, X86Exec

CONSTANTS
  Caller,      \* the address run_jit_buffer is to be returned to
  Unwritten,   \* what the data memory holds before the program writes it
  MaxWord,     \* the guest's words are 0 .. MaxWord
  GuestValues  \* what the programs compute

VARIABLES
  m,           \* the processor and the data memory
  ip,          \* where it is in the buffer
  listing,     \* the instructions of each token's code, by its offset
  starts,      \* history: the number of the token whose code begins at an offset
  status,
  high,        \* history: the words from this one on were never used
  calls,       \* history: the return addresses of the calls under way
  deep,        \* history: how many calls were under way at most
  sound        \* history: the program is one the translation keeps

runVars == << m, ip, listing, starts, status, high, calls, deep, sound >>

DataEnd == DataMemory + capacity - 8

RunInit ==
  /\ Init
  /\ m = Machine([r \in 0..15 |-> Junk], << Caller >>,
                 [a \in DataMemory .. DataEnd |-> Unwritten])
  /\ ip = 0
  /\ listing = << >> /\ starts = << >>
  /\ status = "translating"
  /\ high = 0 /\ calls = << >> /\ deep = 0
  /\ sound = TRUE

(* What the passes and the patch of Translator need to do their work, and  *)
(* room for pop rax; ret in the buffer.                                    *)
Translatable == Linkable /\ SetUpIsFound /\ size + 1 < capacity

Translation == Prolog \/ TokenStep \/ LinkStep \/ LastStep

(* A step of fill_jit_code_buf.  Of several tokens at one offset, labels   *)
(* and what follows them, starts keeps the first.                          *)
Translate ==
  /\ status = "translating"
  /\ Translation
  /\ starts' = IF phase = "tokens" THEN starts @@ (size :> Min({i, Len(tokens)})) ELSE starts
  /\ sound' = (sound /\ (phase = "memory_offset" => Translatable))
  /\ UNCHANGED << m, ip, listing, status, high, calls, deep >>

-----------------------------------------------------------------------------
(* The code from one entry to the next token's.  The first is all up to    *)
(* the end of the set-up, the last is pop rax and the ret behind it.       *)

Entries == {0} \cup { s \in DOMAIN starts : s >= SetUpEnd }

EndOf(entry) == Min({ s \in Entries : s > entry } \cup {size + 1})

GroupEnd == EndOf(ip)

CodeAt(entry) == [k \in 1 .. EndOf(entry) - entry |-> buf[entry + k - 1]]

Enter ==
  /\ status = "translating" /\ phase = "ready"
  /\ status' = "running"

(* Nothing writes to the buffer from now on, so it can be read at once.    *)
run_jit_buffer ==
  /\ Enter
  /\ listing' = [entry \in Entries |-> Disassemble(CodeAt(entry))]
  /\ UNCHANGED << vars, m, ip, starts, high, calls, deep, sound >>

CondJumps == {"jb", "jbe", "ja", "jae", "je", "jne"}

ControlOps == CondJumps \cup {"jmp", "ret"}

(* The flags are those of the comparison before the jump.                  *)
Taken(before, cmp, op) ==
  LET a == Value(before, cmp.dst)
      b == Value(before, cmp.src)
  IN  CASE op = "jb" -> a < b  [] op = "jbe" -> a <= b [] op = "je"  -> a = b
        [] op = "ja" -> a > b  [] op = "jae" -> a >= b [] op = "jne" -> a # b

(* Where the processor goes from the last instruction of a group.          *)
Following(before, cmp, last) ==
  CASE last.op = "jmp" -> GroupEnd + last.src.value
    [] last.op \in CondJumps /\ cmp.op = "cmp" ->
         IF Taken(before, cmp, last.op) THEN GroupEnd + last.src.value ELSE GroupEnd
    [] last.op = "ret" /\ before.stack # << >> -> Last(before.stack) - JitBuf
    [] OTHER -> GroupEnd

(* The first token from n on that is no label: the one whose code begins   *)
(* there.                                                                  *)
PastLabels(n) ==
  CHOOSE k \in n .. Len(tokens) :
    /\ k < Len(tokens) => TokenAt(k).my_cmd # CMD_MY_LABEL
    /\ \A j \in n .. k - 1 : TokenAt(j).my_cmd = CMD_MY_LABEL

Nowhere == -1

Position(offset) == IF offset \in DOMAIN starts THEN PastLabels(starts[offset]) ELSE Nowhere

Command == IF ip = 0 THEN 0 ELSE TokenAt(Position(ip)).my_cmd

GroupTokens == IF GroupEnd \in DOMAIN starts THEN starts[GroupEnd] - Position(ip) ELSE 1

(* The guest's state, read off the processor and the data memory.  Below   *)
(* the guest's data stack lies the return address of the whole run.        *)
G_pc     == IF ip = 0 THEN PastLabels(2) ELSE Position(ip)
G_stack  == IF m.stack = << >> THEN << >> ELSE Tail(m.stack)
G_words  == [w \in 0 .. MaxWord |-> IF w < high /\ DataMemory + 8 * w \in DOMAIN m.mem
                                    THEN m.mem[DataMemory + 8 * w] ELSE Unwritten]
G_depth  == IF ip = 0 THEN 0 ELSE (DataEnd - m.regs[15]) \div 8
G_calls  == [k \in 1 .. G_depth |-> Position(m.mem[DataEnd + 8 - 8 * k] - JitBuf)]
G_result == IF status = "returned" THEN m.regs[rAX] ELSE "none"

G == INSTANCE GuestCPU WITH
       program <- tokens, pc <- G_pc, stack <- G_stack, words <- G_words,
       calls <- G_calls, printed <- m.printed, result <- G_result

(* The call stack as CallStack sees it; r15 is set by the first group.     *)
CS == INSTANCE CallStack WITH
        mem    <- [a \in 0 .. capacity - 8 |-> m.mem[DataMemory + a]],
        top    <- IF ip = 0 THEN capacity - 8 ELSE m.regs[15] - DataMemory,
        Words  <- 0 .. MaxWord,
        Addresses <- JitBuf .. JitBuf + BufLen,
        Values <- GuestValues \cup {Torn}

-----------------------------------------------------------------------------
(* The guest's memory accesses are last in their group and never by r15.   *)
WordsTouched(before, last) ==
  { (before.regs[o.reg] - DataMemory) \div 8 :
      o \in { x \in {last.dst, last.src} : x.kind = "mem" /\ x.reg # 15 } }

(* The state after a sequence of instructions.  Each is bound to a value:   *)
(* in ENABLED RunGroup TLC would evaluate an expression again at each use. *)
StepOnce(before, instr) == CHOOSE after \in { Step(b, instr) : b \in {before} } : TRUE

RunInstrs(before, instrs) == FoldLeft(StepOnce, before, instrs)

(* The code of one group: all but its last instruction, then that one.     *)
Execute_group ==
  \E group \in {listing[ip]} : \E before \in {RunInstrs(m, Front(group))} :
    LET last     == Last(group)
        straight == \A k \in 1 .. Len(group) - 1 : group[k].op \notin ControlOps
        cmp      == IF Len(group) > 1 THEN group[Len(group) - 1] ELSE last
    IN  \E after \in {StepOnce(before, last)} : \E to \in {Following(before, cmp, last)} :
          /\ m' = after
          /\ status' = CASE after.bad \/ ~straight -> "wild"
                         [] ~after.bad /\ straight /\ to = Caller - JitBuf -> "returned"
                         [] ~after.bad /\ straight /\ to \in Entries -> "running"
                         [] OTHER -> "wild"
          /\ ip' = IF status' = "running" THEN to ELSE ip
          /\ high' = Max({high} \cup { w + 1 : w \in WordsTouched(before, last) })

RunGroup ==
  /\ status = "running"
  /\ Execute_group
  /\ calls' = CASE Command = CMD_MY_CALL -> Append(calls, JitBuf + GroupEnd)
                [] Command = CMD_MY_RET /\ calls # << >> -> Front(calls)
                [] OTHER -> calls
  /\ deep' = Max({deep, Len(calls')})
  /\ sound' = /\ sound
              /\ ip # 0 => G!Sensible(GroupTokens)
              /\ 8 * (high' + deep') <= capacity
  /\ UNCHANGED << vars, listing, starts >>

Over ==
  /\ status \in {"returned", "wild"} \/ phase \in {"endless", "label_overflow"}
  /\ UNCHANGED << vars, runVars >>

RunNext == Translate \/ run_jit_buffer \/ RunGroup \/ Over

(* One thread runs, and nothing but its own return stops it.  Of a run the *)
(* fairness names what the processor does, not the history of it.          *)
RunFairness ==
  /\ WF_vars(Translation)
  /\ WF_status(Enter)
  /\ WF_<< m, ip, status >>(status = "running" /\ Execute_group)

RunSpec == RunInit /\ [][RunNext]_<< vars, runVars >> /\ RunFairness

-----------------------------------------------------------------------------
RunTypeOK ==
  /\ TypeOK
  /\ ip \in 0 .. BufLen
  /\ DOMAIN starts \subseteq 0 .. BufLen
  /\ status \in {"translating", "running", "returned", "wild"}
  /\ high \in Nat /\ deep \in Nat /\ sound \in BOOLEAN
  /\ calls \in Seq(Int)

(* Hazard: each command is translated well and the whole program is not:   *)
(* a jump or a return that lands a byte off, a fold that leaves something  *)
(* the next token trips over, a stack that is not as deep as pop rax; ret  *)
(* expects, calls that overwrite words.  For a program the guest CPU makes *)
(* sense of, whose words and calls have room in the data memory together,  *)
(* every step of the generated code is a step of the guest CPU.            *)
RunsLikeGuest == G!Init /\ [][ sound' => UNCHANGED G!vars \/ G!Next ]_(G!vars)

(* The data memory is used as CallStack describes, also by programs whose  *)
(* calls and words meet, up to the step that loses its way because of it.  *)
StackDiscipline ==
  CS!Init /\ [][ sound' \/ status' # "wild" => UNCHANGED CS!vars \/ CS!Next ]_(CS!vars)

(* Hazard: the address a call stores is counted by hand, and words may be  *)
(* written over it.  The address of every call under way is in its slot as *)
(* long as the slot is above the words used.                               *)
FramesKept == CS!FramesKept

(* Hazard: code that was called has to come back.  A program the           *)
(* translation keeps returns to run_jit_buffer.                            *)
Returns ==
  <>( \/ status = "returned"
      \/ ~sound
      \/ phase = "endless"
      \/ phase = "label_overflow" /\ MoreLabelsThanRoom )
=============================================================================
