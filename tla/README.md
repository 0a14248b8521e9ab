# A verification of the binary translator

The repository is a just-in-time translator: it reads a program of a guest stack
CPU as decimal numbers, turns it into an array of tokens, writes the tokens down
as text, translates them into x86-64 code in one buffer, links the jumps inside
that buffer, and calls it. Everything up to that call runs in one thread. What is
hard is not concurrency but bytes: scans that look for opcodes in finished code,
operand sizes decided in one place and used in another, tables and buffers with
no check of their room, counters of eight bits, and loops that only some inputs
leave.

## 1. Inventory

| Part (source) | State | Operations | Meets the others through |
|---|---|---|---|
| Parser (`src/src/frontend/tokens.cpp`) | place in the text, last command read, count of numbers, `tokens_t` | `parse_text_for_tokens`, `init_token`, `insert_token_args` | the token array |
| IR dump (`src/src/frontend/IR.cpp`) | token index, text buffer | `parse_memory_indent`, `parse_memory_access_block`, `parse_cmd` | reads the token array, runs before the translation |
| Encoder (`src/src/jit/encode_cmd.cpp`, `mem_cmds.cpp`, `math_cmds.cpp`, `jmp_cmds.cpp`, `conditional_cmds.cpp`) | none: a request becomes bytes | `encode_cmd` and what it dispatches to | called for every instruction |
| Folds and single tokens (`src/src/jit/tokens2x86.cpp`) | none: a window of tokens becomes bytes | `convert_tokens2nonstack_logic`, `find_convert_memory_access`, `x86_cmd_ctor` | reads up to four tokens ahead |
| Buffer and linking (`src/src/jit/translate2x86.cpp`, `jit.cpp`, `jmp_cmds.cpp`) | `jit_code_t`, `labels_t`, indices of the loops | `fill_jit_code_buf`: prolog, token loop, two jump passes, patch of the data base, epilogue | the code buffer is written by one step and searched by the next |
| Generated code at run time | registers, data stack (rsp), call stack (r15), data memory | one group of instructions per guest command | two stacks and the data words share memory |
| Pipeline (`src/main.cpp`, `src/src/jit/jit.cpp`, and what they call of the system) | what is allocated or open, an error status, the pages that may be executed | log, arguments, parse, dump, translate, two `mprotect`, call, free | order and error paths |
| Guest I/O (`src/src/jit/myIO.cpp`, `src/src/utils/print.s`) | none | `print_decimal`, `scan_decimal` | called from the generated code |
| Text, arguments, log | a buffer, flags, a log file | `get_text`, `check_arguments`, `log` | the text goes to the parser |

What makes each part correct:

- *Parser*: each number of the text is used once, as a command or as an argument;
  the array has room; a label's offset is the index of its own number, because
  that is what a jump names.
- *IR dump*: it ends, the text fits its buffer, each token stands in one line, and
  the blocks it shows are the ones the translation makes.
- *Encoder*: the processor reads the instruction that was asked for, and as many
  bytes as were written.
- *Folds*: the stack, the data memory and the registers the guest can see are what
  they would be without the fold.
- *Linking*: every jump goes to the code after its label; the passes change
  nothing else; the patch of the data base replaces exactly `push N; pop rbx`; the
  code ends in a `ret`; all this in finite time and inside the buffer.
- *Generated code*: it does, token by token, what the guest CPU does, and comes back;
  calls return to where they came from, as long as the two users of the data memory
  do not meet.
- *Pipeline*: the exit status tells what happened; a crash has a reason among the
  results nobody looks at; what was dumped is there when the code runs.

## 2. Modules

| Module | What it is |
|---|---|
| `Isa` | the command numbers, registers and tokens of the headers, and the bytes of an immediate |
| `Encoder` | `encode_cmd` and its helpers as operators from a request to bytes |
| `X86Decode` | the processor's side: what instruction a byte sequence is. Written from the instruction format alone; it shares no definition with `Encoder` |
| `X86Exec` | executes straight-line code on registers, stack and memory, and executes guest tokens on the same state |
| `Tokens2x86` | the folds and the code of a single token, on a window of five tokens |
| `Translator` | `fill_jit_code_buf` as a state machine over the buffer, the label table and the loop indices |
| `TokenStream` | `parse_text_for_tokens` as a state machine over the text |
| `IRDump` | the loop of `save_tokens_in_text` |
| `GuestCPU` | the abstract specification of a run: a stack CPU on tokens, with a call stack of its own. It shares with the generated code nothing but the tokens |
| `CallStack` | the abstract specification of the data memory: return addresses from its end down, words from its start up, eight bytes each, at byte addresses |
| `JitRun` | `Translator` and then the processor on the bytes it wrote; refines `GuestCPU` and `CallStack` |
| `Pipeline` | `main` and every call it makes of the system, each failing or not |
| `EncoderSpec` | what a request to `encode_cmd` asks for, and the requests that are not encoded as asked; no state |
| `TokenStreamProofs`, `IRDumpProofs`, `CallStackProofs`, `PipelineProofs` | theorems about the module of that name |
| `EncodingProofs` | what `Encoder` and `Tokens2x86` write, as bytes: its length, and how `X86Decode` reads it |
| `EncoderProofs` | from that, the properties of `MCEncoder` |
| `Tokens2x86Proofs` | and those of `MCTokens2x86`: whole instructions, calls, and what the code of a window does |
| `TranslatorProofs` | theorems about `Translator`: its types and lengths, then the two passes, the patch and the return |
| `MCEncoder`, `MCTokens2x86`, `MCTranslator`, `MCTokenStream`, `MCIRDump`, `MCJitRun`, `MCPipeline` | inputs and properties for the model checker |

`Isa` <- `Encoder` <- `Tokens2x86` <- `Translator`; `Isa` <- `X86Decode` <- `X86Exec`;
`Isa` <- `TokenStream`, `IRDump`. `MCTokens2x86` composes the translation with the two
machines of `X86Exec`, `MCIRDump` compares the dump with the folds, and `JitRun` composes
`Translator` with `X86Exec` and maps the result to `GuestCPU` and `CallStack`. `Pipeline`
stands beside them: what happens inside a call of `main` is a constant of it.

### How state and actions correspond to the code

`TokenStream`. A text is the sequence of its numbers, each with the place of its
first character and the place after its last, and its number of characters: what
`sscanf("%d%hhn")` can tell apart in a text of numbers and blanks. `i`, `cmd`,
`n_skipped` and `n_parsed` are the variables of the code; `w` is the next number
`sscanf` will find, `from` records which number a token came from. `ReadCommand`
is the first `sscanf` of a round, the actions of `init_token` are its switch:
`SkipCommand` (hlt and dump return before `size++`), `PlainToken`, `TokenWithArg`
(with the second `sscanf`), `UnknownCommand`. A read that fails leaves the
variables as they are; a read past the end of the text returns any number
(`GarbageArgs`), and the table read with a register number that is none of the
guest's eight returns any byte (`GarbageRegs`), as nothing looks at the number first.
A token of the parser (`ParsedToken`) therefore has a byte for its register, and
`Token`, what the translator and the dump are modelled for, is narrower.
`OperandsExact` is what connects them: only a token whose register operand is none of
the eight, or was looked for behind the last number, may lie outside `Token`.

`IRDump`. One action per parser of a round. A line is kept as its length and the
tokens it stands for. `beyond` is what lies in memory after the tokens.

`Encoder` and `Tokens2x86` are pure. The masks the code ORs together never share
a bit on the requests of `Infos`, so they are sums. `x86_cmd_ctor` takes the
address its first byte will have (`token->space`).

`Translator`. A step is one round of a loop that changes something: a round of
the token loop (`FoldTokens`, `InsertLabel`, `AssembleToken`), one patched or skipped
jump of a pass (`PatchConditionalJmp`, `PatchJmp`, `SkipJmp`), the end of a pass, the
search and patch of `change_memory_offset`, the epilogue. `buf` is the memory from
the start of the buffer on, filled with `C3` up to the capacity of four bytes a
token and with `HeapBytes` behind it. `sites` and `stray` are history: where jumps
were emitted, and which other bytes look like one. A label more than
`MAX_N_LABELS` overwrites the table's own size on the stack; what follows is
undefined, and the model stops there. An offset that a pass reads from the code is
unsigned in the source and signed in the model; both are then too large for a label
and for the size of the code.

`JitRun`. The translation runs first, step by step as in `Translator`. Then one step
(`RunGroup`) decodes and executes the code of one token or fold, whose last instruction
may be a jump or a ret; `starts`, filled during the translation, tells which token the
code at an offset belongs to. The processor's state `m` has sixteen registers, the
data stack with the return address of the whole run at its bottom, and the data memory
with a value for every byte address: a store of eight bytes tears the values of the
addresses around it, so that words and slots that overlap without being the same are
seen. Code that leaves its groups or does what nothing may rely on makes the run
`wild`, and the model stops.

The refinement of `GuestCPU` reads the guest's program counter off the place in the
buffer, its stack off the processor's, its words off the memory from the data base on,
its calls off the memory above r15, and its result off rax. The one of `CallStack`
reads `top` off r15.

`Pipeline`. An action is a call and what is done about its result: it works, the error
goes to `main` (`Return`), or nobody looks (`Ignore`). A program is its number of
tokens, the size of its code, whether the two loops end, and whether the code comes
back. `pages` is how far the first `mprotect` went, in pages.

## 3. Runs

| Run | Bounds | Shows |
|---|---|---|
| `encoder` | 16 registers and none, both memory flags, immediates -200, -127, -1, 0, 127, 128 (both sides of each size test) | what is asked for is what the processor reads |
| `tokens2x86` | all windows of three tokens over 34 commands with immediates -200, -3, -1, 2, 91, 200, all memory access blocks; from three machines: rdx 0 or 3, three values on the stack or one | folds and single tokens keep the guest's meaning, and where the calls of in and out land |
| `translator` | all programs of up to 3 of 18 commands, and of 5 of four short ones; one of 266 bytes; 2 labels | both passes, the patch, the epilogue, the label table at its limit |
| `token_stream` | up to 3 numbers out of 10, of which 1 to 8 name a register and 0 and 9 are next to those; the bytes 1, 16 and 255 around the table; gaps of 1 or 2, trailing blanks 0, 1, 3 | the parser's counts, and what each token is made of |
| `ir_dump` | up to 5 of 8 commands (a block is five), and two blocks in a row | the dump's lines, its buffer and its end |
| `jit_run` | 105 programs: two of five pieces around each of three function bodies, a counted loop, recursion of depth 1 to 21 (a data memory of fewer words), the words of the guest from three above the call stack's end to on it with an even and an odd number of tokens, programs that mean nothing, loops of 270 bytes with and without the set-up, and a table of 9 labels (50 in the code) with one program of 10 | whole programs run like the guest CPU, the two users of the data memory, the return, the eight-bit search and its wrap |
| `pipeline` | code sizes of 22, 4095, 4096, 4097 and 8192 bytes, with and without tokens, every call failing or not | exit status, reasons of a crash, what is left behind |

The commands in the alphabets include the ones whose bytes the scans mistake: 15
is the first byte of a conditional jump, `pop [rcx]` begins with a byte that completes
one, and the code of `sub` holds the byte of a call. Three tokens are enough for every fold but
the memory block, which has its own windows; five short commands are the shortest
programs whose code fits the four bytes a token is given. Longer programs repeat
these windows: each round of the token loop depends on the tokens only through a
window of five.

In `jit_run` the translation keeps 86 of the programs, and they return. Of the rest, whose
words and calls meet in memory or which mean nothing to the guest CPU, 15 lose their way
and one runs for ever; two translations do not end, and one overflows the label table. The pieces are combined because a
fold or a patch could leave something behind that only the next piece trips over.

Five runs expect a violation. Each states a sentence of the repository's README,
which is quoted with its finding in `PROJECT.json`:

- `fold_of_readme`: `push 2; push rax; add` leaves 4: the fold loads 2 into rax first
  and then adds rax.
- `swallowed_label`: a label inside a fold never reaches the table, and the jump to it
  keeps its guest offset.
- `far_conditional`: a conditional jump to an offset above 255 is looked up by the
  lowest byte of the offset.
- `token_from_nothing`: blanks behind the last number repeat the last command.
- `dump_of_unknown`: the dump never ends on a command the parser logged as unknown.

### What the passing properties leave out

The conditions in the properties are the inputs on which the code does not do what
the property says. They are named, and no wider than needed:

- `OutsideEncoder` (encoder): two high registers; a memory source with a high register
  on either side; rsp, rbp, r12, r13 as an address; a negative immediate loaded into a
  register, and -1 into memory; a push of a negative immediate. The translator
  itself asks for none of these but the negative immediate of a fold of three.
- `SoundFold` (folds): the memory block whose second and third token are not
  `push N; add`; a fold of `mul` or `div` with an operand (the encoder refuses it and
  the write stops, or multiplies rax by itself); an operand that is r8 or higher, in
  memory, or rax; a first operand that is negative or rbx; division with something
  in rdx, which nothing clears.
- `LoadedWhole` (`CodeIsWhole`): the immediate -1 as the first operand of a fold of three.
  `mov rax, -1` is written as `49 B8` and four bytes, which the processor reads as the start
  of a `mov` of eight, so that it takes the bytes of what follows. The first bound on
  the immediates did not have it: the attempt to prove `CodeIsWhole` for every one did.
- `SoundToken` and `PushedWhole` (`CodeIsWhole`): a push below -127, which has the opcode of
  a push of one byte and a number of four, so that the processor pushes the lowest one (56 for
  -200) and goes on in the middle of the number. `SoundToken` also leaves out `in`, whose
  code pops into rax after the call instead of pushing what was read.
- `CallsLand` records where the call of out goes and does not approve of it: to the second
  byte of `print_decimal`, as it is measured from `pop rdi`. What the missing byte is depends on the compiler; the
  execution takes the call for one of the function.
- `Unmistakable` (linking): no byte a pass takes for a jump's is another's, and the
  displacement of no external call is a label's offset.
- `Linkable` (linking): besides, no jump to an offset without an entry in the table and
  no conditional jump beyond offset 255.
- `SetUpIsFound` (patch): programs that begin with `push N; pop rbx`, and whose N does
  not contain the byte of `pop rbx`. A push of rbx itself is no such start, as it begins a
  memory block. Besides, the passes were `Unmistakable`: one that takes other bytes for a
  jump's may write into the set-up.
- `TokensFit`: a text of an odd number of characters may need one token more than the array
  has, which is then written behind it.
- `OperandsExact`: tokens whose register operand is none of the guest's eight. What the
  encoder would make of another byte is outside `Translator` and `IRDump`.
- `SizeBound` says what room the code may need, sixteen bytes a token, and the four that are
  reserved are not enough for it: code that outgrows the buffer is written behind it, and
  no property says that this does not happen.
- `Finishes`: programs of more labels than the table has room for, and code of more than 255 bytes without a `pop rbx` among the first 256. The
  search counts them with eight bits and does not end; `jit_run` has two such programs.
- `sound` (run): the program is linkable, its set-up is found and its code ends before
  its buffer does; it makes sense to the guest CPU (`Sensible`: enough on the stack, calls
  before returns, one value at the end); its words and its calls have room in the
  data memory together.
- `StatusTellsTruth`: of the failures that nobody hears of, the close of the dump and
  the array of a program without tokens. `DumpOutlivesCode` leaves out the same close.
- `EndsInRet`: code longer than the buffer, where the byte behind it is not `C3`,
  code of at most 12 bytes, over which `mov rbx` is written, and code that is not
  `Unmistakable`: a pass that takes the last bytes for a jump's writes behind them.
- `ShortNumbers` (dump): numbers of more than nine characters.
- `BeyondTokens` is one token of zeroes in the runs: what `calloc` leaves behind the
  last token as long as the array is longer than the tokens. The constants allow
  more.

### Fairness

`Translator` and `IRDump` state weak fairness of their next-state relation: each is a
function of one thread that nothing outside stops, so it takes its next step as long
as it has one. `JitRun` states it of the translation, of entering the buffer and of the
processor's step: the same thread runs the generated code. Nothing else is assumed;
what may be endless is endless inside the function. `Pipeline` states none: its
properties are about what was done by the time it ends.

## 4. Proofs

TLAPS checks the following for every value of the constants, that is for every text,
program and address and not only the small ones:

| Module | Theorems | From |
|---|---|---|
| `TokenStreamProofs` | `TypeCorrect`, `RoomForTokens`, `LabelsExact`, `LabelsIncrease`, `NumbersOnce`, `OperandsOfNumbers`, `RegistersOfStackCmds` | `TextsAssumption` (numbers separated by blanks, gaps below 256), `GarbageAssumption` (what lies outside the text is numbers, what lies around the table is bytes) |
| `IRDumpProofs` | `TypeCorrect`, `RoomForText`, `TokensInOneLine`, `BlocksAreFolded` | the constants' types only; `RoomForText` keeps the premises of `TextFits` (short numbers, zeroes behind the tokens), and `BlocksAreFolded` asks that only a push or a pop names rbx or rcx (`ParsedTokens`) |
| `EncodingProofs` | `CmdsFit`: a request with any immediate is at most 7 bytes; `FoldsFit`, `TokensFit16`: at most 16 bytes for any window or token | that the two I/O functions have an address, for `TokensFit16` |
| `EncoderProofs` | `Meaning`, `OneInstruction`: the processor reads back every encodable request, and nothing behind it | `ImmediatesAssumption`: an immediate is an int other than the least one |
| `Tokens2x86Proofs` | `FoldsRun`: where `SoundFold` holds, a fold leaves the stack, the memory, the output and the registers the guest keeps as the folded tokens do one by one; `TokensRun`: so does the code of a single token but `in` and a push below -127; both for every immediate, every register and whatever machine the window starts from; `WholeCode`: the code of any window of `Looks` is a whole number of instructions, whatever the immediates; `TokensCall`: in and out call one place, the one `CallsLand` names, and no other token calls anything, wherever the two functions are | `ImmediatesAssumption` (besides, eight times the immediate is such an int, for the memory block), `RegsAssumption` (a token has two bits for its register), `AddressesAssumption` (the addresses are integers, the displacements of the two calls ints), `MachinesAssumption` (a machine has integers in sixteen registers, on the stack and in words of memory that do not overlap) |
| `TranslatorProofs` | `TypeCorrect`, `CodeFits16`, `LabelTableOrdered` | `ProgramsAssumption` (labels carry increasing offsets), `ConstantsAssumption` |
| | `JumpsLand`, `OnlyOperandsPatched`, `RetFollows`, `SetUpIsReplaced` | these two, and `ShortCode`: at most 4095 tokens, labels among the first 65535 numbers, addresses that fit in an int |
| `CallStackProofs` | `TypeCorrect`, `ReturnAddressesKept`, `WordsKept`, `ReturnsFindTheirCall` | that words are numbered by naturals |
| `PipelineProofs` | `TypeCorrect`, `ExitStatusIsTrue`, `CrashesExplained`, `DumpIsThere`, `AllReleased` | `ProgramsAssumption` (a program has a number of tokens and at least one byte of code) |

All assumptions are evaluated by TLC in the runs. That labels carry increasing offsets is
what `LabelsIncrease` proves of the parser, that only a push or a pop names rbx or rcx
what `RegistersOfStackCmds` does, and that a token with a register of the guest is a `Token`
what `OperandsOfNumbers` does, so the theorems of the components meet there.

None of the properties is inductive as it stands.

- *Parser*: `IInv == TypeOK /\ Place /\ Room /\ Count /\ Labels`. That a label has its own
  index needs `Count`, which says that as long as numbers are left `n_parsed` is the number
  of numbers read and `i` stands where the last one ended (or one further); that needs
  `Place`, which relates `i`, `w` and the places of the numbers and makes the `% 256` of
  `%hhn` harmless; `Room` says that two characters have been passed for each token;
  `Labels` bounds the offsets of labels by the running count, which is what makes the next
  one larger.
  `EveryNumberOnce` needs one thing more (`Once`): with at most one character behind the
  last number the only read that can fail is that of an argument at the very end, so that
  every token names a number and no two the same. `OperandsExact` needs `AtHand`: `cmd` is the
  number read last, unless that read failed, which `i` shows; a failed read leaves `i` behind
  the last number, so such a token has no number to be compared with.
- *Dump*: `IInv == TypeOK /\ Within /\ Dense /\ Contiguous /\ Finished`. `Within`: with zeroes
  behind the tokens no line takes one of those for a token; `Dense`: a line takes at most 31
  characters of each of its tokens, which with `Within` bounds the text; `Contiguous`: the
  lines cover every token passed and follow one another, so that no token has two;
  `Finished` says what holds when the loop is left. `TokensInOneLine` holds whatever lies
  behind the tokens.
- *Encoder*: `Inv` only says that `cmd` is what `encode_cmd` leaves for the request; the work is
  in `EncodableIsRight`, which holds in every state of `Inv`. It goes from both ends. The
  decoder's side says what is read from a prefix, an opcode and a ModR/M byte (`FormRead`), from
  those and an immediate (`ImmedFormRead`), and from the forms without REX.W; that a 4-byte
  immediate reads back as the number it was is `Le32Read`, a byte `Byte8`. The encoder's side
  says which of these forms a request is written in: `WidePrefix` and `NamesRegister` that the
  masks put together the prefix and the ModR/M byte of the registers asked for,
  `TwoRegistersRight`, `FromMemoryRight`, `AddImmediateRight` and so on that each kind of
  request is one of the forms. The cases use every exception of `OutsideEncoder` but one: a
  negative immediate other than -1 loaded into a register does read back, as the 32-bit `mov`
  it is, but `SameOp` takes that for the 64-bit one asked for only if nothing is lost above it.
- *Whole instructions*: the processor reads the code of a window from its first byte on, so
  `CodeIsWhole` is about all its instructions together. What makes it go piece by piece is
  `ReadsAs(c, instrs)`: wherever `c` stands in front of other bytes, `Disassemble` reads `instrs`
  and then what it would have read of the rest. Two such pieces make a third (`ReadsBoth`),
  the empty one and any single complete instruction are such (`ReadsNothing`, `ReadsInstr`; the
  latter says that what is read of an instruction does not depend on what stands
  behind it). `Disassemble` is a function from places to listings that looks further on
  only; `ListingExists` and `ListingUnique` say that there is one such function and no
  other, and `ListingOfRest` that it reads a suffix as it would alone. `Whole` is then shown
  of each request a fold or a token makes (`MathWhole`, `LoadOperandWhole`, ...), of the bytes
  that are written by hand (`JmpInstr`, `ConditionalInstr`, ...), and carried over `Then` and `\o`. The
  invariant (`WholeInv`) keeps the window and that its code is `Whole`.
- *Calls*: of the same pieces all but the two external calls are `CallFree`. What is left is a push
  below -127, which is not whole: of it `LongPushRead` says that the processor reads a
  push of one byte and then something of three, and no call fits into fewer than
  five (`CallLength`, `ShortCallFree`). `TwoTargets` measures the call of `in` and of `out` from
  the end of its own instruction; the invariant is `TokenInv`.
- *Meaning of a window*: `Does(c, m, n)` says that the bytes `c` are read as the same
  instructions whatever stands behind them and take the machine `m` to `n`; it joins over
  `Then` and `\o` (`DoesBoth`), so that a window is taken request by request, like its
  length and its bytes before. What `Execution` and `RunTokens` compute is a function from
  the number of steps; `ExecutionPasses` and `AfterTokensAre` say which states it goes through. A
  request is executed as what it names by the encoder's `Meaning` lemmas (`TakesOperand`,
  `TakesPushPop`, `TakesMul`, ...). `Leaves` then says of a sequence which stack, memory and
  output it leaves and which registers it may lose (rax, rdx and rdi for a fold), and `Keeps`
  compares that with `GuestStep`: one lemma for each shape of token (`PushImmedKeeps`,
  `MovesKeeps`, `OutKeeps`, ...) and of fold (`MathKeeps`, `PushMathKeeps`, `PushAnyMathKeeps`,
  `MemoryAccessKeeps`). That a store into memory changes one word needs the words to be eight
  bytes apart (`StoreTearsNothing`), that a folded register is not rax is `HeldApart`, and
  that rdx is 0 is what a division of the guest's two values needs (`TakesDiv`). The
  invariants, `TokenRunInv` and `FoldRunInv`, keep the window, the machine it starts from and that the
  code is what was chosen for it.
- *Translation*: lengths go bottom up. `CmdsFit` bounds an instruction for every immediate by
  cases on the operand size, `FoldsFit` and `TokensFit16` add them up for each shape of fold,
  and `SizeBound` adds those up over the loop; it needs `Start` (the prolog ends at byte 10
  exactly, with or without an int3 in front). `LabelsOrdered` needs `LabelsFromTokens`: every
  entry comes from a label the loop has passed, so the next one has a larger offset. The
  link passes keep the types because each displacement is four bytes of any integer, and
  the table being ordered makes the result of `find_label` one of its entries.
- *Linking*: the passes find jumps by their bytes, so the invariant (`LInv`) keeps account
  of the bytes of each jump from the token that leaves them to the pass that replaces its
  offset. `Jumps` says that every jump of `sites` still stands in the code: its bytes are
  there, no two overlap, and what follows it does not begin with a 0 (which is why an offset
  of fewer than 65536 and the byte behind it never read as another jump); `Filled`
  that nothing but `C3` lies behind the code; `MarksAreJumps` that every place ahead of a
  pass that reads as a jump is one of `sites` (from `stray = {}` and the fact that a patch
  creates none); `HalfLinked` that the jumps ahead of a pass hold their guest offset
  and the ones behind it their displacement. The last two need that a displacement of less
  than 64 KB contains no jump itself (`NoJumpInside`: its two upper bytes are both 0 or both FF),
  and that is what `ShortCode` is for: in longer code a displacement may read as a jump
  with a label's offset, and the pass would patch it again. That an operand reads back as
  what was written is `Le32Read`. `SetUpKept` follows the set-up through the token loop and both
  passes, which write to no byte in front of the first jump. The attempt to prove
  `SetUpReplaced` and `EndsInRet` of every program showed that both need `Unmistakable`, and
  that a push of rbx is no set-up: the programs TLC had been given were too short for it.
- *Call stack*: `IInv == TypeOK /\ FramesKept`, where `TypeOK` has that r15 is eight bytes
  below the end for each call under way. A store tears only what is nearer than eight
  bytes (`StoredKeeps`), a call's slot is eight bytes from every other, and a word below
  `high` is eight bytes from every slot above it. `StackDiscipline` of the run `jit_run` is
  what carries the theorems over to the generated code: that it refines `CallStack` is
  model-checked, what follows from `CallStack` is proved for memories of any size.
- *Pipeline*: `IInv` adds to `TypeOK` and `CrashesForAReason` what holds at each place of
  `main`: which calls can have failed by then and what the status is (`StatusInv`), whether
  there is an array (`TokensInv`), how many pages may be executed (`PagesInv`), where the
  dump is (`DumpInv`), what was released (`ReleaseInv`). `ErrorsShow` is why an exit status
  of 0 means what it says: no error code of the program has a lowest byte of 0.

Only model-checked: liveness (`Finishes`, `Completes`, `Returns`), which is out of the
prover's reach; the two refinements of `JitRun`, its types and `FramesKept`. These would need
`TokensRun` and `FoldsRun` of the code that stands in the buffer, jumps and calls included,
and an invariant that the processor's place in it and the guest's place in the program
belong together; `TokensRun` and `FoldsRun` are the part of that which is about one window.

## 5. Not modelled

- Texts with anything but numbers and blanks, gaps of more than 255 characters.
- Arithmetic is on mathematical integers: an immediate that overflows 32 bits
  (`* 8` in the memory block) is outside the bounds.
- `encode_test`, `pre_encode_call`, `pre_encode_print_scan_call`,
  `change_return_value_src` and `paste_io_decimal_function` have no caller.
- The bodies of `print_decimal` and `scan_decimal`, what is written to the log, the text
  of the dump, the line and word helpers of `text.cpp`.
- What depends on the compiler or the allocator: what `jit` keeps in rbx and r15, which the
  generated code changes and never restores; whether the second byte of `print_decimal`
  is a place to call; the alignment of the stack at that call, which depends on how much
  the guest has pushed; data memories above 4 GB, whose address is cut to 32 bits.
- `hlt` makes no token, so the code runs on past it: it is no command of the guest CPU of
  `GuestCPU`, and a program ends where its tokens do.

## 6. Plan

Done, in this order: `Isa`, `Encoder`, `Tokens2x86`, `Translator`, `TokenStream`, `IRDump` and
their proofs; `GuestCPU`, `CallStack` and `JitRun`, which run whole programs; `Pipeline`; the
proofs of `CallStack` and `Pipeline`; the proofs of linking, of the numbers of the parser, of
the dump's blocks, of the encoder's meaning, of the whole instructions and the calls of a
window, and of what the code of a window does.

Left, in this order:

1. `JitRun` from texts instead of tokens: `TokenStream` in front of it, so that labels get
   their offsets from the parser.
2. Commands with arguments in registers in the whole programs of `MCJitRun`; they are in
   the windows of `MCTokens2x86` only.
3. The proof that `JitRun` runs like the guest CPU, from `FoldsRun` and `TokensRun`.
