------------------------- MODULE TokenStreamProofs -------------------------
(***************************************************************************)
(* TokenStream for every set of texts: the types, the room in the token    *)
(* array, the offsets of labels, and which numbers, registers and operands *)
(* the tokens got.                                                         *)
(***************************************************************************)
EXTENDS TokenStream, TLAPS

-----------------------------------------------------------------------------
(* The tokens of one command.                                              *)

LEMMA RegsType ==
  ASSUME NEW arg \in Int
  PROVE  /\ convert_my_regs2x86_regs(arg) \subseteq Byte
         /\ arg \in 1..8 => my2x86_regs[arg] \in 0..RBX
<1>1. CASE arg \in 1..8
  <2>1. arg = 1 \/ arg = 2 \/ arg = 3 \/ arg = 4 \/ arg = 5 \/ arg = 6 \/ arg = 7 \/ arg = 8
    BY <1>1
  <2>2. my2x86_regs[arg] \in 0..3
    BY <2>1 DEF my2x86_regs
  <2> QED
    BY <1>1, <2>2 DEF convert_my_regs2x86_regs, RBX, Byte
<1>2. CASE arg \notin 1..8
  BY <1>2, GarbageAssumption DEF convert_my_regs2x86_regs
<1> QED
  BY <1>1, <1>2

LEMMA MaskedType ==
  ASSUME NEW c \in Int
  PROVE  Masked(c) \in 0..31
BY DEF Masked

LEMMA TokenOfType ==
  ASSUME NEW cmd0 \in 0..31, NEW high \in BOOLEAN, NEW reg \in Byte,
         NEW mode \in {MODE_NONE, MODE_8_BYTE_IN_ADDRESS, MODE_REG_ADDRESS}
  PROVE  TokenOf(cmd0, reg, high, mode) \in ParsedToken /\ TokenOf(cmd0, reg, high, mode).my_cmd = cmd0
BY DEF ParsedToken, TokenOf

LEMMA ZeroTokenType == ZeroToken \in ParsedToken /\ ZeroToken.my_cmd = 0
<1>1. 0 \in 0..31 /\ 0 \in Byte
  BY DEF Byte
<1> QED
  BY <1>1, TokenOfType, Zenon DEF ZeroToken

LEMMA BareType ==
  ASSUME NEW c \in Int
  PROVE  Bare(c) \in ParsedToken /\ Bare(c).my_cmd = Masked(c)
<1>1. INVALID_REG \in Byte
  BY DEF Byte, INVALID_REG
<1> QED
  BY <1>1, MaskedType, TokenOfType, Zenon DEF Bare

LEMMA RegisterArgType ==
  ASSUME NEW c \in Int, NEW arg \in Int, NEW reg \in Byte,
         NEW mode \in {MODE_8_BYTE_IN_ADDRESS, MODE_REG_ADDRESS}
  PROVE  RegisterArg(c, arg, mode, reg) \in ParsedToken /\ RegisterArg(c, arg, mode, reg).my_cmd = Masked(c)
<1>1. (arg >= 5) \in BOOLEAN
  OBVIOUS
<1>2. mode \in {MODE_NONE, MODE_8_BYTE_IN_ADDRESS, MODE_REG_ADDRESS}
  OBVIOUS
<1> QED
  BY <1>1, <1>2, MaskedType, TokenOfType, Zenon DEF RegisterArg

LEMMA RegisterFormsType ==
  ASSUME NEW c \in Int, NEW arg \in Int, NEW token \in RegisterForms(c, arg)
  PROVE  token \in ParsedToken /\ token.my_cmd = Masked(c)
BY BareType, RegisterArgType, RegsType DEF RegisterForms

LEMMA ImmedArgType ==
  ASSUME NEW c \in Int, NEW arg \in Int
  PROVE  LET new == [Bare(c) EXCEPT !.immed = arg, !.use_immed = TRUE]
         IN  new \in ParsedToken /\ new.my_cmd = Masked(c)
<1> DEFINE withImmed == [Bare(c) EXCEPT !.immed = arg]
<1>1. withImmed \in ParsedToken /\ withImmed.my_cmd = Masked(c)
  <2>1. Bare(c) \in ParsedToken /\ Bare(c).my_cmd = Masked(c)
    BY BareType
  <2> QED
    BY <2>1 DEF ParsedToken
<1>2. [Bare(c) EXCEPT !.immed = arg, !.use_immed = TRUE] = [withImmed EXCEPT !.use_immed = TRUE]
  OBVIOUS
<1> HIDE DEF withImmed
<1> QED
  BY <1>1, <1>2 DEF ParsedToken

(* Whatever the argument, the token has a type and the command's number.   *)
LEMMA ArgTokenType ==
  ASSUME NEW c \in Int, NEW arg \in Int, NEW token \in insert_token_args(c, arg)
  PROVE  token \in ParsedToken /\ token.my_cmd = Masked(c)
<1> DEFINE deleting == [Bare(c) EXCEPT !.delete_stack_elem = TRUE]
<1>1. deleting \in ParsedToken /\ deleting.my_cmd = Masked(c)
  <2>1. Bare(c) \in ParsedToken /\ Bare(c).my_cmd = Masked(c)
    BY BareType
  <2>2. TRUE \in BOOLEAN
    OBVIOUS
  <2> QED
    BY <2>1, <2>2 DEF ParsedToken
<1>2. LET new == [Bare(c) EXCEPT !.offset = arg]
      IN  new \in ParsedToken /\ new.my_cmd = Masked(c)
  BY BareType DEF ParsedToken
<1> QED
  BY <1>1, <1>2, ImmedArgType, RegisterFormsType DEF insert_token_args

LEMMA PlainTokenType ==
  ASSUME NEW c \in Int, NEW n \in Int
  PROVE  LET new == [TokenOf(Masked(c), 0, FALSE, MODE_NONE) EXCEPT !.offset = n]
         IN  new \in ParsedToken /\ new.my_cmd = Masked(c) /\ new.offset = n
<1>1. TokenOf(Masked(c), 0, FALSE, MODE_NONE) \in ParsedToken
      /\ TokenOf(Masked(c), 0, FALSE, MODE_NONE).my_cmd = Masked(c)
  <2>1. 0 \in Byte
    BY DEF Byte
  <2> QED
    BY <2>1, MaskedType, TokenOfType, Zenon
<1> QED
  BY <1>1 DEF ParsedToken

-----------------------------------------------------------------------------
(* What the room in the array and the offsets of labels rest on.           *)

(* The place in the text is past the numbers read and before those to come,*)
(* and the first read succeeded, so a stale n_skipped is at least 1.       *)
Place ==
  /\ pc = "read" =>
       /\ w > 1 => i > text.words[w - 1].end
       /\ HasWord(w) => i <= text.words[w].start
  /\ pc = "init_token" =>
       /\ w > 1
       /\ i >= text.words[w - 1].end
       /\ HasWord(w) => i = text.words[w - 1].end
  /\ w > 1 => n_skipped >= 1

(* Two characters for each token.                                          *)
Room ==
  /\ pc = "read" => 2 * Len(tokens) <= i
  /\ pc = "init_token" => 2 * Len(tokens) + 1 <= i /\ 2 * Len(tokens) < text.n_chars
  /\ 2 * Len(tokens) <= text.n_chars + 1

(* The running count is the number read last until a read fails.           *)
Count ==
  /\ pc = "read" /\ HasWord(w) => n_parsed = w - 1
  /\ pc = "init_token" /\ i = text.words[w - 1].end => n_parsed = w - 1

IsLabel(token) == token.my_cmd = CMD_MY_LABEL

Labels ==
  /\ \A k \in 1..Len(tokens) : IsLabel(tokens[k]) => tokens[k].offset < n_parsed
  /\ pc = "init_token" => \A k \in 1..Len(tokens) : IsLabel(tokens[k]) => tokens[k].offset < n_parsed - 1
  /\ LabelOffsetsIncrease
  /\ LabelOffsetsExact

IInv == TypeOK /\ Place /\ Room /\ Count /\ Labels

LEMMA WordFacts ==
  ASSUME NEW t, IsText(t), NEW k \in 1..Len(t.words)
  PROVE  /\ t.words[k].value \in Int /\ t.words[k].start \in Nat /\ t.words[k].end \in Nat
         /\ t.n_chars \in Nat
         /\ t.words[k].start < t.words[k].end
         /\ t.words[k].end <= t.n_chars
         /\ k = 1 => t.words[k].end <= 255
         /\ k > 1 => /\ t.words[k - 1].end \in Nat
                     /\ t.words[k - 1].end < t.words[k].start
                     /\ t.words[k].end - t.words[k - 1].end <= 255
<1>1. t.words \in Seq(Word) /\ t.n_chars \in Nat
  BY DEF IsText
<1>2. t.words[k] \in Word /\ (k > 1 => k - 1 \in 1..Len(t.words) /\ t.words[k - 1] \in Word)
  BY <1>1
<1>3. k > 1 => t.words[k - 1].end < t.words[k].start
  BY <1>2 DEF IsText
<1>4. /\ t.words[k].start < t.words[k].end
      /\ t.words[k].end <= t.n_chars
      /\ t.words[k].end - (IF k = 1 THEN 0 ELSE t.words[k - 1].end) <= 255
  BY DEF IsText
<1>5. /\ t.words[k].value \in Int /\ t.words[k].start \in Nat /\ t.words[k].end \in Nat
      /\ k > 1 => t.words[k - 1].end \in Nat
  BY <1>2 DEF Word
<1> QED
  BY <1>1, <1>3, <1>4, <1>5

(* A distance of at most 255 is what an unsigned char holds of it.         *)
LEMMA ShortDistance ==
  ASSUME NEW a \in Nat, NEW b \in Nat, b < a, a - b <= 255
  PROVE  (a - b) % 256 = a - b /\ a - b \in 1..255
<1> DEFINE d == a - b
<1>1. d \in 1..255
  OBVIOUS
<1> HIDE DEF d
<1>2. d % 256 = d
  BY <1>1
<1> QED
  BY <1>1, <1>2 DEF d

(* Where a read finds the next number: at most 255 characters ahead.       *)
LEMMA NextWord ==
  ASSUME TypeOK, Place, HasWord(w), pc \in {"read", "init_token"}
  PROVE  /\ w \in 1..Len(text.words) /\ w + 1 \in 1..Len(text.words) + 1
         /\ i < text.words[w].end
         /\ (text.words[w].end - i) % 256 = text.words[w].end - i
         /\ text.words[w].end - i \in 1..255
         /\ text.words[w].value \in Int /\ text.words[w].end \in Nat
         /\ text.words[w].end <= text.n_chars
         /\ w > 1 => text.words[w].end > text.words[w - 1].end
         /\ HasWord(w + 1) => text.words[w].end < text.words[w + 1].start
<1>1. w \in 1..Len(text.words) /\ IsText(text) /\ i \in Nat /\ Len(text.words) \in Nat
  <2>1. w \in 1..Len(text.words) + 1 /\ i \in Nat /\ IsText(text)
    BY DEF TypeOK
  <2>2. w <= Len(text.words)
    BY DEF HasWord
  <2>3. Len(text.words) \in Nat
    BY <2>1 DEF IsText
  <2> QED
    BY <2>1, <2>2, <2>3
<1>2. HasWord(w + 1) => text.words[w].end < text.words[w + 1].start
  <2>1. SUFFICES ASSUME HasWord(w + 1) PROVE text.words[w].end < text.words[w + 1].start
    OBVIOUS
  <2>2. w + 1 \in 1..Len(text.words)
    BY <1>1, <2>1 DEF HasWord
  <2> QED
    BY <1>1, <2>2, WordFacts
<1>3. /\ text.words[w].value \in Int /\ text.words[w].start \in Nat /\ text.words[w].end \in Nat
      /\ text.words[w].start < text.words[w].end
      /\ text.words[w].end <= text.n_chars
      /\ w = 1 => text.words[w].end <= 255
      /\ w > 1 => /\ text.words[w - 1].end \in Nat
                  /\ text.words[w - 1].end < text.words[w].start
                  /\ text.words[w].end - text.words[w - 1].end <= 255
  BY <1>1, WordFacts
<1>4. i < text.words[w].end /\ text.words[w].end - i <= 255
  BY SMTT(20), <1>1, <1>3 DEF Place
<1>5. /\ (text.words[w].end - i) % 256 = text.words[w].end - i
      /\ text.words[w].end - i \in 1..255
  BY <1>1, <1>3, <1>4, ShortDistance
<1>6. w > 1 => text.words[w].end > text.words[w - 1].end
  BY <1>3
<1> QED
  BY <1>1, <1>2, <1>3, <1>4, <1>5, <1>6

-----------------------------------------------------------------------------
LEMMA TokenFields ==
  ASSUME TypeOK
  PROVE  /\ \A k \in 1..Len(tokens) : tokens[k].offset \in Int /\ tokens[k].my_cmd \in 0..31
         /\ \A k \in 1..Len(tokens) : from[k] \in Nat
         /\ Len(tokens) \in Nat
<1>1. tokens \in Seq(ParsedToken) /\ from \in Seq(Nat) /\ Len(from) = Len(tokens)
  BY DEF TypeOK
<1>2. \A k \in 1..Len(tokens) : tokens[k] \in ParsedToken
  BY <1>1
<1> QED
  BY SMTT(20), <1>1, <1>2 DEF ParsedToken

LEMMA InitIInv == Init => IInv
<1> SUFFICES ASSUME Init PROVE IInv
  OBVIOUS
<1>1. IsText(text)
  BY TextsAssumption DEF Init
<1>2. text.n_chars \in Nat /\ Len(text.words) \in Nat /\ Len(text.words) >= 1
  BY <1>1 DEF IsText
<1>3. TypeOK
  BY <1>1, <1>2 DEF Init, TypeOK
<1>4. Place
  <2>1. HasWord(1) => text.words[1].start \in Nat
    BY <1>1, <1>2, WordFacts DEF HasWord
  <2> QED
    BY <2>1 DEF Init, Place
<1>5. Room /\ Count /\ Labels
  BY <1>2 DEF Init, Room, Count, Labels, LabelOffsetsIncrease, LabelOffsetsExact, size
<1> QED
  BY <1>3, <1>4, <1>5 DEF IInv

LEMMA ReadCommandIInv == IInv /\ ReadCommand => IInv'
<1> SUFFICES ASSUME IInv, ReadCommand PROVE IInv'
  OBVIOUS
<1> USE DEF IInv
<1>1. /\ IsText(text) /\ i \in Nat /\ n_parsed \in Nat /\ cmd \in Int /\ n_skipped \in 0..255
      /\ w \in 1..Len(text.words) + 1 /\ Len(text.words) \in Nat /\ Len(text.words) >= 1
      /\ text.n_chars \in Nat /\ Len(tokens) \in Nat
  BY DEF TypeOK, IsText
<1>2. /\ pc = "read" /\ pc' = "init_token" /\ i < text.n_chars
      /\ text' = text /\ tokens' = tokens /\ from' = from
      /\ n_parsed' = n_parsed + 1 /\ i' = i + n_skipped'
  BY DEF ReadCommand
<1>5. Labels'
  <2>1. \A k \in 1..Len(tokens) : tokens[k].offset \in Int
    BY TokenFields
  <2>2. \A k \in 1..Len(tokens) : IsLabel(tokens[k]) => tokens[k].offset < n_parsed
    BY DEF Labels
  <2>3. \A k \in 1..Len(tokens) : IsLabel(tokens'[k]) => IsLabel(tokens[k])
    BY <1>2
  <2>4. \A k \in 1..Len(tokens) : IsLabel(tokens'[k]) => tokens[k].offset < n_parsed' - 1
                                              /\ tokens[k].offset < n_parsed'
    BY <1>1, <1>2, <2>1, <2>2, <2>3
  <2>5. LabelOffsetsIncrease' /\ LabelOffsetsExact'
    BY <1>2 DEF Labels, LabelOffsetsIncrease, LabelOffsetsExact, size
  <2> QED
    BY <1>2, <2>4, <2>5 DEF Labels
<1>3. CASE HasWord(w)
  <2>0. /\ w \in 1..Len(text.words) /\ w + 1 \in 1..Len(text.words) + 1
        /\ text.words[w].value \in Int /\ text.words[w].end \in Nat
    BY <1>2, <1>3, NextWord
  <2>1. /\ cmd' = text.words[w].value /\ w' = w + 1
        /\ n_skipped' = text.words[w].end - i /\ n_skipped' \in 1..255
    BY ZenonT(30), <1>2, <1>3, NextWord DEF ReadCommand
  <2>2. /\ i' = text.words[w].end
        /\ w' \in 1..Len(text.words) + 1 /\ w' - 1 = w /\ w' > 1
    BY SMTT(20), <1>1, <1>2, <2>0, <2>1
  <2>3. TypeOK'
    <3>1. tokens \in Seq(ParsedToken) /\ from \in Seq(Nat) /\ Len(from) = Len(tokens)
      BY DEF TypeOK
    <3>2. n_skipped' \in 0..255 /\ i' \in Nat /\ n_parsed' \in Nat /\ cmd' \in Int
      BY <1>1, <1>2, <2>0, <2>1, <2>2
    <3> QED
      BY <1>1, <1>2, <2>2, <3>1, <3>2 DEF TypeOK
  <2>4. Place'
    <3>1. text'.words[w' - 1].end = text.words[w].end
      BY <1>2, <2>2
    <3>2. i' = text'.words[w' - 1].end /\ i' >= text'.words[w' - 1].end
      BY <2>0, <2>2, <3>1
    <3>3. n_skipped' >= 1
      BY SMTT(20), <2>1
    <3> QED
      BY <1>2, <2>2, <3>2, <3>3 DEF Place
  <2>5. Room'
    <3>1. 2 * Len(tokens) <= i /\ 2 * Len(tokens) <= text.n_chars + 1
      BY <1>2 DEF Room
    <3>2. i \in Nat /\ i' > i /\ i' \in Nat
      <4>1. i < text.words[w].end
        BY <1>2, <1>3, NextWord
      <4> QED
        BY <1>1, <2>0, <2>2, <4>1
    <3>3. Len(tokens) \in Nat
      BY <1>1
    <3>4. 2 * Len(tokens) + 1 <= i'
      BY <3>1, <3>2, <3>3
    <3> QED
      BY <1>1, <1>2, <3>1, <3>4 DEF Room
  <2>6. Count'
    BY <1>1, <1>2, <1>3, <2>1, <2>2 DEF Count
  <2> QED
    BY <1>5, <2>3, <2>4, <2>5, <2>6
<1>4. CASE ~HasWord(w)
  <2>1. w = Len(text.words) + 1 /\ w > 1
    BY <1>1, <1>4 DEF HasWord
  <2>2. cmd' = cmd /\ n_skipped' = n_skipped /\ w' = w /\ n_skipped >= 1 /\ i' = i + n_skipped
    BY <1>2, <1>4, <2>1 DEF ReadCommand, Place
  <2>3. TypeOK'
    BY <1>1, <1>2, <2>1, <2>2 DEF TypeOK
  <2>4. text.words[w - 1].end \in Nat /\ i > text.words[w - 1].end
    BY <1>1, <1>2, <2>1, WordFacts DEF Place
  <2>5. Place' /\ Count'
    BY <1>1, <1>2, <1>4, <2>1, <2>2, <2>4 DEF Place, Count, HasWord
  <2>6. Room'
    BY <1>1, <1>2, <2>2 DEF Room
  <2> QED
    BY <1>5, <2>3, <2>5, <2>6
<1> QED
  BY <1>3, <1>4

-----------------------------------------------------------------------------
(* What the three actions that end with size++ have in common.             *)

AppendsToken(token) ==
  /\ token \in ParsedToken
  /\ token.my_cmd = CMD_MY_LABEL => token.offset = n_parsed - 1
  /\ tokens' = Append(tokens, token)
  /\ from' = Append(from, Source)

LEMMA AppendedLabels ==
  ASSUME IInv, pc = "init_token", pc' = "read",
         NEW token, AppendsToken(token), n_parsed' \in Nat, n_parsed' >= n_parsed
  PROVE  Labels'
<1> USE DEF IInv
<1> DEFINE n == Len(tokens)
<1>1. /\ n \in Nat /\ n_parsed \in Nat
      /\ tokens \in Seq(ParsedToken) /\ from \in Seq(Nat) /\ Len(from) = n
      /\ \A k \in 1..n : tokens[k].offset \in Int
  BY TokenFields DEF TypeOK
<1>2. /\ Len(tokens') = n + 1
      /\ tokens'[n + 1] = token /\ \A k \in 1..n : tokens'[k] = tokens[k]
      /\ from'[n + 1] = Source /\ \A k \in 1..n : from'[k] = from[k]
  BY <1>1 DEF AppendsToken
<1>3. /\ \A k \in 1..n : IsLabel(tokens[k]) => tokens[k].offset < n_parsed - 1
      /\ \A k \in 1..n : IsLabel(tokens'[k]) <=> IsLabel(tokens[k])
      /\ IsLabel(token) => token.offset = n_parsed - 1
  <2>1. \A k \in 1..n : IsLabel(tokens[k]) => tokens[k].offset < n_parsed - 1
    BY DEF Labels
  <2> QED
    BY <1>2, <2>1 DEF AppendsToken, IsLabel
<1>4. \A k \in 1..Len(tokens') : IsLabel(tokens'[k]) => tokens'[k].offset < n_parsed'
  <2>1. SUFFICES ASSUME NEW k \in 1..Len(tokens'), IsLabel(tokens'[k])
                 PROVE  tokens'[k].offset < n_parsed'
    OBVIOUS
  <2>2. CASE k = n + 1
    BY <1>1, <1>2, <1>3, <2>1, <2>2
  <2>3. CASE k \in 1..n
    BY <1>1, <1>2, <1>3, <2>1, <2>3
  <2> QED
    BY <1>1, <1>2, <2>1, <2>2, <2>3
<1>5. LabelOffsetsIncrease'
  <2>1. SUFFICES ASSUME NEW j \in 1..n + 1, NEW k \in 1..n + 1, j < k, IsLabel(tokens'[j]), IsLabel(tokens'[k])
                 PROVE  tokens'[j].offset < tokens'[k].offset
    BY <1>2 DEF LabelOffsetsIncrease, IsLabel, size
  <2>2. j \in 1..n
    BY <1>1, <2>1
  <2>3. CASE k = n + 1
    BY <1>1, <1>2, <1>3, <2>1, <2>2, <2>3
  <2>4. CASE k \in 1..n
    <3>1. IsLabel(tokens[j]) /\ IsLabel(tokens[k])
      BY <1>3, <2>1, <2>2, <2>4
    <3>2. tokens[j].offset < tokens[k].offset
      BY <2>1, <2>2, <2>4, <3>1 DEF Labels, LabelOffsetsIncrease, IsLabel, size
    <3> QED
      BY <1>2, <2>2, <2>4, <3>2
  <2> QED
    BY <1>1, <2>1, <2>3, <2>4
<1>6. LabelOffsetsExact'
  <2>1. SUFFICES ASSUME NEW k \in 1..n + 1, IsLabel(tokens'[k]), from'[k] > 0
                 PROVE  tokens'[k].offset = from'[k] - 1
    BY <1>2 DEF LabelOffsetsExact, IsLabel, size
  <2>2. CASE k = n + 1
    <3>1. Source > 0 /\ from'[k] = Source /\ tokens'[k].offset = n_parsed - 1
      BY <1>2, <1>3, <2>1, <2>2
    <3>2. Source = w - 1 /\ i = text.words[w - 1].end
      BY <3>1 DEF Source
    <3>3. n_parsed = w - 1
      BY <3>2 DEF Count
    <3> QED
      BY <3>1, <3>2, <3>3
  <2>3. CASE k \in 1..n
    BY <1>2, <1>3, <2>1, <2>3 DEF Labels, LabelOffsetsExact, IsLabel, size
  <2> QED
    BY <1>1, <2>1, <2>2, <2>3
<1> QED
  BY <1>4, <1>5, <1>6 DEF Labels

(* The three ways init_token moves on: no argument, an argument that is    *)
(* there, an argument looked for at the end of the text.                   *)
MovesOn ==
  /\ pc = "init_token" /\ pc' = "read"
  /\ UNCHANGED << text, cmd, n_skipped >>
  /\ \/ w' = w /\ n_parsed' = n_parsed /\ i' = i + 1
     \/ /\ HasWord(w) /\ w' = w + 1 /\ n_parsed' = n_parsed + 1
        /\ i' = i + ((text.words[w].end - i) % 256) + 1
     \/ ~HasWord(w) /\ w' = w /\ n_parsed' = n_parsed + 1 /\ i' = i + 1

LEMMA MovedPlace ==
  ASSUME IInv, MovesOn
  PROVE  /\ IsText(text)' /\ w' \in 1..Len(text'.words) + 1 /\ pc' = "read"
         /\ i' \in Nat /\ i' > i /\ n_parsed' \in Nat /\ n_parsed' >= n_parsed
         /\ cmd' \in Int /\ n_skipped' \in 0..255
         /\ Place' /\ Count'
<1> USE DEF IInv
<1>1. /\ IsText(text) /\ i \in Nat /\ n_parsed \in Nat /\ cmd \in Int /\ n_skipped \in 0..255
      /\ w \in 1..Len(text.words) + 1 /\ Len(text.words) \in Nat
      /\ pc = "init_token" /\ pc' = "read"
      /\ text' = text /\ cmd' = cmd /\ n_skipped' = n_skipped
  BY DEF TypeOK, IsText, MovesOn
<1>2. w > 1 /\ w - 1 \in 1..Len(text.words) /\ n_skipped >= 1 /\ i >= text.words[w - 1].end
  BY <1>1 DEF Place
<1>3. text.words[w - 1].end \in Nat
  BY <1>1, <1>2, WordFacts
<1>4. CASE w' = w /\ i' = i + 1
  <2>1. HasWord(w) => /\ i = text.words[w - 1].end
                      /\ text.words[w].start \in Nat /\ text.words[w - 1].end < text.words[w].start
    <3>1. HasWord(w) => w \in 1..Len(text.words)
      BY <1>1 DEF HasWord
    <3> QED
      BY <1>1, <1>2, <3>1, WordFacts DEF Place
  <2>2. Place'
    BY SMTT(20), <1>1, <1>2, <1>3, <1>4, <2>1 DEF Place, HasWord
  <2>3. HasWord(w) => n_parsed = w - 1 /\ n_parsed' = n_parsed
    BY <1>1, <1>2, <1>4, <2>1 DEF Count, MovesOn
  <2>4. Count'
    BY <1>1, <1>4, <2>3 DEF Count, HasWord
  <2>5. n_parsed' \in Nat /\ n_parsed' >= n_parsed
    BY <1>1 DEF MovesOn
  <2> QED
    BY <1>1, <1>4, <2>2, <2>4, <2>5
<1>5. CASE HasWord(w) /\ w' = w + 1
  <2>1. /\ n_parsed' = n_parsed + 1
        /\ i' = i + (text.words[w].end - i) + 1
        /\ w \in 1..Len(text.words) /\ w + 1 \in 1..Len(text.words) + 1
        /\ i < text.words[w].end /\ text.words[w].end \in Nat
        /\ HasWord(w + 1) => text.words[w].end < text.words[w + 1].start
    BY <1>1, <1>5, NextWord DEF MovesOn
  <2>2. i' = text.words[w].end + 1 /\ w' - 1 = w /\ n_parsed' \in Nat /\ n_parsed' >= n_parsed
    BY <1>1, <1>5, <2>1
  <2>3. HasWord(w + 1) => text.words[w + 1].start \in Nat
    <3>1. HasWord(w + 1) => w + 1 \in 1..Len(text.words)
      BY <1>1 DEF HasWord
    <3> QED
      BY <1>1, <3>1, WordFacts
  <2>4. Place'
    BY SMTT(20), <1>1, <1>2, <1>5, <2>1, <2>2, <2>3 DEF Place, HasWord
  <2>5. i = text.words[w - 1].end
    BY <1>1, <1>5 DEF Place
  <2>6. Count'
    BY <1>1, <1>5, <2>1, <2>2, <2>5 DEF Count
  <2>7. i' \in Nat /\ i' > i
    BY SMTT(20), <1>1, <2>1, <2>2
  <2> QED
    BY <1>1, <1>5, <2>1, <2>2, <2>4, <2>6, <2>7
<1> QED
  BY <1>4, <1>5 DEF MovesOn

LEMMA TokenStepIInv ==
  ASSUME IInv, MovesOn, NEW token, AppendsToken(token)
  PROVE  IInv'
<1> USE DEF IInv
<1>1. /\ Len(tokens) \in Nat /\ i \in Nat /\ text.n_chars \in Nat
      /\ tokens \in Seq(ParsedToken) /\ from \in Seq(Nat) /\ Len(from) = Len(tokens)
      /\ w \in 1..Len(text.words) + 1 /\ w > 1
      /\ pc = "init_token" /\ pc' = "read" /\ text' = text
  BY DEF TypeOK, IsText, MovesOn, Place
<1>2. Source \in Nat
  BY <1>1 DEF Source
<1>3. /\ tokens' \in Seq(ParsedToken) /\ from' \in Seq(Nat)
      /\ Len(tokens') = Len(tokens) + 1 /\ Len(from') = Len(tokens')
  BY <1>1, <1>2 DEF AppendsToken
<1>4. i' \in Nat /\ i' > i
  BY MovedPlace
<1>5. TypeOK'
  BY <1>3, MovedPlace DEF TypeOK
<1>6. Room'
  BY <1>1, <1>3, <1>4 DEF Room
<1>7. Labels'
  BY <1>1, MovedPlace, AppendedLabels
<1> QED
  BY <1>5, <1>6, <1>7, MovedPlace

-----------------------------------------------------------------------------
LEMMA SkipCommandIInv == IInv /\ SkipCommand => IInv'
<1> SUFFICES ASSUME IInv, SkipCommand PROVE IInv'
  OBVIOUS
<1> USE DEF IInv
<1>1. MovesOn
  BY DEF SkipCommand, Continue, MovesOn
<1>2. tokens' = tokens /\ from' = from /\ n_parsed' = n_parsed /\ i' = i + 1
  BY DEF SkipCommand, Continue
<1>3. TypeOK'
  BY <1>1, <1>2, MovedPlace DEF TypeOK
<1>4. Room'
  BY <1>1, <1>2 DEF Room, TypeOK, MovesOn
<1>5. Labels'
  BY <1>1, <1>2 DEF Labels, MovesOn, LabelOffsetsIncrease, LabelOffsetsExact, size
<1> QED
  BY <1>1, <1>3, <1>4, <1>5, MovedPlace

LEMMA PlainTokenAppends ==
  ASSUME IInv, PlainToken
  PROVE  MovesOn /\ \E token : AppendsToken(token)
<1> USE DEF IInv
<1> DEFINE offset == IF Masked(cmd) = CMD_MY_LABEL THEN LabelOffset ELSE 0
           token  == [TokenOf(Masked(cmd), 0, FALSE, MODE_NONE) EXCEPT !.offset = offset]
<1>1. cmd \in Int /\ offset \in Int
  BY DEF TypeOK, LabelOffset
<1>2. token \in ParsedToken /\ token.my_cmd = Masked(cmd) /\ token.offset = offset
  <2> HIDE DEF offset
  <2> QED
    BY <1>1, PlainTokenType
<1>3. AppendsToken(token)
  <2>1. tokens' = Append(tokens, token) /\ from' = Append(from, Source)
    BY DEF PlainToken
  <2>2. token.my_cmd = CMD_MY_LABEL => token.offset = n_parsed - 1
    <3>1. Masked(cmd) = CMD_MY_LABEL => offset = n_parsed - 1
      BY DEF LabelOffset
    <3> HIDE DEF token, offset
    <3> QED
      BY <1>2, <3>1
  <2> HIDE DEF token
  <2> QED
    BY <1>2, <2>1, <2>2 DEF AppendsToken
<1>4. MovesOn
  BY DEF PlainToken, Continue, MovesOn
<1> HIDE DEF token
<1> QED
  BY <1>3, <1>4

LEMMA PlainTokenIInv == IInv /\ PlainToken => IInv'
BY PlainTokenAppends, TokenStepIInv

LEMMA UnknownCommandAppends ==
  ASSUME IInv, UnknownCommand
  PROVE  MovesOn /\ \E token : AppendsToken(token)
<1>1. AppendsToken(ZeroToken)
  BY ZeroTokenType DEF UnknownCommand, AppendsToken, CMD_MY_LABEL
<1>2. MovesOn
  BY DEF UnknownCommand, Continue, MovesOn
<1> QED
  BY <1>1, <1>2

LEMMA UnknownCommandIInv == IInv /\ UnknownCommand => IInv'
BY UnknownCommandAppends, TokenStepIInv

LEMMA TokenWithArgAppends ==
  ASSUME IInv, TokenWithArg
  PROVE  MovesOn /\ \E token : AppendsToken(token)
<1>1. cmd \in Int /\ Masked(cmd) # CMD_MY_LABEL
  <2>1. Masked(cmd) \in ArgCmds
    BY DEF TokenWithArg
  <2>2. CMD_MY_LABEL \notin ArgCmds
    BY DEF ArgCmds, JumpCmds, CondJmpCmds, CMD_MY_LABEL, CMD_MY_PUSH, CMD_MY_POP, CMD_MY_JB,
           CMD_MY_JBE, CMD_MY_JA, CMD_MY_JAE, CMD_MY_JE, CMD_MY_JNE, CMD_MY_JMP, CMD_MY_CALL
  <2> QED
    BY <2>1, <2>2 DEF IInv, TypeOK
<1>2. MovesOn
  BY DEF TokenWithArg, Continue, MovesOn
<1>3. PICK arg \in Int : \E token \in insert_token_args(cmd, arg) : tokens' = Append(tokens, token)
  <2>1. CASE HasWord(w)
    <3>1. text.words[w].value \in Int
      BY <2>1, NextWord DEF IInv, TokenWithArg
    <3> QED
      BY SMTT(20), <2>1, <3>1 DEF TokenWithArg
  <2>2. CASE ~HasWord(w)
    <3>1. (IF i <= text.n_chars THEN {0} ELSE GarbageArgs) \subseteq Int
      BY GarbageAssumption
    <3> QED
      BY <2>2, <3>1 DEF TokenWithArg
  <2> QED
    BY <2>1, <2>2
<1>4. PICK token \in insert_token_args(cmd, arg) : tokens' = Append(tokens, token)
  BY <1>3
<1>5. AppendsToken(token)
  BY <1>1, <1>3, <1>4, ArgTokenType DEF AppendsToken, TokenWithArg
<1> QED
  BY <1>2, <1>5

LEMMA TokenWithArgIInv == IInv /\ TokenWithArg => IInv'
BY TokenWithArgAppends, TokenStepIInv

LEMMA EndOfTextIInv == IInv /\ EndOfText => IInv'
BY DEF IInv, EndOfText, TypeOK, Place, Room, Count, HasWord, Labels,
       LabelOffsetsIncrease, LabelOffsetsExact, size

-----------------------------------------------------------------------------
LEMMA StepIInv == IInv /\ [Next]_vars => IInv'
<1> SUFFICES ASSUME IInv, [Next]_vars PROVE IInv'
  OBVIOUS
<1>1. CASE ReadCommand
  BY <1>1, ReadCommandIInv
<1>2. CASE SkipCommand
  BY <1>2, SkipCommandIInv
<1>3. CASE PlainToken
  BY <1>3, PlainTokenIInv
<1>4. CASE TokenWithArg
  BY <1>4, TokenWithArgIInv
<1>5. CASE UnknownCommand
  BY <1>5, UnknownCommandIInv
<1>6. CASE EndOfText
  BY <1>6, EndOfTextIInv
<1>7. CASE UNCHANGED vars
  BY <1>7 DEF vars, IInv, TypeOK, Place, Room, Count, HasWord, Labels,
              LabelOffsetsIncrease, LabelOffsetsExact, size
<1> QED
  BY <1>1, <1>2, <1>3, <1>4, <1>5, <1>6, <1>7 DEF Next, init_token

(* parse_text_for_tokens never leaves the states the inductive invariant   *)
(* describes.                                                              *)
THEOREM Invariance == Spec => []IInv
BY InitIInv, StepIInv, PTL DEF Spec

(* The types of parse_text_for_tokens' variables hold throughout.  Nothing *)
(* is assumed of what lies outside the table of registers: a byte.         *)
THEOREM TypeCorrect == Spec => []TypeOK
<1>1. IInv => TypeOK
  BY DEF IInv
<1> QED
  BY <1>1, Invariance, PTL

(* tokens_ctor's room: for every text the array is overrun by at most one  *)
(* token, and by none when the number of characters is even.               *)
THEOREM RoomForTokens == Spec => []TokensFit
<1>1. IInv => TokensFit
  <2> SUFFICES ASSUME IInv PROVE TokensFit
    OBVIOUS
  <2>1. Len(tokens) \in Nat /\ text.n_chars \in Nat /\ 2 * Len(tokens) <= text.n_chars + 1
    BY DEF IInv, TypeOK, Room, IsText
  <2> QED
    BY <2>1 DEF TokensFit, size, capacity
<1> QED
  BY <1>1, Invariance, PTL

(* The offset init_token gives a label is the index of the label's number, *)
(* which is what a jump's argument names.                                  *)
THEOREM LabelsExact == Spec => []LabelOffsetsExact
<1>1. IInv => LabelOffsetsExact
  BY DEF IInv, Labels
<1> QED
  BY <1>1, Invariance, PTL

(* No two labels have the same offset, phantom ones included, and they are *)
(* in order: what Translator assumes of its programs.                      *)
THEOREM LabelsIncrease == Spec => []LabelOffsetsIncrease
<1>1. IInv => LabelOffsetsIncrease
  BY DEF IInv, Labels
<1> QED
  BY <1>1, Invariance, PTL

-----------------------------------------------------------------------------
(* The numbers the tokens came from.                                       *)

(* The last number that was read before the command at hand.               *)
LastRead == IF pc = "init_token" THEN w - 2 ELSE w - 1

(* With at most one blank at the end no read fails but an argument's at    *)
(* the very end, so the tokens name the numbers in order.                  *)
Once ==
  TrailingBlanks <= 1 =>
    /\ pc = "init_token" => i = text.words[w - 1].end
    /\ pc # "init_token" /\ ~HasWord(w) =>
         /\ i >= text.n_chars
         /\ n_parsed \in {Len(text.words), Len(text.words) + 1}
    /\ pc = "done" => ~HasWord(w)
    /\ \A k \in 1..size : from[k] > 0 /\ from[k] <= LastRead
    /\ \A j, k \in 1..size : j < k => from[j] < from[k]

LEMMA InitOnce == Init => Once
<1> SUFFICES ASSUME Init PROVE Once
  OBVIOUS
<1>1. IsText(text) /\ Len(text.words) \in Nat /\ Len(text.words) >= 1
  BY TextsAssumption DEF Init, IsText
<1>2. HasWord(w) /\ pc = "read" /\ size = 0
  BY <1>1 DEF Init, HasWord, size
<1> QED
  BY <1>2 DEF Once

(* Where the last number ends, and that nothing is left to read after it.  *)
LEMMA LastWord ==
  ASSUME IInv
  PROVE  /\ Len(text.words) \in Nat /\ text.n_chars \in Nat /\ i \in Nat
         /\ w \in 1..Len(text.words) + 1 /\ n_parsed \in Nat
         /\ Len(from) = Len(tokens) /\ Len(from) \in Nat /\ from \in Seq(Nat)
         /\ \A k \in 1..Len(text.words) : text.words[k].end \in Nat
         /\ text.n_chars - text.words[Len(text.words)].end = TrailingBlanks
<1>1. IsText(text) /\ Len(text.words) \in Nat /\ text.n_chars \in Nat
  BY DEF IInv, TypeOK, IsText
<1>2. \A k \in 1..Len(text.words) : text.words[k].end \in Nat
  BY <1>1, WordFacts
<1> QED
  BY <1>1, <1>2 DEF IInv, TypeOK, TrailingBlanks

LEMMA ReadCommandOnce == IInv /\ Once /\ ReadCommand => Once'
<1> SUFFICES ASSUME IInv, Once, ReadCommand, TrailingBlanks <= 1 PROVE Once'
  BY DEF Once, ReadCommand, TrailingBlanks
<1>1. pc = "read" /\ pc' = "init_token" /\ i < text.n_chars
      /\ UNCHANGED << text, tokens, from >> /\ i' = i + n_skipped'
  BY DEF ReadCommand
<1>2. HasWord(w)
  BY <1>1, LastWord DEF Once
<1>3. w' = w + 1 /\ n_skipped' = text.words[w].end - i
  BY <1>1, <1>2, NextWord DEF ReadCommand, IInv
<1>4. i' = text.words[w' - 1].end
  <2>1. w \in 1..Len(text.words)
    BY <1>2, LastWord DEF HasWord
  <2>2. w' - 1 = w /\ text.words[w].end \in Nat /\ i \in Nat
    BY <1>3, <2>1, LastWord
  <2> QED
    BY <1>1, <1>3, <2>2
<1>5. LastRead' = LastRead
  BY <1>1, <1>3, LastWord DEF LastRead
<1> QED
  BY <1>1, <1>4, <1>5 DEF Once, size

LEMMA NotBefore ==
  ASSUME NEW a \in Nat, NEW b \in Nat, b >= a
  PROVE  b - 1 \in Int /\ b - 1 >= a - 1
OBVIOUS

(* Once init_token is through with a command, with or without a token.     *)
LEMMA MovedOnce ==
  ASSUME IInv, Once, MovesOn, TrailingBlanks <= 1
  PROVE  /\ ~HasWord(w') => i' >= text.n_chars /\ n_parsed' \in {Len(text.words), Len(text.words) + 1}
         /\ LastRead' >= w - 1 /\ LastRead = w - 2 /\ LastRead' \in Int
         /\ Source = w - 1 /\ w > 1 /\ w \in Nat
<1>1. /\ w > 1 /\ w \in Nat /\ i \in Nat /\ i = text.words[w - 1].end /\ pc = "init_token" /\ pc' = "read"
      /\ w' \in {w, w + 1} /\ n_parsed = w - 1
  BY LastWord DEF Once, MovesOn, IInv, Place, Count
<1>2. Source = w - 1
  BY <1>1 DEF Source
<1>3. LastRead = w - 2 /\ LastRead' >= w - 1 /\ LastRead' \in Int
  <2>1. w' \in Nat /\ w' >= w /\ w \in Nat /\ pc = "init_token" /\ pc' = "read"
    BY <1>1
  <2>2. LastRead = w - 2
    BY <2>1 DEF LastRead
  <2>3. LastRead' = w' - 1
    BY <2>1 DEF LastRead
  <2>4. w' - 1 \in Int /\ w' - 1 >= w - 1
    BY <2>1, NotBefore
  <2>5. LastRead' \in Int /\ LastRead' >= w - 1
    BY <2>3, <2>4
  <2> QED
    BY <2>2, <2>5
<1>4. ASSUME ~HasWord(w')
      PROVE  i' >= text.n_chars /\ n_parsed' \in {Len(text.words), Len(text.words) + 1}
  <2>1. Len(text.words) \in Nat /\ w \in 1..Len(text.words) + 1 /\ text' = text
    BY LastWord DEF MovesOn
  <2>2. ~(w' <= Len(text.words))
    BY <1>4, <2>1 DEF HasWord
  <2>3. CASE ~HasWord(w)
    <3>1. w = Len(text.words) + 1 /\ w - 1 \in 1..Len(text.words) /\ i' = i + 1
      BY <1>1, <2>1, <2>3 DEF HasWord, MovesOn
    <3>2. text.n_chars <= i + 1
      BY <1>1, <3>1, LastWord
    <3>3. n_parsed' \in {n_parsed, n_parsed + 1}
      BY DEF MovesOn
    <3> QED
      BY <1>1, <2>1, <3>1, <3>2, <3>3
  <2>4. CASE HasWord(w)
    <3>1. w = Len(text.words) /\ w \in 1..Len(text.words)
      BY SMTT(20), <1>1, <2>1, <2>2, <2>4 DEF HasWord
    <3>2. w' = w + 1 /\ n_parsed' = n_parsed + 1 /\ i' = i + ((text.words[w].end - i) % 256) + 1
      BY <1>1, <2>1, <2>2, <2>4, <3>1 DEF MovesOn
    <3>3. (text.words[w].end - i) % 256 = text.words[w].end - i
      BY <1>1, <2>4, NextWord DEF IInv
    <3>4. text.words[w].end \in Nat /\ text.n_chars <= text.words[w].end + 1 /\ text.n_chars \in Nat
      BY <3>1, LastWord
    <3>5. i' = text.words[w].end + 1
      BY <1>1, <3>2, <3>3, <3>4
    <3> QED
      BY <1>1, <3>1, <3>2, <3>4, <3>5
  <2> QED
    BY <2>3, <2>4
<1> QED
  BY <1>1, <1>2, <1>3, <1>4

LEMMA SkipCommandOnce == IInv /\ Once /\ SkipCommand => Once'
<1> SUFFICES ASSUME IInv, Once, SkipCommand, TrailingBlanks <= 1 PROVE Once'
  BY DEF Once, SkipCommand, TrailingBlanks
<1>1. MovesOn
  BY DEF SkipCommand, Continue, MovesOn
<1>2. UNCHANGED << text, tokens, from >> /\ pc' = "read"
  BY DEF SkipCommand, Continue
<1>3. \A k \in 1..size : from[k] \in Nat /\ from[k] > 0 /\ from[k] <= w - 2
  BY SMTT(20), <1>1, MovedOnce, LastWord DEF Once, size
<1>4. \A k \in 1..size : from[k] <= LastRead'
  BY <1>1, <1>3, MovedOnce
<1>5. ~HasWord(w)' => ~HasWord(w')
  BY <1>2 DEF HasWord
<1> QED
  BY <1>1, <1>2, <1>3, <1>4, <1>5, MovedOnce DEF Once, size

LEMMA TokenOnce ==
  ASSUME IInv, Once, MovesOn, NEW token, AppendsToken(token)
  PROVE  Once'
<1> SUFFICES ASSUME TrailingBlanks <= 1 PROVE Once'
  BY DEF Once, MovesOn, TrailingBlanks
<1> DEFINE n == Len(tokens)
<1>1. n \in Nat /\ tokens \in Seq(ParsedToken) /\ from \in Seq(Nat) /\ Len(from) = n
  BY LastWord DEF IInv, TypeOK
<1>2. text' = text /\ pc' = "read"
  BY DEF MovesOn
<1>3. Source \in Nat /\ Source = w - 1 /\ Source > 0
  BY MovedOnce
<1>4. /\ Len(tokens') = n + 1
      /\ from'[n + 1] = Source /\ \A k \in 1..n : from'[k] = from[k]
  BY <1>1, <1>3 DEF AppendsToken
<1>5. \A k \in 1..n : from[k] \in Nat /\ from[k] > 0 /\ from[k] < Source
  <2>1. \A k \in 1..n : from[k] \in Nat /\ from[k] > 0 /\ from[k] <= w - 2
    BY <1>1, MovedOnce DEF Once, size
  <2> QED
    BY <1>3, <2>1, MovedOnce
<1>6. \A k \in 1..n + 1 : from'[k] > 0 /\ from'[k] <= LastRead'
  <2> SUFFICES ASSUME NEW k \in 1..n + 1 PROVE from'[k] > 0 /\ from'[k] <= LastRead'
    OBVIOUS
  <2>1. LastRead' \in Int /\ Source <= LastRead'
    BY <1>3, MovedOnce
  <2>2. CASE k = n + 1
    BY <1>3, <1>4, <2>1, <2>2
  <2>3. CASE k \in 1..n
    BY <1>3, <1>4, <1>5, <2>1, <2>3
  <2> QED
    BY <1>1, <2>2, <2>3
<1>7. \A j, k \in 1..n + 1 : j < k => from'[j] < from'[k]
  <2> SUFFICES ASSUME NEW j \in 1..n + 1, NEW k \in 1..n + 1, j < k PROVE from'[j] < from'[k]
    OBVIOUS
  <2>1. j \in 1..n
    BY <1>1
  <2>2. CASE k = n + 1
    BY <1>4, <1>5, <2>1, <2>2
  <2>3. CASE k \in 1..n
    BY <1>4, <2>1, <2>3 DEF Once, size
  <2> QED
    BY SMTT(20), <1>1, <2>2, <2>3
<1>8. ~HasWord(w)' => ~HasWord(w')
  BY <1>2 DEF HasWord
<1>9. size' = n + 1
  BY <1>4 DEF size
<1> QED
  BY <1>2, <1>6, <1>7, <1>8, <1>9, MovedOnce DEF Once

LEMMA EndOfTextOnce == IInv /\ Once /\ EndOfText => Once'
<1> SUFFICES ASSUME IInv, Once, EndOfText, TrailingBlanks <= 1 PROVE Once'
  BY DEF Once, EndOfText, TrailingBlanks
<1>1. /\ pc = "read" /\ pc' = "done" /\ i >= text.n_chars
      /\ UNCHANGED << text, w, i, n_parsed, tokens, from >>
  BY DEF EndOfText
<1>2. ~HasWord(w)
  <2> SUFFICES ASSUME HasWord(w) PROVE FALSE
    OBVIOUS
  <2>1. i < text.words[w].end /\ text.words[w].end <= text.n_chars /\ text.words[w].end \in Nat
    BY <1>1, NextWord DEF IInv
  <2> QED
    BY <1>1, <2>1, LastWord
<1> QED
  BY <1>1, <1>2 DEF Once, LastRead, HasWord, size

LEMMA StepOnce == IInv /\ Once /\ [Next]_vars => Once'
<1> SUFFICES ASSUME IInv, Once, [Next]_vars PROVE Once'
  OBVIOUS
<1>1. CASE ReadCommand
  BY <1>1, ReadCommandOnce
<1>2. CASE SkipCommand
  BY <1>2, SkipCommandOnce
<1>3. CASE PlainToken
  BY <1>3, PlainTokenAppends, TokenOnce
<1>4. CASE TokenWithArg
  BY <1>4, TokenWithArgAppends, TokenOnce
<1>5. CASE UnknownCommand
  BY <1>5, UnknownCommandAppends, TokenOnce
<1>6. CASE EndOfText
  BY <1>6, EndOfTextOnce
<1>7. CASE UNCHANGED vars
  BY <1>7 DEF vars, Once, TrailingBlanks, HasWord, LastRead, size
<1> QED
  BY <1>1, <1>2, <1>3, <1>4, <1>5, <1>6, <1>7 DEF Next, init_token

(* parse_text_for_tokens adds up the skips of two sscanfs and its own      *)
(* increment: a text with at most one character after its last number is   *)
(* read to the end, each number is read once and in order, and every token *)
(* has a command of its own.                                               *)
THEOREM NumbersOnce == Spec => []EveryNumberOnce
<1>1. IInv /\ Once => EveryNumberOnce
  <2> SUFFICES ASSUME IInv, Once, pc = "done", TrailingBlanks <= 1
               PROVE  /\ w = Len(text.words) + 1
                      /\ n_parsed \in {Len(text.words), Len(text.words) + 1}
                      /\ \A k \in 1..size : from[k] > 0
                      /\ \A j, k \in 1..size : j < k => from[j] < from[k]
    BY DEF EveryNumberOnce
  <2> QED
    BY LastWord DEF Once, HasWord
<1> QED
  BY <1>1, InitOnce, StepOnce, Invariance, PTL DEF Spec

-----------------------------------------------------------------------------
(* The registers of the tokens.                                            *)

StackRegister(token) == token.reg \in {RBX, RCX} => token.my_cmd \in {CMD_MY_PUSH, CMD_MY_POP}

LEMMA NoRegister ==
  ASSUME NEW token, token.reg = 0 \/ token.reg = INVALID_REG
  PROVE  StackRegister(token)
BY DEF StackRegister, RBX, RCX, INVALID_REG

LEMMA ArgTokenRegister ==
  ASSUME NEW c \in Int, NEW arg \in Int, NEW token \in insert_token_args(c, arg)
  PROVE  StackRegister(token)
<1>1. token.my_cmd = Masked(c)
  BY ArgTokenType
<1>2. CASE Masked(c) \in {CMD_MY_PUSH, CMD_MY_POP}
  BY <1>1, <1>2 DEF StackRegister
<1>3. CASE Masked(c) \notin {CMD_MY_PUSH, CMD_MY_POP}
  <2>1. token = [Bare(c) EXCEPT !.offset = arg]
    BY <1>3, Zenon DEF insert_token_args
  <2>2. token.reg = INVALID_REG
    BY <2>1 DEF Bare, TokenOf
  <2> QED
    BY <2>2, NoRegister
<1> QED
  BY <1>2, <1>3

LEMMA AppendedRegister ==
  ASSUME tokens \in Seq(ParsedToken), \A k \in 1..size : StackRegister(tokens[k]),
         NEW token, tokens' = Append(tokens, token), StackRegister(token)
  PROVE  (\A k \in 1..size : StackRegister(tokens[k]))'
<1>1. Len(tokens') = Len(tokens) + 1 /\ Len(tokens) \in Nat
  OBVIOUS
<1>2. \A k \in 1..Len(tokens) : tokens'[k] = tokens[k]
  OBVIOUS
<1>3. tokens'[Len(tokens) + 1] = token
  OBVIOUS
<1>4. ASSUME NEW k \in 1..Len(tokens') PROVE StackRegister(tokens'[k])
  <2>1. CASE k \in 1..Len(tokens)
    BY <1>2, <2>1, Zenon DEF size
  <2>2. CASE k = Len(tokens) + 1
    BY <1>3, <2>2
  <2> QED
    BY SMT, <1>1, <1>4, <2>1, <2>2
<1> QED
  BY <1>4 DEF size, StackRegister

(* Only a push or a pop names the register of the data base or the one the *)
(* memory block goes through (init_token, insert_token_args): what the     *)
(* theorem on the blocks of the dump asks of its programs.                 *)
THEOREM RegistersOfStackCmds == Spec => []\A k \in 1..size : StackRegister(tokens[k])
<1> DEFINE Named == \A k \in 1..size : StackRegister(tokens[k])
<1>1. Init => Named
  BY DEF Init, size
<1>2. ASSUME TypeOK, Named, [Next]_vars PROVE Named'
  <2>1. tokens \in Seq(ParsedToken) /\ cmd \in Int /\ IsText(text)
    BY <1>2 DEF TypeOK
  <2>2. CASE UNCHANGED tokens
    BY <1>2, <2>2 DEF size, StackRegister
  <2>3. CASE PlainToken
    <3>1. PICK n : tokens' = Append(tokens, [TokenOf(Masked(cmd), 0, FALSE, MODE_NONE) EXCEPT !.offset = n])
      BY <2>3 DEF PlainToken
    <3>2. [TokenOf(Masked(cmd), 0, FALSE, MODE_NONE) EXCEPT !.offset = n].reg = 0
      BY DEF TokenOf
    <3> QED
      BY <1>2, <2>1, <3>1, <3>2, NoRegister, AppendedRegister
  <2>4. CASE UnknownCommand
    <3>1. ZeroToken.reg = 0
      BY DEF ZeroToken, TokenOf
    <3> QED
      BY <1>2, <2>1, <2>4, <3>1, NoRegister, AppendedRegister DEF UnknownCommand
  <2>5. CASE TokenWithArg
    <3>1. PICK arg \in Int : \E token \in insert_token_args(cmd, arg) : tokens' = Append(tokens, token)
      <4>1. CASE HasWord(w)
        <5>1. text.words[w].value \in Int
          <6>1. w \in 1 .. Len(text.words)
            BY <1>2, <2>1, <4>1 DEF TypeOK, IsText, HasWord
          <6> QED
            BY <2>1, <6>1, WordFacts
        <5> QED
          BY <2>5, <4>1, <5>1 DEF TokenWithArg
      <4>2. CASE ~HasWord(w)
        <5>1. (IF i <= text.n_chars THEN {0} ELSE GarbageArgs) \subseteq Int
          BY GarbageAssumption
        <5> QED
          BY <2>5, <4>2, <5>1 DEF TokenWithArg
      <4> QED
        BY <4>1, <4>2
    <3>2. PICK token \in insert_token_args(cmd, arg) : tokens' = Append(tokens, token)
      BY <3>1
    <3>3. StackRegister(token)
      BY <2>1, ArgTokenRegister
    <3> QED
      BY <1>2, <2>1, <3>2, <3>3, AppendedRegister
  <2> QED
    BY <1>2, <2>2, <2>3, <2>4, <2>5
       DEF Next, init_token, ReadCommand, SkipCommand, EndOfText, vars
<1> HIDE DEF Named
<1>3. Spec => []Named
  BY <1>1, <1>2, TypeCorrect, PTL DEF Spec
<1> QED
  BY <1>3, PTL DEF Named
-----------------------------------------------------------------------------
(* The operands of the tokens.                                             *)

(* What OperandsExact asks of one token and the number it came from.       *)
OperandsOf(token, src) ==
  /\ src > 0 => token.my_cmd = KnownCommand(Masked(text.words[src].value))
  /\ src > 0 /\ HasWord(src + 1) =>
       /\ token.use_immed => token.immed = text.words[src + 1].value
       /\ token.my_cmd \in JumpCmds => token.offset = text.words[src + 1].value
  /\ token.mode # MODE_NONE /\ src > 0 /\ HasWord(src + 1) /\ text.words[src + 1].value \in 1..8 =>
       /\ token.reg = my2x86_regs[text.words[src + 1].value]
       /\ token.use_r8plus_regs <=> text.words[src + 1].value >= 5
  /\ \/ token.mode = MODE_NONE
     \/ src > 0 /\ HasWord(src + 1) /\ text.words[src + 1].value \in 1..8
     => token \in Token

(* cmd is the number read last, unless that read failed.                   *)
AtHand ==
  pc = "init_token" /\ i = text.words[w - 1].end => cmd = text.words[w - 1].value

LEMMA OperandsOfEach == OperandsExact <=> \A k \in 1..size : OperandsOf(tokens[k], from[k])
BY DEF OperandsExact, OperandsOf, HasRegister, HasArgument, ArgumentOf, CommandOf

LEMMA InToken ==
  ASSUME NEW token \in ParsedToken, token.reg \in 0..RBX \cup {INVALID_REG},
         token.mode # MODE_NONE => token.reg # INVALID_REG
  PROVE  token \in Token
BY DEF ParsedToken, Token

LEMMA BareOperands ==
  ASSUME NEW c \in Int
  PROVE  /\ Bare(c).use_immed = FALSE /\ Bare(c).mode = MODE_NONE /\ Bare(c).reg = INVALID_REG
         /\ Bare(c) \in Token
<1>1. Bare(c).use_immed = FALSE /\ Bare(c).mode = MODE_NONE /\ Bare(c).reg = INVALID_REG
  BY DEF Bare, TokenOf
<1> QED
  BY <1>1, BareType, InToken

LEMMA RegisterFormOperands ==
  ASSUME NEW c \in Int, NEW arg \in Int, NEW token \in RegisterForms(c, arg)
  PROVE  /\ token.use_immed = FALSE
         /\ token.mode # MODE_NONE /\ arg \in 1..8 =>
              /\ token.reg = my2x86_regs[arg]
              /\ token.use_r8plus_regs <=> arg >= 5
         /\ token.mode = MODE_NONE \/ arg \in 1..8 => token \in Token
<1>1. CASE ~HasReg(c)
  BY <1>1, BareOperands DEF RegisterForms
<1>2. CASE HasReg(c)
  <2>1. PICK reg \in convert_my_regs2x86_regs(arg) :
          token = RegisterArg(c, arg, IF HasRam(c) THEN MODE_REG_ADDRESS ELSE MODE_8_BYTE_IN_ADDRESS, reg)
    BY <1>2 DEF RegisterForms
  <2>2. /\ token.use_immed = FALSE /\ token.mode # MODE_NONE
        /\ token.reg = reg /\ token.use_r8plus_regs = (arg >= 5)
    <3> DEFINE mode == IF HasRam(c) THEN MODE_REG_ADDRESS ELSE MODE_8_BYTE_IN_ADDRESS
    <3>1. mode # MODE_NONE
      BY DEF MODE_NONE, MODE_REG_ADDRESS, MODE_8_BYTE_IN_ADDRESS
    <3>2. token = RegisterArg(c, arg, mode, reg)
      BY <2>1
    <3> HIDE DEF mode
    <3> QED
      BY <3>1, <3>2, Zenon DEF RegisterArg, TokenOf
  <2>3. arg \in 1..8 => reg = my2x86_regs[arg]
    BY <2>1 DEF convert_my_regs2x86_regs
  <2>4. arg \in 1..8 => token \in Token
    <3>1. arg \in 1..8 => reg \in 0..RBX /\ reg # INVALID_REG
      BY <2>3, RegsType DEF RBX, INVALID_REG
    <3> QED
      BY <2>2, <3>1, RegisterFormsType, InToken
  <2> QED
    BY <2>2, <2>3, <2>4
<1> QED
  BY <1>1, <1>2

LEMMA ArgTokenOperands ==
  ASSUME NEW c \in Int, NEW arg \in Int, NEW token \in insert_token_args(c, arg)
  PROVE  /\ token.use_immed => token.immed = arg
         /\ token.my_cmd \in JumpCmds => token.offset = arg
         /\ token.mode # MODE_NONE /\ arg \in 1..8 =>
              /\ token.reg = my2x86_regs[arg]
              /\ token.use_r8plus_regs <=> arg >= 5
         /\ token.mode = MODE_NONE \/ arg \in 1..8 => token \in Token
<1> DEFINE immediate == [Bare(c) EXCEPT !.immed = arg, !.use_immed = TRUE]
           deleting  == [Bare(c) EXCEPT !.delete_stack_elem = TRUE]
           jumping   == [Bare(c) EXCEPT !.offset = arg]
<1>1. token.my_cmd = Masked(c) /\ token \in ParsedToken
  BY ArgTokenType
<1>2. Bare(c) \in ParsedToken /\ Bare(c).mode = MODE_NONE /\ Bare(c).reg = INVALID_REG /\ Bare(c).use_immed = FALSE
  BY BareType, BareOperands
<1>3. /\ immediate.immed = arg /\ immediate.mode = MODE_NONE /\ immediate.reg = INVALID_REG
      /\ deleting.use_immed = FALSE /\ deleting.mode = MODE_NONE /\ deleting.reg = INVALID_REG
      /\ jumping.offset = arg /\ jumping.use_immed = FALSE
      /\ jumping.mode = MODE_NONE /\ jumping.reg = INVALID_REG
  BY <1>2 DEF ParsedToken
<1>4. CASE token \in RegisterForms(c, arg) /\ Masked(c) \in {CMD_MY_PUSH, CMD_MY_POP}
  <2>1. token.my_cmd \notin JumpCmds
    BY <1>1, <1>4 DEF JumpCmds, CondJmpCmds, CMD_MY_PUSH, CMD_MY_POP, CMD_MY_JB, CMD_MY_JBE, CMD_MY_JA,
                      CMD_MY_JAE, CMD_MY_JE, CMD_MY_JNE, CMD_MY_JMP, CMD_MY_CALL
  <2> QED
    BY <1>4, <2>1, RegisterFormOperands
<1>5. CASE (token = immediate \/ token = deleting) /\ Masked(c) \in {CMD_MY_PUSH, CMD_MY_POP}
  <2>1. token.my_cmd \notin JumpCmds
    BY <1>1, <1>5 DEF JumpCmds, CondJmpCmds, CMD_MY_PUSH, CMD_MY_POP, CMD_MY_JB, CMD_MY_JBE, CMD_MY_JA,
                      CMD_MY_JAE, CMD_MY_JE, CMD_MY_JNE, CMD_MY_JMP, CMD_MY_CALL
  <2>2. token.mode = MODE_NONE /\ token.reg = INVALID_REG
    BY <1>3, <1>5
  <2>3. token.use_immed => token.immed = arg
    BY <1>3, <1>5
  <2> HIDE DEF immediate, deleting, jumping
  <2> QED
    BY <1>1, <2>1, <2>2, <2>3, InToken
<1>6. CASE token = jumping
  <2>1. /\ token.mode = MODE_NONE /\ token.reg = INVALID_REG
        /\ token.use_immed = FALSE /\ token.offset = arg
    BY <1>3, <1>6
  <2> HIDE DEF immediate, deleting, jumping
  <2> QED
    BY <1>1, <2>1, InToken
<1>7. \/ token \in RegisterForms(c, arg) /\ Masked(c) \in {CMD_MY_PUSH, CMD_MY_POP}
      \/ (token = immediate \/ token = deleting) /\ Masked(c) \in {CMD_MY_PUSH, CMD_MY_POP}
      \/ token = jumping
  <2>1. CASE Masked(c) = CMD_MY_PUSH
    BY <2>1, Zenon DEF insert_token_args
  <2>2. CASE Masked(c) = CMD_MY_POP /\ Masked(c) # CMD_MY_PUSH
    BY <2>2, Zenon DEF insert_token_args
  <2>3. CASE Masked(c) # CMD_MY_PUSH /\ Masked(c) # CMD_MY_POP
    BY <2>3, Zenon DEF insert_token_args
  <2> QED
    BY <2>1, <2>2, <2>3
<1> QED
  BY <1>4, <1>5, <1>6, <1>7

-----------------------------------------------------------------------------
LEMMA CommandAtHand ==
  ASSUME IInv, AtHand, pc = "init_token", Source > 0
  PROVE  /\ Source = w - 1 /\ cmd = text.words[Source].value
         /\ HasWord(Source + 1) <=> HasWord(w)
         /\ text.words[Source + 1] = text.words[w]
<1>1. Source = w - 1 /\ i = text.words[w - 1].end
  BY DEF Source
<1>2. w \in 1..Len(text.words) + 1 /\ Len(text.words) \in Nat
  BY LastWord
<1>3. Source + 1 = w
  BY <1>1, <1>2
<1> QED
  BY <1>1, <1>3 DEF AtHand

LEMMA PlainTokenOperands ==
  ASSUME IInv, AtHand, PlainToken
  PROVE  \E token : OperandsOf(token, Source) /\ tokens' = Append(tokens, token)
<1> DEFINE offset == IF Masked(cmd) = CMD_MY_LABEL THEN LabelOffset ELSE 0
           token  == [TokenOf(Masked(cmd), 0, FALSE, MODE_NONE) EXCEPT !.offset = offset]
<1>1. cmd \in Int /\ offset \in Int /\ pc = "init_token" /\ Masked(cmd) \in PlainCmds
  BY DEF IInv, TypeOK, LabelOffset, PlainToken
<1>2. /\ token.use_immed = FALSE /\ token.mode = MODE_NONE /\ token.reg = 0
  BY DEF TokenOf
<1>3. token \in ParsedToken /\ token.my_cmd = Masked(cmd)
  <2> HIDE DEF offset
  <2> QED
    BY <1>1, PlainTokenType
<1>4. token.my_cmd \notin JumpCmds
  <2>1. Masked(cmd) \notin JumpCmds
    BY <1>1 DEF PlainCmds, MathCmds, JumpCmds, CondJmpCmds, CMD_MY_ADD, CMD_MY_SUB, CMD_MY_MUL,
         CMD_MY_DIV, CMD_MY_OUT, CMD_MY_IN, CMD_MY_RET, CMD_MY_SQRT, CMD_MY_LABEL, CMD_MY_JB, CMD_MY_JBE,
         CMD_MY_JA, CMD_MY_JAE, CMD_MY_JE, CMD_MY_JNE, CMD_MY_JMP, CMD_MY_CALL
  <2> HIDE DEF token
  <2> QED
    BY <1>3, <2>1
<1>5. tokens' = Append(tokens, token)
  BY DEF PlainToken
<1> HIDE DEF token, offset
<1>6. token \in Token
  BY <1>2, <1>3, InToken DEF RBX, INVALID_REG
<1>7. Source > 0 => token.my_cmd = KnownCommand(Masked(text.words[Source].value))
  BY <1>1, <1>3, CommandAtHand DEF KnownCommand
<1>8. OperandsOf(token, Source)
  BY <1>2, <1>4, <1>6, <1>7 DEF OperandsOf
<1> QED
  BY <1>5, <1>8

LEMMA UnknownCommandOperands ==
  ASSUME IInv, AtHand, UnknownCommand
  PROVE  \E token : OperandsOf(token, Source) /\ tokens' = Append(tokens, token)
<1>1. /\ pc = "init_token" /\ Masked(cmd) \notin PlainCmds \cup ArgCmds
      /\ tokens' = Append(tokens, ZeroToken)
  BY DEF UnknownCommand
<1>2. /\ ZeroToken.use_immed = FALSE /\ ZeroToken.mode = MODE_NONE /\ ZeroToken.reg = 0
  BY DEF ZeroToken, TokenOf
<1>3. 0 \notin JumpCmds
  BY DEF JumpCmds, CondJmpCmds, CMD_MY_JB, CMD_MY_JBE,
       CMD_MY_JA, CMD_MY_JAE, CMD_MY_JE, CMD_MY_JNE, CMD_MY_JMP, CMD_MY_CALL
<1>4. ZeroToken \in Token
  BY <1>2, ZeroTokenType, InToken DEF RBX, INVALID_REG
<1>5. Source > 0 => ZeroToken.my_cmd = KnownCommand(Masked(text.words[Source].value))
  BY <1>1, ZeroTokenType, CommandAtHand DEF KnownCommand
<1>6. OperandsOf(ZeroToken, Source)
  BY <1>2, <1>3, <1>4, <1>5, ZeroTokenType DEF OperandsOf
<1> QED
  BY <1>1, <1>6

LEMMA TokenWithArgOperands ==
  ASSUME IInv, AtHand, TokenWithArg
  PROVE  \E token : OperandsOf(token, Source) /\ tokens' = Append(tokens, token)
<1>1. cmd \in Int /\ pc = "init_token" /\ Masked(cmd) \in ArgCmds
  BY DEF IInv, TypeOK, TokenWithArg
<1>2. Source > 0 => KnownCommand(Masked(text.words[Source].value)) = Masked(cmd)
  BY <1>1, CommandAtHand DEF KnownCommand
<1>3. CASE HasWord(w)
  <2>1. text.words[w].value \in Int
    BY <1>1, <1>3, NextWord DEF IInv
  <2>2. PICK token \in insert_token_args(cmd, text.words[w].value) : tokens' = Append(tokens, token)
    BY <1>3 DEF TokenWithArg
  <2>3. token.my_cmd = Masked(cmd)
    BY <1>1, <2>1, ArgTokenType
  <2>4. Source > 0
    <3>1. w > 1 /\ w \in Nat /\ i = text.words[w - 1].end
      BY <1>1, <1>3, LastWord DEF IInv, Place
    <3> QED
      BY <3>1 DEF Source
  <2>5. HasWord(Source + 1) /\ text.words[Source + 1] = text.words[w]
    BY <1>1, <1>3, <2>4, CommandAtHand
  <2>6. OperandsOf(token, Source)
    BY <1>1, <1>2, <2>1, <2>3, <2>4, <2>5, ArgTokenOperands DEF OperandsOf
  <2> QED
    BY <2>2, <2>6
<1>4. CASE ~HasWord(w)
  <2>1. (IF i <= text.n_chars THEN {0} ELSE GarbageArgs) \subseteq Int
    BY GarbageAssumption
  <2>2. PICK arg \in Int : \E token \in insert_token_args(cmd, arg) : tokens' = Append(tokens, token)
    BY <1>4, <2>1 DEF TokenWithArg
  <2>3. PICK token \in insert_token_args(cmd, arg) : tokens' = Append(tokens, token)
    BY <2>2
  <2>4. token.my_cmd = Masked(cmd) /\ (token.mode = MODE_NONE => token \in Token)
    BY <1>1, ArgTokenType, ArgTokenOperands
  <2>5. Source > 0 => ~HasWord(Source + 1)
    BY <1>1, <1>4, CommandAtHand
  <2>6. OperandsOf(token, Source)
    BY <1>2, <2>4, <2>5 DEF OperandsOf
  <2> QED
    BY <2>3, <2>6
<1> QED
  BY <1>3, <1>4

LEMMA AppendedOperands ==
  ASSUME IInv, OperandsExact, UNCHANGED text, from' = Append(from, Source),
         NEW token, OperandsOf(token, Source), tokens' = Append(tokens, token)
  PROVE  OperandsExact'
<1> DEFINE n == Len(tokens)
<1>1. /\ n \in Nat /\ tokens \in Seq(ParsedToken) /\ from \in Seq(Nat) /\ Len(from) = n
      /\ w \in Nat
  BY LastWord DEF IInv, TypeOK
<1>2. /\ Len(tokens') = n + 1
      /\ tokens'[n + 1] = token /\ \A k \in 1..n : tokens'[k] = tokens[k]
      /\ from'[n + 1] = Source /\ \A k \in 1..n : from'[k] = from[k]
  BY <1>1
<1>3. ASSUME NEW k \in 1..n + 1 PROVE OperandsOf(tokens'[k], from'[k])
  <2>1. CASE k = n + 1
    BY <1>2, <2>1
  <2>2. CASE k \in 1..n
    <3>1. OperandsOf(tokens[k], from[k])
      BY <2>2, OperandsOfEach DEF size
    <3> QED
      BY <1>2, <2>2, <3>1
  <2> QED
    BY <1>1, <2>1, <2>2
<1>4. (\A k \in 1..size : OperandsOf(tokens[k], from[k]))'
  BY <1>2, <1>3 DEF OperandsOf, HasWord, size
<1> QED
  BY <1>4, OperandsOfEach, PTL

LEMMA StepAtHand == IInv /\ AtHand /\ [Next]_vars => AtHand'
<1> SUFFICES ASSUME IInv, AtHand, [Next]_vars PROVE AtHand'
  OBVIOUS
<1>1. CASE ReadCommand
  <2>1. pc = "read" /\ UNCHANGED text /\ i' = i + n_skipped'
    BY <1>1 DEF ReadCommand
  <2>2. CASE HasWord(w)
    <3>1. cmd' = text.words[w].value /\ w' = w + 1 /\ w \in Nat
      BY <1>1, <2>2, LastWord DEF ReadCommand
    <3>2. w' - 1 = w
      BY <3>1
    <3> QED
      BY <2>1, <3>1, <3>2 DEF AtHand
  <2>3. CASE ~HasWord(w)
    <3>1. w = Len(text.words) + 1 /\ w > 1 /\ w - 1 \in 1..Len(text.words)
      <4>1. Len(text.words) \in Nat /\ Len(text.words) >= 1 /\ w \in 1..Len(text.words) + 1
        BY DEF IInv, TypeOK, IsText
      <4> QED
        BY <2>3, <4>1 DEF HasWord
    <3>2. /\ w' = w /\ n_skipped' = n_skipped /\ n_skipped >= 1 /\ n_skipped \in 0..255
          /\ i > text.words[w - 1].end
      BY <1>1, <2>1, <2>3, <3>1 DEF ReadCommand, IInv, Place, TypeOK
    <3>3. i \in Nat /\ text.words[w - 1].end \in Nat
      BY <3>1, LastWord
    <3>4. i' # text.words[w - 1].end
      BY <2>1, <3>2, <3>3
    <3> QED
      BY <2>1, <3>2, <3>4 DEF AtHand
  <2> QED
    BY <2>2, <2>3
<1>2. CASE init_token \/ EndOfText
  <2>1. pc' # "init_token"
    BY <1>2 DEF init_token, SkipCommand, PlainToken, TokenWithArg, UnknownCommand, EndOfText, Continue
  <2> QED
    BY <2>1 DEF AtHand
<1>3. CASE UNCHANGED vars
  BY <1>3 DEF vars, AtHand
<1> QED
  BY <1>1, <1>2, <1>3 DEF Next

LEMMA StepOperands == IInv /\ AtHand /\ OperandsExact /\ [Next]_vars => OperandsExact'
<1> SUFFICES ASSUME IInv, AtHand, OperandsExact, [Next]_vars PROVE OperandsExact'
  OBVIOUS
<1>1. CASE PlainToken
  BY <1>1, PlainTokenOperands, AppendedOperands DEF PlainToken
<1>2. CASE TokenWithArg
  BY <1>2, TokenWithArgOperands, AppendedOperands DEF TokenWithArg
<1>3. CASE UnknownCommand
  BY <1>3, UnknownCommandOperands, AppendedOperands DEF UnknownCommand
<1>4. CASE UNCHANGED << text, tokens, from >>
  BY <1>4 DEF OperandsExact, HasRegister, HasArgument, ArgumentOf, CommandOf, HasWord, size
<1> QED
  BY <1>1, <1>2, <1>3, <1>4 DEF Next, init_token, ReadCommand, SkipCommand, EndOfText, vars

(* init_token and insert_token_args, two reads into variables that keep    *)
(* what they had: a token has the command of its own number and the        *)
(* argument behind it, and one whose register operand, if it has any, is   *)
(* one of the guest's eight has a register of the table, whatever bytes    *)
(* lie around the table.                                                   *)
THEOREM OperandsOfNumbers == Spec => []OperandsExact
<1>1. Init => AtHand /\ OperandsExact
  BY DEF Init, AtHand, OperandsExact, size
<1> QED
  BY <1>1, StepAtHand, StepOperands, Invariance, PTL DEF Spec
=============================================================================
