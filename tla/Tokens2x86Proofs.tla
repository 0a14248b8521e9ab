--------------------------- MODULE Tokens2x86Proofs ---------------------------
(***************************************************************************)
(* What the processor reads in the code of a window, for every window and  *)
(* every immediate: bytes read as one instruction after the other, so what *)
(* is known of each instruction carries over to all of them together. Then *)
(* what they do when they are executed, from whatever machine the window   *)
(* starts, and that it is what the guest CPU does.                         *)
(***************************************************************************)
EXTENDS MCTokens2x86, EncodingProofs, WellFoundedInduction

-----------------------------------------------------------------------------
(* The listing of some bytes.                                              *)

(* The place after the instruction at k.                                   *)
InstrAt(b, k) == Decode(SubSeq(b, k, Len(b)))
After(b, k)   == k + InstrAt(b, k).len

(* What Disassemble reads from k on, given what it reads further on.       *)
ListingAt(b, f, k) ==
  IF k > Len(b) THEN << >>
  ELSE IF After(b, k) > Len(b) + 1 THEN << BadInstr >>
  ELSE << InstrAt(b, k) >> \o f[After(b, k)]

IsListing(b, f) == f = [k \in 1 .. Len(b) + 1 |-> ListingAt(b, f, k)]

LEMMA DisassembleDef ==
  ASSUME NEW b
  PROVE  Disassemble(b) = (CHOOSE f : IsListing(b, f))[1]
BY DEF Disassemble, IsListing, ListingAt, InstrAt, After

LEMMA InstrLen ==
  ASSUME NEW op, NEW dst, NEW src, NEW len
  PROVE  Instr(op, dst, src, len).len = len /\ Instr(op, dst, src, len).op = op
BY SMT DEF Instr

LEMMA SqrtLengths ==
  \A p \in SqrtParts : Len(p[1]) \in {4, 5}
BY SMT DEF SqrtParts

LEMMA DecodeAtLength ==
  ASSUME NEW b, NEW o \in {1, 2}
  PROVE  DecodeAt(b, o).len \in 1 .. 10
<1> DEFINE op == At(b, o)
           m  == At(b, o + 1)
<1>1. CASE op \in {\h01, \h03, \h29, \h2B, \h39, \h89, \h8B, \hF7, \hFF, \h8F}
  BY <1>1, SMTT(20) DEF DecodeAt, Instr
<1>2. CASE op \in {\h83, \h81, \hC7}
  BY <1>2, SMT DEF DecodeAt, Instr
<1>3. CASE op \in \hB8..\hBF
  BY <1>3, SMT DEF DecodeAt, Instr
<1>4. CASE op \in \h50..\h5F \/ op \in {\h6A, \h68, \hE8, \hE9, \hC3, \h90}
  BY <1>4, SMT DEF DecodeAt, Instr
<1>5. CASE op = \h0F
  BY <1>5, SMT DEF DecodeAt, Instr, BadInstr
<1>6. CASE /\ op \notin {\h01, \h03, \h29, \h2B, \h39, \h89, \h8B, \hF7, \hFF, \h8F}
           /\ op \notin {\h83, \h81, \hC7} /\ op \notin \hB8..\hBF
           /\ ~(op \in \h50..\h5F \/ op \in {\h6A, \h68, \hE8, \hE9, \hC3, \h90}) /\ op # \h0F
  <2>1. DecodeAt(b, o) = BadInstr
    BY <1>6, SMT DEF DecodeAt
  <2> QED
    BY <2>1, SMT DEF BadInstr, Instr
<1> QED
  BY <1>1, <1>2, <1>3, <1>4, <1>5, <1>6, SMTT(20)

LEMMA DecodeLength ==
  ASSUME NEW b
  PROVE  Decode(b).len \in 1 .. 10
<1>1. CASE \E p \in SqrtParts : StartsWith(b, p[1])
  <2>1. PICK part : part = CHOOSE p \in SqrtParts : StartsWith(b, p[1])
    BY Zenon
  <2>2. part \in SqrtParts
    BY <1>1, <2>1, Zenon
  <2>3. Decode(b) = Instr(part[2], NoOperand, NoOperand, Len(part[1]))
    BY <1>1, <2>1, Zenon DEF Decode
  <2> QED
    <3>1. Len(part[1]) \in {4, 5}
      BY <2>2, SqrtLengths, Zenon
    <3>2. Decode(b).len = Len(part[1])
      BY <2>3, SMT DEF Instr
    <3> QED
      BY <3>1, <3>2, SMT
<1>2. CASE ~ \E p \in SqrtParts : StartsWith(b, p[1])
  <2>1. Decode(b) = DecodeAt(b, IF HasRex(b) THEN 2 ELSE 1)
    BY <1>2, Zenon DEF Decode
  <2>2. CASE HasRex(b)
    BY <2>1, <2>2, DecodeAtLength, SMT
  <2>3. CASE ~HasRex(b)
    BY <2>1, <2>3, DecodeAtLength, SMT
  <2> QED
    BY <2>2, <2>3
<1> QED
  BY <1>1, <1>2

(* The recursion of Disassemble goes forward, so there is a listing.       *)
LEMMA ListingExists ==
  ASSUME NEW b \in Seq(Byte)
  PROVE  \E f : IsListing(b, f)
<1> DEFINE n == Len(b) + 1
           Partial(f, k) == /\ f = [j \in 1 .. n |-> f[j]]
                            /\ \A j \in 1 .. n : j > n - k => f[j] = ListingAt(b, f, j)
           Missing == { k \in 0 .. n : ~ \E f : Partial(f, k) }
<1>1. n \in Nat /\ n >= 1 /\ n = Len(b) + 1
  BY SMT
<1>2. \A k \in 1 .. n : After(b, k) \in Nat /\ After(b, k) > k
  <2>1. \A k \in 1 .. n : InstrAt(b, k).len \in 1 .. 10
    BY DecodeLength, Zenon DEF InstrAt
  <2> HIDE DEF n
  <2> QED
    BY <1>1, <2>1, SMTT(30) DEF After
<1> HIDE DEF n
<1>3. Partial([j \in 1 .. n |-> << >>], 0)
  BY <1>1, SMT
<1>4. ASSUME NEW k \in 0 .. n, k < n, NEW f, Partial(f, k)
      PROVE  \E g : Partial(g, k + 1)
  <2> DEFINE at == n - k
             g  == [j \in 1 .. n |-> IF j = at THEN ListingAt(b, f, at) ELSE f[j]]
  <2>1. at \in 1 .. n
    BY <1>1, <1>4, SMT
  <2>2. \A j \in 1 .. n : j >= at /\ j <= Len(b) /\ After(b, j) <= Len(b) + 1 =>
          g[After(b, j)] = f[After(b, j)]
    BY <1>1, <1>2, <2>1, SMT
  <2>3. \A j \in 1 .. n : j >= at => ListingAt(b, g, j) = ListingAt(b, f, j)
    <3> TAKE j \in 1 .. n
    <3> HAVE j >= at
    <3>1. j \in Nat /\ Len(b) \in Nat /\ (j > Len(b) \/ j <= Len(b))
      BY <1>1, SMT
    <3>2. CASE j > Len(b)
      BY <3>2, Zenon DEF ListingAt
    <3>3. CASE ~(j > Len(b)) /\ After(b, j) > Len(b) + 1
      BY <3>3, Zenon DEF ListingAt
    <3>4. CASE ~(j > Len(b)) /\ ~(After(b, j) > Len(b) + 1)
      <4>1. After(b, j) <= Len(b) + 1 /\ j <= Len(b)
        BY <1>2, <3>1, <3>4, SMT
      <4>2. g[After(b, j)] = f[After(b, j)]
        BY <2>2, <4>1, Zenon
      <4> HIDE DEF g
      <4> QED
        BY <3>4, <4>2, Zenon DEF ListingAt
    <3> QED
      BY <3>2, <3>3, <3>4
  <2>4. g[at] = ListingAt(b, f, at) /\ \A j \in 1 .. n : j # at => g[j] = f[j]
    BY <2>1, Zenon
  <2>5. g = [j \in 1 .. n |-> g[j]]
    BY Zenon
  <2> HIDE DEF g
  <2>6. \A j \in 1 .. n : j > n - (k + 1) => j = at \/ j > n - k
    BY <1>1, SMT
  <2>7. \A j \in 1 .. n : j > n - k => j >= at /\ j # at
    BY <1>1, SMT
  <2>8. at >= at
    BY <2>1, SMT
  <2>9. \A j \in 1 .. n : j > n - (k + 1) => g[j] = ListingAt(b, g, j)
    <3> HIDE DEF at
    <3> QED
      BY <1>4, <2>1, <2>3, <2>4, <2>6, <2>7, <2>8, Zenon
  <2> QED
    BY <2>5, <2>9, Zenon
<1>5. Missing = {}
  <2> SUFFICES ASSUME Missing # {} PROVE FALSE
    OBVIOUS
  <2>1. Missing \subseteq Nat
    BY <1>1, SMT
  <2> HIDE DEF Missing
  <2>2. PICK k \in Missing : \A j \in Missing : ~(<< j, k >> \in OpToRel(<, Nat))
    BY <2>1, NatLessThanWellFounded, WFMin
  <2> USE DEF Missing
  <2>3. k \in 0 .. n /\ ~ \E f : Partial(f, k)
    BY <2>2
  <2>4. k # 0
    BY <1>3, <2>3
  <2>5. k - 1 \in 0 .. n /\ k - 1 < n /\ (k - 1) + 1 = k /\ k - 1 < k
    BY <1>1, <2>3, <2>4, SMT
  <2>6. k - 1 \notin Missing
    <3> HIDE DEF Missing
    <3>1. k - 1 \in Nat /\ k \in Nat
      BY <1>1, <2>3, <2>5, SMT
    <3>2. << k - 1, k >> \in OpToRel(<, Nat)
      BY <2>5, <3>1, SMT DEF OpToRel
    <3> QED
      BY <2>2, <3>2
  <2>7. PICK f : Partial(f, k - 1)
    BY <2>5, <2>6
  <2> HIDE DEF Missing, Partial
  <2> QED
    BY <1>4, <2>3, <2>5, <2>7
<1>6. PICK f : Partial(f, n)
  BY <1>1, <1>5
<1>7. \A j \in 1 .. n : f[j] = ListingAt(b, f, j)
  BY <1>1, <1>6, SMT
<1>8. IsListing(b, f)
  BY <1>1, <1>6, <1>7, Zenon DEF IsListing
<1> QED
  BY <1>8


(* Induction from the last place to the first.                             *)
LEMMA FromTheEnd ==
  ASSUME NEW n \in Nat, NEW S,
         \A k \in 1 .. n : (\A j \in k + 1 .. n : j \in S) => k \in S
  PROVE  \A k \in 1 .. n : k \in S
<1> DEFINE Missing == { d \in 0 .. n - 1 : n - d \notin S }
<1>1. Missing = {}
  <2> SUFFICES ASSUME Missing # {} PROVE FALSE
    OBVIOUS
  <2>1. Missing \subseteq Nat
    BY SMT
  <2> HIDE DEF Missing
  <2>2. PICK d \in Missing : \A e \in Missing : ~(<< e, d >> \in OpToRel(<, Nat))
    BY <2>1, NatLessThanWellFounded, WFMin
  <2>3. d \in 0 .. n - 1 /\ n - d \notin S
    BY <2>2 DEF Missing
  <2>4. ASSUME NEW j \in n - d + 1 .. n PROVE j \in S
    <3>1. n - j \in 0 .. n - 1 /\ n - j < d /\ n - (n - j) = j /\ n - j \in Nat /\ d \in Nat
      BY <2>3, <2>4, SMT
    <3>2. << n - j, d >> \in OpToRel(<, Nat)
      BY <3>1, SMT DEF OpToRel
    <3>3. n - j \notin Missing
      BY <2>2, <3>2
    <3> QED
      BY <3>1, <3>3 DEF Missing
  <2>5. n - d \in 1 .. n
    BY <2>3, SMT
  <2> QED
    BY <2>3, <2>4, <2>5
<1>2. ASSUME NEW k \in 1 .. n PROVE k \in S
  <2>1. n - k \in 0 .. n - 1 /\ n - (n - k) = k
    BY <1>2, SMT
  <2> QED
    BY <1>1, <2>1
<1> QED
  BY <1>2

LEMMA AfterIsBehind ==
  ASSUME NEW b \in Seq(Byte), NEW k \in 1 .. Len(b) + 1
  PROVE  After(b, k) \in Int /\ After(b, k) > k
BY DecodeLength, SMT DEF After, InstrAt

LEMMA ListingRead ==
  ASSUME NEW b, NEW f, IsListing(b, f), NEW k \in 1 .. Len(b) + 1
  PROVE  f[k] = ListingAt(b, f, k)
<1> DEFINE At1(j) == ListingAt(b, f, j)
           D == 1 .. Len(b) + 1
<1>1. f = [j \in D |-> At1(j)]
  BY Zenon DEF IsListing
<1> HIDE DEF At1
<1>2. f[k] = At1(k)
  BY <1>1, Zenon
<1> QED
  BY <1>2 DEF At1

LEMMA ListingUnique ==
  ASSUME NEW b \in Seq(Byte), NEW f, NEW g, IsListing(b, f), IsListing(b, g)
  PROVE  \A k \in 1 .. Len(b) + 1 : f[k] = g[k]
<1> DEFINE n == Len(b) + 1
           S == { k \in 1 .. n : f[k] = g[k] }
<1>1. n \in Nat /\ n = Len(b) + 1 /\ Len(b) \in Nat
  BY SMT
<1>2. ASSUME NEW k \in 1 .. n, \A j \in k + 1 .. n : j \in S PROVE k \in S
  <2>1. f[k] = ListingAt(b, f, k) /\ g[k] = ListingAt(b, g, k)
    BY ListingRead
  <2>2. After(b, k) \in Int /\ After(b, k) > k
    BY AfterIsBehind
  <2>3. CASE k > Len(b)
    BY <2>1, <2>3, Zenon DEF ListingAt
  <2>4. CASE ~(k > Len(b)) /\ After(b, k) > Len(b) + 1
    BY <2>1, <2>4, Zenon DEF ListingAt
  <2>5. CASE ~(k > Len(b)) /\ ~(After(b, k) > Len(b) + 1)
    <3>1. After(b, k) \in k + 1 .. n
      BY <1>1, <1>2, <2>2, <2>5, SMT
    <3>2. f[After(b, k)] = g[After(b, k)]
      BY <1>2, <3>1, Zenon
    <3>3. ListingAt(b, f, k) = ListingAt(b, g, k)
      BY <2>5, <3>2, Zenon DEF ListingAt
    <3> QED
      BY <2>1, <3>3, Zenon
  <2> QED
    BY <2>3, <2>4, <2>5
<1> HIDE DEF n, S
<1>3. \A k \in 1 .. n : k \in S
  BY <1>1, <1>2, FromTheEnd
<1> QED
  BY <1>3 DEF n, S

LEMMA Listed ==
  ASSUME NEW b \in Seq(Byte)
  PROVE  \E f : IsListing(b, f) /\ Disassemble(b) = f[1]
<1>1. PICK f : f = CHOOSE g : IsListing(b, g)
  BY Zenon
<1>2. IsListing(b, f)
  BY <1>1, ListingExists, Zenon
<1> QED
  BY <1>1, <1>2, DisassembleDef, Zenon

-----------------------------------------------------------------------------
(* Code in front of other code.                                            *)

LEMMA Suffix ==
  ASSUME NEW b \in Seq(Byte), NEW k \in 1 .. Len(b)
  PROVE  /\ SubSeq(b, k, Len(b)) \in Seq(Byte) /\ Len(SubSeq(b, k, Len(b))) = Len(b) - k + 1
         /\ \A j \in 1 .. Len(b) - k + 1 : SubSeq(b, k, Len(b))[j] = b[k + j - 1]
BY SMT

LEMMA Rest ==
  ASSUME NEW c \in Seq(Byte), NEW t \in Seq(Byte)
  PROVE  /\ c \o t \in Seq(Byte) /\ Len(c \o t) = Len(c) + Len(t)
         /\ SubSeq(c \o t, 1, Len(c \o t)) = c \o t
         /\ \A k \in 1 .. Len(t) : SubSeq(c \o t, Len(c) + k, Len(c \o t)) = SubSeq(t, k, Len(t))
<1> DEFINE b == c \o t
<1>1. b \in Seq(Byte) /\ Len(b) = Len(c) + Len(t) /\ Len(c) \in Nat /\ Len(t) \in Nat
  OBVIOUS
<1>2. \A k \in 1 .. Len(t) : b[Len(c) + k] = t[k]
  BY SMT
<1> HIDE DEF b
<1>3. SubSeq(b, 1, Len(b)) = b
  <2> DEFINE s == SubSeq(b, 1, Len(b))
  <2>1. s \in Seq(Byte) /\ Len(s) = Len(b) /\ \A j \in 1 .. Len(b) : s[j] = b[j]
    BY <1>1, SMT
  <2> HIDE DEF s
  <2> QED
    BY <1>1, <2>1, SeqEqual, SMT DEF s
<1>4. ASSUME NEW k \in 1 .. Len(t) PROVE SubSeq(b, Len(c) + k, Len(b)) = SubSeq(t, k, Len(t))
  <2> DEFINE s == SubSeq(b, Len(c) + k, Len(b))
             r == SubSeq(t, k, Len(t))
  <2>0. Len(c) + k \in 1 .. Len(b) /\ Len(b) - (Len(c) + k) + 1 = Len(t) - k + 1
    BY <1>1, <1>4, SMT
  <2>1. s \in Seq(Byte) /\ Len(s) = Len(t) - k + 1
        /\ \A j \in 1 .. Len(t) - k + 1 : s[j] = b[Len(c) + k + j - 1]
    <3>1. /\ s \in Seq(Byte) /\ Len(s) = Len(b) - (Len(c) + k) + 1
          /\ \A j \in 1 .. Len(b) - (Len(c) + k) + 1 : s[j] = b[Len(c) + k + j - 1]
      BY <1>1, <2>0, Suffix, Zenon
    <3> QED
      BY <2>0, <3>1, Zenon
  <2>2. r \in Seq(Byte) /\ Len(r) = Len(t) - k + 1
        /\ \A j \in 1 .. Len(t) - k + 1 : r[j] = t[k + j - 1]
    BY <1>1, <1>4, SMT
  <2>3. \A j \in 1 .. Len(t) - k + 1 : s[j] = r[j]
    <3> TAKE j \in 1 .. Len(t) - k + 1
    <3>1. k + j - 1 \in 1 .. Len(t) /\ Len(c) + k + j - 1 = Len(c) + (k + j - 1)
      BY <1>1, <1>4, SMT
    <3> HIDE DEF s, r
    <3> QED
      BY <1>2, <2>1, <2>2, <3>1, Zenon
  <2> HIDE DEF s, r
  <2>4. Len(s) = Len(r) /\ \A j \in 1 .. Len(s) : s[j] = r[j]
    BY <2>1, <2>2, <2>3, Zenon
  <2>5. s = r
    BY <2>1, <2>2, <2>4, SeqEqual, Zenon
  <2> QED
    BY <2>5 DEF s, r
<1> QED
  BY <1>1, <1>3, <1>4 DEF b

LEMMA ListingOfRest ==
  ASSUME NEW c \in Seq(Byte), NEW t \in Seq(Byte), NEW f, IsListing(c \o t, f)
  PROVE  f[Len(c) + 1] = Disassemble(t)
<1> DEFINE b == c \o t
           g == [k \in 1 .. Len(t) + 1 |-> f[Len(c) + k]]
<1>1. /\ Len(b) = Len(c) + Len(t) /\ Len(c) \in Nat /\ Len(t) \in Nat /\ b \in Seq(Byte)
      /\ \A k \in 1 .. Len(t) : InstrAt(b, Len(c) + k) = InstrAt(t, k)
  <2>1. Len(c) \in Nat /\ Len(t) \in Nat
    BY SMT
  <2>2. b \in Seq(Byte) /\ Len(b) = Len(c) + Len(t)
    BY Rest, Zenon
  <2>3. \A k \in 1 .. Len(t) : SubSeq(b, Len(c) + k, Len(b)) = SubSeq(t, k, Len(t))
    BY Rest, Zenon
  <2> HIDE DEF b
  <2> QED
    BY <2>1, <2>2, <2>3, Zenon DEF InstrAt
<1>2. \A k \in 1 .. Len(t) + 1 : f[Len(c) + k] = ListingAt(b, f, Len(c) + k)
  <2> TAKE k \in 1 .. Len(t) + 1
  <2>1. Len(c) + k \in 1 .. Len(b) + 1
    BY <1>1, SMT
  <2> HIDE DEF b
  <2> QED
    BY <2>1, ListingRead DEF b
<1> HIDE DEF b
<1>3. ASSUME NEW k \in 1 .. Len(t) + 1 PROVE ListingAt(b, f, Len(c) + k) = ListingAt(t, g, k)
  <2>1. CASE k > Len(t)
    <3>1. Len(c) + k > Len(b)
      BY <1>1, <2>1, SMT
    <3> QED
      BY <2>1, <3>1, Zenon DEF ListingAt
  <2>2. CASE ~(k > Len(t))
    <3>1. k \in 1 .. Len(t) /\ ~(Len(c) + k > Len(b))
      BY <1>1, <2>2, SMT
    <3>2. InstrAt(b, Len(c) + k) = InstrAt(t, k)
      BY <1>1, <3>1
    <3>3. After(t, k) \in Int /\ After(t, k) > k
      BY AfterIsBehind
    <3>4. After(b, Len(c) + k) = Len(c) + After(t, k)
      <4>1. InstrAt(t, k).len \in Int
        BY DecodeLength, SMT DEF InstrAt
      <4> QED
        BY <1>1, <3>1, <3>2, <4>1, SMT DEF After
    <3>5. CASE After(t, k) > Len(t) + 1
      <4>1. After(b, Len(c) + k) > Len(b) + 1
        BY <1>1, <3>3, <3>4, <3>5, SMT
      <4> QED
        BY <2>2, <3>1, <3>5, <4>1, Zenon DEF ListingAt
    <3>6. CASE ~(After(t, k) > Len(t) + 1)
      <4>1. ~(After(b, Len(c) + k) > Len(b) + 1) /\ After(t, k) \in 1 .. Len(t) + 1
        BY <1>1, <3>3, <3>4, <3>6, SMT
      <4>2. g[After(t, k)] = f[After(b, Len(c) + k)]
        BY <3>4, <4>1, Zenon
      <4> HIDE DEF g
      <4> QED
        BY <2>2, <3>1, <3>2, <3>6, <4>1, <4>2, Zenon DEF ListingAt
    <3> QED
      BY <3>5, <3>6
  <2> QED
    BY <2>1, <2>2
<1>4. IsListing(t, g)
  <2> DEFINE h == [k \in 1 .. Len(t) + 1 |-> ListingAt(t, g, k)]
  <2>1. \A k \in 1 .. Len(t) + 1 : f[Len(c) + k] = ListingAt(t, g, k)
    BY <1>2, <1>3, Zenon
  <2>2. g = h
    BY <2>1, Zenon
  <2> QED
    BY <2>2, Zenon DEF IsListing
<1>5. 1 \in 1 .. Len(t) + 1
  BY <1>1, SMT
<1>6. g[1] = f[Len(c) + 1]
  BY <1>5, Zenon
<1>7. PICK h : IsListing(t, h) /\ Disassemble(t) = h[1]
  BY Listed
<1> HIDE DEF g
<1>8. g[1] = h[1]
  <2>1. \A k \in 1 .. Len(t) + 1 : g[k] = h[k]
    BY <1>4, <1>7, ListingUnique
  <2> QED
    BY <1>5, <2>1, Zenon
<1> QED
  BY <1>6, <1>7, <1>8

(* An instruction first, then what follows it.                             *)
LEMMA DisassembleFirst ==
  ASSUME NEW c \in Seq(Byte), NEW t \in Seq(Byte), Len(c) > 0, Decode(c \o t).len = Len(c)
  PROVE  Disassemble(c \o t) = << Decode(c \o t) >> \o Disassemble(t)
<1>1. PICK f : IsListing(c \o t, f) /\ Disassemble(c \o t) = f[1]
  BY Rest, Listed
<1>2. f[Len(c) + 1] = Disassemble(t)
  BY <1>1, ListingOfRest
<1>3. /\ c \o t \in Seq(Byte) /\ Len(c \o t) = Len(c) + Len(t) /\ Len(c) \in Nat /\ Len(t) \in Nat
      /\ SubSeq(c \o t, 1, Len(c \o t)) = c \o t
  BY Rest
<1>4. PICK b : b = c \o t
  BY Zenon
<1>5. f[1] = ListingAt(b, f, 1)
  <2>1. 1 \in 1 .. Len(b) + 1
    BY <1>3, <1>4, SMT
  <2> QED
    BY <1>1, <1>4, <2>1, ListingRead, Zenon
<1>6. InstrAt(b, 1) = Decode(b)
  BY <1>3, <1>4, Zenon DEF InstrAt
<1>7. After(b, 1) = Len(c) + 1
  <2>1. InstrAt(b, 1).len = Len(c)
    BY <1>4, <1>6, Zenon
  <2> QED
    BY <1>3, <2>1, SMT DEF After
<1>8. ~(1 > Len(b)) /\ ~(After(b, 1) > Len(b) + 1)
  BY <1>3, <1>4, <1>7, SMT
<1>9. ListingAt(b, f, 1) = << Decode(b) >> \o f[Len(c) + 1]
  BY <1>6, <1>7, <1>8, Zenon DEF ListingAt
<1> QED
  BY <1>1, <1>2, <1>4, <1>5, <1>9, Zenon

LEMMA DisassembleEmpty == Disassemble(<< >>) = << >>
<1>1. << >> \in Seq(Byte) /\ Len(<< >>) = 0
  BY SMT
<1>2. PICK f : IsListing(<< >>, f) /\ Disassemble(<< >>) = f[1]
  BY <1>1, Listed
<1>3. 1 \in 1 .. Len(<< >>) + 1 /\ 1 > Len(<< >>)
  BY <1>1, SMT
<1>4. f[1] = ListingAt(<< >>, f, 1)
  BY <1>2, <1>3, ListingRead, Zenon
<1> QED
  BY <1>2, <1>3, <1>4, Zenon DEF ListingAt

(* What a listing is made of.                                              *)
Instrs == { Decode(b) : b \in Seq(Byte) } \cup { BadInstr }

LEMMA DisassembleType ==
  ASSUME NEW b \in Seq(Byte)
  PROVE  Disassemble(b) \in Seq(Instrs)
<1>1. PICK f : IsListing(b, f) /\ Disassemble(b) = f[1]
  BY Listed
<1> DEFINE n == Len(b) + 1
           S == { k \in 1 .. n : f[k] \in Seq(Instrs) }
<1>2. n \in Nat /\ n = Len(b) + 1 /\ Len(b) \in Nat
  BY SMT
<1>3. ASSUME NEW k \in 1 .. n, \A j \in k + 1 .. n : j \in S PROVE k \in S
  <2>1. f[k] = ListingAt(b, f, k)
    BY <1>1, ListingRead
  <2>2. After(b, k) \in Int /\ After(b, k) > k
    BY AfterIsBehind
  <2>3. CASE k > Len(b)
    <3>1. f[k] = << >>
      BY <2>1, <2>3, Zenon DEF ListingAt
    <3>2. << >> \in Seq(Instrs)
      BY SMT
    <3> QED
      BY <1>3, <3>1, <3>2, Zenon
  <2>4. CASE ~(k > Len(b)) /\ After(b, k) > Len(b) + 1
    <3>1. f[k] = << BadInstr >>
      BY <2>1, <2>4, Zenon DEF ListingAt
    <3>2. BadInstr \in Instrs
      BY Zenon DEF Instrs
    <3>3. << BadInstr >> \in Seq(Instrs)
      BY <3>2, SMT
    <3> QED
      BY <1>3, <3>1, <3>3, Zenon
  <2>5. CASE ~(k > Len(b)) /\ ~(After(b, k) > Len(b) + 1)
    <3>1. After(b, k) \in k + 1 .. n
      BY <1>2, <1>3, <2>2, <2>5, SMT
    <3>2. f[After(b, k)] \in Seq(Instrs)
      BY <1>3, <3>1, Zenon
    <3>3. f[k] = << InstrAt(b, k) >> \o f[After(b, k)]
      BY <2>1, <2>5, Zenon DEF ListingAt
    <3>4. InstrAt(b, k) \in Instrs
      <4>1. SubSeq(b, k, Len(b)) \in Seq(Byte)
        BY <1>2, <1>3, <2>5, SMT
      <4> QED
        BY <4>1, Zenon DEF Instrs, InstrAt
    <3>5. << InstrAt(b, k) >> \in Seq(Instrs)
      BY <3>4, SMT
    <3>6. << InstrAt(b, k) >> \o f[After(b, k)] \in Seq(Instrs)
      BY <3>2, <3>5, SMT
    <3> QED
      BY <3>3, <3>6
  <2> QED
    BY <2>3, <2>4, <2>5
<1> HIDE DEF n, S
<1>4. \A k \in 1 .. n : k \in S
  BY <1>2, <1>3, FromTheEnd
<1>5. 1 \in 1 .. n
  BY <1>2, SMT
<1> QED
  BY <1>1, <1>4, <1>5 DEF S

(* c reads as these instructions, whatever follows it.                     *)
ReadsAs(c, instrs) ==
  /\ c \in Seq(Byte) /\ instrs \in Seq(Instrs)
  /\ \A t \in Seq(Byte) : Disassemble(c \o t) = instrs \o Disassemble(t)

LEMMA ReadsNothing == ReadsAs(<< >>, << >>)
<1>1. << >> \in Seq(Byte) /\ << >> \in Seq(Instrs)
  BY SMT
<1>2. ASSUME NEW t \in Seq(Byte) PROVE Disassemble(<< >> \o t) = << >> \o Disassemble(t)
  <2>1. Disassemble(t) \in Seq(Instrs)
    BY DisassembleType
  <2>2. << >> \o t = t
    BY ConcatEmptySeq
  <2>3. << >> \o Disassemble(t) = Disassemble(t)
    BY <2>1, ConcatEmptySeq
  <2> QED
    BY <2>2, <2>3
<1> QED
  BY <1>1, <1>2, Zenon DEF ReadsAs

LEMMA Grouped ==
  ASSUME NEW S, NEW s \in Seq(S), NEW t \in Seq(S), NEW u \in Seq(S)
  PROVE  (s \o t) \o u = s \o (t \o u)
<1> DEFINE l == (s \o t) \o u
           r == s \o (t \o u)
<1>1. /\ l \in Seq(S) /\ r \in Seq(S)
      /\ Len(l) = Len(s) + Len(t) + Len(u) /\ Len(r) = Len(s) + Len(t) + Len(u)
  BY SMT
<1>2. \A k \in 1 .. Len(s) + Len(t) + Len(u) : l[k] = r[k]
  BY SMT
<1> HIDE DEF l, r
<1>3. Len(l) = Len(r) /\ \A k \in 1 .. Len(l) : l[k] = r[k]
  BY <1>1, <1>2, Zenon
<1>4. l = r
  BY <1>1, <1>3, SeqEqual, Zenon
<1> QED
  BY <1>4 DEF l, r

LEMMA GroupedBytes ==
  ASSUME NEW s \in Seq(Byte), NEW t \in Seq(Byte), NEW u \in Seq(Byte)
  PROVE  (s \o t) \o u = s \o (t \o u)
BY Grouped

LEMMA GroupedInstrs ==
  ASSUME NEW s \in Seq(Instrs), NEW t \in Seq(Instrs), NEW u \in Seq(Instrs)
  PROVE  (s \o t) \o u = s \o (t \o u)
BY Grouped

LEMMA ReadsBoth ==
  ASSUME NEW a, NEW i, ReadsAs(a, i), NEW c, NEW j, ReadsAs(c, j)
  PROVE  ReadsAs(a \o c, i \o j)
<1>1. /\ a \in Seq(Byte) /\ i \in Seq(Instrs) /\ c \in Seq(Byte) /\ j \in Seq(Instrs)
      /\ \A t \in Seq(Byte) : Disassemble(a \o t) = i \o Disassemble(t)
      /\ \A t \in Seq(Byte) : Disassemble(c \o t) = j \o Disassemble(t)
  BY DEF ReadsAs
<1>2. a \o c \in Seq(Byte) /\ i \o j \in Seq(Instrs)
  BY <1>1, SMT
<1>3. ASSUME NEW t \in Seq(Byte) PROVE Disassemble((a \o c) \o t) = (i \o j) \o Disassemble(t)
  <2>1. Disassemble(t) \in Seq(Instrs) /\ c \o t \in Seq(Byte)
    BY <1>1, DisassembleType
  <2>2. (a \o c) \o t = a \o (c \o t)
    BY <1>1, GroupedBytes
  <2>3. (i \o j) \o Disassemble(t) = i \o (j \o Disassemble(t))
    BY <1>1, <2>1, GroupedInstrs
  <2>4. Disassemble(a \o (c \o t)) = i \o Disassemble(c \o t)
    BY <1>1, <2>1, Zenon
  <2>5. Disassemble(c \o t) = j \o Disassemble(t)
    BY <1>1
  <2> QED
    BY <2>2, <2>3, <2>4, <2>5, Zenon
<1> QED
  BY <1>2, <1>3, Zenon DEF ReadsAs

LEMMA ReadsAll ==
  ASSUME NEW c, NEW i, ReadsAs(c, i)
  PROVE  Disassemble(c) = i /\ i \in Seq(Instrs)
<1>1. c \in Seq(Byte) /\ i \in Seq(Instrs) /\ << >> \in Seq(Byte)
  BY SMT DEF ReadsAs
<1>2. Disassemble(c \o << >>) = i \o Disassemble(<< >>)
  BY <1>1, Zenon DEF ReadsAs
<1>3. c \o << >> = c /\ i \o << >> = i
  BY <1>1, ConcatEmptySeq
<1> QED
  BY <1>1, <1>2, <1>3, DisassembleEmpty, Zenon


-----------------------------------------------------------------------------
(* An instruction is read from its own bytes.                              *)

(* The first n bytes of b are those of c.                                  *)
SameFront(b, c, n) ==
  /\ \A k \in 1 .. n : At(b, k) = At(c, k)
  /\ HasRex(b) = HasRex(c) /\ RexB(b) = RexB(c) /\ RexR(b) = RexR(c) /\ RexW(b) = RexW(c)

LEMMA RmFront ==
  ASSUME NEW b, NEW c, NEW n, SameFront(b, c, n), NEW m
  PROVE  RmOf(b, m) = RmOf(c, m)
BY Zenon DEF RmOf, SameFront

LEMMA Signed8Front ==
  ASSUME NEW b, NEW c, NEW n \in Nat, SameFront(b, c, n), NEW k \in 1 .. n
  PROVE  Signed8(b, k) = Signed8(c, k)
BY Zenon DEF Signed8, SameFront

LEMMA Signed32Front ==
  ASSUME NEW b, NEW c, NEW n \in Nat, SameFront(b, c, n), NEW k \in Nat, 1 <= k, k + 3 <= n
  PROVE  Signed32(b, k) = Signed32(c, k)
<1>1. k \in 1 .. n /\ k + 1 \in 1 .. n /\ k + 2 \in 1 .. n /\ k + 3 \in 1 .. n
  BY SMT
<1>2. At(b, k) = At(c, k) /\ At(b, k + 1) = At(c, k + 1) /\ At(b, k + 2) = At(c, k + 2)
  BY <1>1, Zenon DEF SameFront
<1>3. Signed8(b, k + 3) = Signed8(c, k + 3)
  BY <1>1, Signed8Front
<1> QED
  BY <1>2, <1>3, SMT DEF Signed32

OneByteMore  == {\h01, \h03, \h29, \h2B, \h39, \h89, \h8B, \hF7, \hFF, \h8F}
ModRmAndInt  == {\h81, \hC7}
IntMore      == {\h68, \hE8, \hE9}
Alone        == \h50..\h5F \cup {\hC3, \h90}
Loads        == \hB8..\hBF

LEMMA LoadsRead ==
  ASSUME NEW b, NEW o, At(b, o) \in Loads
  PROVE  LET low == Reg((At(b, o) % 8) + RexB(b))
         IN  /\ RexW(b) => DecodeAt(b, o) = Instr("movabs", low, OtherAddress, o + 8)
             /\ ~RexW(b) => DecodeAt(b, o) = Instr("mov32", low, Imm(Signed32(b, o + 1)), o + 4)
<1> DEFINE low == Reg((At(b, o) % 8) + RexB(b))
<1>1. ASSUME RexW(b) PROVE DecodeAt(b, o) = Instr("movabs", low, OtherAddress, o + 8)
  BY <1>1, SMTT(40) DEF DecodeAt, Loads
<1>2. ASSUME ~RexW(b) PROVE DecodeAt(b, o) = Instr("mov32", low, Imm(Signed32(b, o + 1)), o + 4)
  BY <1>2, SMTT(40) DEF DecodeAt, Loads
<1> QED
  BY <1>1, <1>2

LEMMA OpcodeLengths ==
  ASSUME NEW b, NEW o \in {1, 2}
  PROVE  /\ At(b, o) \in OneByteMore => DecodeAt(b, o).len = o + 1
         /\ At(b, o) \in ModRmAndInt => DecodeAt(b, o).len = o + 5
         /\ At(b, o) \in Loads /\ ~RexW(b) => DecodeAt(b, o).len = o + 4
         /\ At(b, o) \in IntMore => DecodeAt(b, o).len = o + 4
<1>1. ASSUME At(b, o) \in OneByteMore PROVE DecodeAt(b, o).len = o + 1
  <2>1. CASE At(b, o) = \h01
    BY <2>1, SMTT(20) DEF DecodeAt, Instr
  <2>2. CASE At(b, o) = \h03
    BY <2>2, SMTT(20) DEF DecodeAt, Instr
  <2>3. CASE At(b, o) = \h29
    BY <2>3, SMTT(20) DEF DecodeAt, Instr
  <2>4. CASE At(b, o) = \h2B
    BY <2>4, SMTT(20) DEF DecodeAt, Instr
  <2>5. CASE At(b, o) = \h39
    BY <2>5, SMTT(20) DEF DecodeAt, Instr
  <2>6. CASE At(b, o) = \h89
    BY <2>6, SMTT(20) DEF DecodeAt, Instr
  <2>7. CASE At(b, o) = \h8B
    BY <2>7, SMTT(20) DEF DecodeAt, Instr
  <2>8. CASE At(b, o) = \hF7
    BY <2>8, SMTT(20) DEF DecodeAt, Instr
  <2>9. CASE At(b, o) = \hFF
    BY <2>9, SMTT(20) DEF DecodeAt, Instr
  <2>10. CASE At(b, o) = \h8F
    BY <2>10, SMTT(20) DEF DecodeAt, Instr
  <2> QED
    BY <1>1, <2>1, <2>2, <2>3, <2>4, <2>5, <2>6, <2>7, <2>8, <2>9, <2>10, SMT DEF OneByteMore
<1>2. ASSUME At(b, o) \in ModRmAndInt PROVE DecodeAt(b, o).len = o + 5
  <2>1. CASE At(b, o) = \h81
    BY <2>1, SMTT(20) DEF DecodeAt, Instr
  <2>2. CASE At(b, o) = \hC7
    BY <2>2, SMTT(20) DEF DecodeAt, Instr
  <2> QED
    BY <1>2, <2>1, <2>2, SMT DEF ModRmAndInt
<1>3. ASSUME At(b, o) \in IntMore PROVE DecodeAt(b, o).len = o + 4
  <2>1. CASE At(b, o) = \h68
    BY <2>1, SMTT(20) DEF DecodeAt, Instr
  <2>2. CASE At(b, o) = \hE8
    BY <2>2, SMTT(20) DEF DecodeAt, Instr
  <2>3. CASE At(b, o) = \hE9
    BY <2>3, SMTT(20) DEF DecodeAt, Instr
  <2> QED
    BY <1>3, <2>1, <2>2, <2>3, SMT DEF IntMore
<1>4. ASSUME At(b, o) \in Loads, ~RexW(b) PROVE DecodeAt(b, o).len = o + 4
  BY <1>4, LoadsRead, InstrLen
<1> QED
  BY <1>1, <1>2, <1>3, <1>4

LEMMA NoOpcode ==
  ASSUME NEW b, NEW o,
         At(b, o) \notin OneByteMore, At(b, o) # \h83, At(b, o) \notin ModRmAndInt, At(b, o) \notin Loads,
         At(b, o) \notin Alone, At(b, o) # \h6A, At(b, o) \notin IntMore, At(b, o) # \h0F
  PROVE  DecodeAt(b, o) = BadInstr
BY SMTT(20) DEF DecodeAt, OneByteMore, ModRmAndInt, Loads, Alone, IntMore

LEMMA NoOpcodeAlone ==
  ASSUME NEW b, NEW o, At(b, o) \in {0, \hF2}
  PROVE  DecodeAt(b, o) = BadInstr
<1> DEFINE op == At(b, o)
<1>1. /\ op \notin OneByteMore /\ op # \h83 /\ op \notin ModRmAndInt /\ op \notin Loads
      /\ op \notin Alone /\ op # \h6A /\ op \notin IntMore /\ op # \h0F
  <2> HIDE DEF op
  <2>1. op \in {0, \hF2}
    BY DEF op
  <2> QED
    BY <2>1, SMT DEF OneByteMore, ModRmAndInt, Loads, Alone, IntMore
<1> QED
  BY <1>1, NoOpcode

LEMMA DecodeAtFront ==
  ASSUME NEW b, NEW c, NEW o \in {1, 2}, NEW n \in Nat, SameFront(b, c, n), o <= n,
         DecodeAt(c, o).len = n, DecodeAt(c, o).op # "bad"
  PROVE  DecodeAt(b, o) = DecodeAt(c, o)
<1> DEFINE op == At(c, o)
           m  == At(c, o + 1)
<1>1. At(b, o) = op
  BY SMT DEF SameFront
<1>2. RmOf(b, m) = RmOf(c, m) /\ RexB(b) = RexB(c) /\ RexR(b) = RexR(c) /\ RexW(b) = RexW(c)
  <2>1. RexB(b) = RexB(c) /\ RexR(b) = RexR(c) /\ RexW(b) = RexW(c)
    BY Zenon DEF SameFront
  <2>2. RmOf(b, m) = RmOf(c, m)
    <3> HIDE DEF m
    <3> QED
      BY RmFront, Zenon
  <2> QED
    BY <2>1, <2>2
<1>3. n >= o + 1 => At(b, o + 1) = m
  BY SMT DEF SameFront
<1>4. /\ n >= o + 1 => Signed8(b, o + 1) = Signed8(c, o + 1)
      /\ n >= o + 2 => Signed8(b, o + 2) = Signed8(c, o + 2)
      /\ n >= o + 4 => Signed32(b, o + 1) = Signed32(c, o + 1)
      /\ n >= o + 5 => Signed32(b, o + 2) = Signed32(c, o + 2)
  <2>1. o \in Nat /\ 1 <= o + 1 /\ 1 <= o + 2 /\ o + 1 \in Nat /\ o + 2 \in Nat
    BY SMT
  <2>2. /\ n >= o + 1 => o + 1 \in 1 .. n
        /\ n >= o + 2 => o + 2 \in 1 .. n
        /\ n >= o + 4 => (o + 1) + 3 <= n
        /\ n >= o + 5 => (o + 2) + 3 <= n
    BY SMT
  <2> QED
    BY <2>1, <2>2, Signed8Front, Signed32Front, SMT
<1>5. CASE op \in OneByteMore
  <2>1. n = o + 1
    BY <1>5, OpcodeLengths
  <2>2. At(b, o + 1) = m
    BY <1>3, <2>1
  <2>3. CASE op = \h01
    BY <1>1, <1>2, <2>2, <2>3, SMTT(20) DEF DecodeAt
  <2>4. CASE op = \h03
    BY <1>1, <1>2, <2>2, <2>4, SMTT(20) DEF DecodeAt
  <2>5. CASE op = \h29
    BY <1>1, <1>2, <2>2, <2>5, SMTT(20) DEF DecodeAt
  <2>6. CASE op = \h2B
    BY <1>1, <1>2, <2>2, <2>6, SMTT(20) DEF DecodeAt
  <2>7. CASE op = \h39
    BY <1>1, <1>2, <2>2, <2>7, SMTT(20) DEF DecodeAt
  <2>8. CASE op = \h89
    BY <1>1, <1>2, <2>2, <2>8, SMTT(20) DEF DecodeAt
  <2>9. CASE op = \h8B
    BY <1>1, <1>2, <2>2, <2>9, SMTT(20) DEF DecodeAt
  <2>10. CASE op = \hF7
    BY <1>1, <1>2, <2>2, <2>10, SMTT(20) DEF DecodeAt
  <2>11. CASE op = \hFF
    BY <1>1, <1>2, <2>2, <2>11, SMTT(20) DEF DecodeAt
  <2>12. CASE op = \h8F
    BY <1>1, <1>2, <2>2, <2>12, SMTT(20) DEF DecodeAt
  <2> QED
    BY <1>5, <2>3, <2>4, <2>5, <2>6, <2>7, <2>8, <2>9, <2>10, <2>11, <2>12, SMT DEF OneByteMore
<1>6. CASE op = \h83
  <2>1. n = o + 2
    BY <1>6, SMTT(30) DEF DecodeAt, Instr
  <2> QED
    BY <1>1, <1>2, <1>3, <1>4, <1>6, <2>1, SMT DEF DecodeAt
<1>7. CASE op \in ModRmAndInt
  <2>1. n = o + 5
    BY <1>7, OpcodeLengths, SMTT(30)
  <2>2. CASE op = \h81
    BY <1>1, <1>2, <1>3, <1>4, <2>1, <2>2, SMTT(20) DEF DecodeAt
  <2>3. CASE op = \hC7
    BY <1>1, <1>2, <1>3, <1>4, <2>1, <2>3, SMTT(20) DEF DecodeAt
  <2> QED
    BY <1>7, <2>2, <2>3, Zenon DEF ModRmAndInt
<1>8. CASE op \in Loads
  <2>1. ~RexW(c) => n = o + 4
    BY <1>8, OpcodeLengths, SMTT(30)
  <2>2. CASE RexW(c)
    BY <1>1, <1>2, <1>8, <2>2, LoadsRead
  <2>3. CASE ~RexW(c)
    <3>1. Signed32(b, o + 1) = Signed32(c, o + 1)
      BY <1>4, <2>1, <2>3
    <3>2. DecodeAt(c, o) = Instr("mov32", Reg((op % 8) + RexB(c)), Imm(Signed32(c, o + 1)), o + 4)
      BY <1>8, <2>3, LoadsRead
    <3>3. DecodeAt(b, o) = Instr("mov32", Reg((op % 8) + RexB(b)), Imm(Signed32(b, o + 1)), o + 4)
      BY <1>1, <1>2, <1>8, <2>3, LoadsRead, ZenonT(40)
    <3> QED
      BY <1>2, <3>1, <3>2, <3>3
  <2> QED
    BY <2>2, <2>3
<1>9. CASE op \in Alone
  <2>1. CASE op \in \h50..\h57
    BY <1>1, <1>2, <2>1, SMTT(20) DEF DecodeAt
  <2>2. CASE op \in \h58..\h5F
    BY <1>1, <1>2, <2>2, SMTT(20) DEF DecodeAt
  <2>3. CASE op = \hC3
    BY <1>1, <2>3, SMTT(20) DEF DecodeAt
  <2>4. CASE op = \h90
    BY <1>1, <2>4, SMTT(20) DEF DecodeAt
  <2> HIDE DEF op
  <2> QED
    BY <1>9, <2>1, <2>2, <2>3, <2>4, SMT DEF Alone
<1>10. CASE op = \h6A
  <2>1. n = o + 1
    BY <1>10, SMTT(30) DEF DecodeAt, Instr
  <2> QED
    BY <1>1, <1>4, <1>10, <2>1, SMT DEF DecodeAt
<1>11. CASE op \in IntMore
  <2>1. n = o + 4
    BY <1>11, OpcodeLengths
  <2>2. Signed32(b, o + 1) = Signed32(c, o + 1)
    BY <1>4, <2>1
  <2>3. CASE op = \h68
    BY <1>1, <2>2, <2>3, SMTT(20) DEF DecodeAt
  <2>4. CASE op = \hE8
    BY <1>1, <2>2, <2>4, SMTT(20) DEF DecodeAt
  <2>5. CASE op = \hE9
    BY <1>1, <2>2, <2>5, SMTT(20) DEF DecodeAt
  <2> QED
    BY <1>11, <2>3, <2>4, <2>5, SMT DEF IntMore
<1>12. CASE op = \h0F
  <2>1. m \in \h80..\h8F /\ n = o + 5
    BY <1>12, SMT DEF DecodeAt, Instr, BadInstr
  <2> QED
    BY <1>1, <1>3, <1>4, <1>12, <2>1, SMT DEF DecodeAt
<1>13. CASE /\ op \notin OneByteMore /\ op # \h83 /\ op \notin ModRmAndInt /\ op \notin Loads
            /\ op \notin Alone /\ op # \h6A /\ op \notin IntMore /\ op # \h0F
  <2>1. DecodeAt(c, o) = BadInstr
    BY <1>13, NoOpcode
  <2> QED
    BY <2>1, SMT DEF BadInstr, Instr
<1> QED
  BY <1>5, <1>6, <1>7, <1>8, <1>9, <1>10, <1>11, <1>12, <1>13

(* One whole instruction.                                                  *)
IsInstr(c) ==
  /\ c \in Seq(Byte) /\ Len(c) > 0
  /\ Decode(c).len = Len(c) /\ Decode(c).op # "bad"

ToDouble   == << << \hF2, \h48, \h0F, \h2A, \hC0 >>, "cvtsi2sd" >>
Root       == << << \hF2, \h0F, \h51, \hC0 >>, "sqrtsd" >>
FromDouble == << << \hF2, \h48, \h0F, \h2C, \hC0 >>, "cvttsd2si" >>

(* Two bytes tell the three apart.                                         *)
IsPart(p) ==
  \/ p = ToDouble /\ p[1][2] = \h48 /\ p[1][4] = \h2A
  \/ p = Root /\ p[1][2] = \h0F
  \/ p = FromDouble /\ p[1][2] = \h48 /\ p[1][4] = \h2C

LEMMA SqrtBytes ==
  ASSUME NEW p \in SqrtParts
  PROVE  /\ p[1] \in Seq(Byte) /\ Len(p[1]) \in {4, 5} /\ p[1][1] = \hF2
         /\ DOMAIN p[1] = 1 .. Len(p[1])
         /\ IsPart(p)
<1>1. CASE p = << << \hF2, \h48, \h0F, \h2A, \hC0 >>, "cvtsi2sd" >>
  <2>1. p[1] = << \hF2, \h48, \h0F, \h2A, \hC0 >>
    BY <1>1, SMT
  <2>2. p[1] \in Seq(Byte) /\ Len(p[1]) = 5 /\ p[1][1] = \hF2 /\ p[1][2] = \h48 /\ p[1][4] = \h2A
    BY <2>1, SMT DEF Byte
  <2> QED
    BY <1>1, <2>2, SMT DEF IsPart, ToDouble
<1>2. CASE p = << << \hF2, \h0F, \h51, \hC0 >>, "sqrtsd" >>
  <2>1. p[1] = << \hF2, \h0F, \h51, \hC0 >>
    BY <1>2, SMT
  <2>2. p[1] \in Seq(Byte) /\ Len(p[1]) = 4 /\ p[1][1] = \hF2 /\ p[1][2] = \h0F
    BY <2>1, SMT DEF Byte
  <2> QED
    BY <1>2, <2>2, SMT DEF IsPart, Root
<1>3. CASE p = << << \hF2, \h48, \h0F, \h2C, \hC0 >>, "cvttsd2si" >>
  <2>1. p[1] = << \hF2, \h48, \h0F, \h2C, \hC0 >>
    BY <1>3, SMT
  <2>2. p[1] \in Seq(Byte) /\ Len(p[1]) = 5 /\ p[1][1] = \hF2 /\ p[1][2] = \h48 /\ p[1][4] = \h2C
    BY <2>1, SMT DEF Byte
  <2> QED
    BY <1>3, <2>2, SMT DEF IsPart, FromDouble
<1> QED
  BY <1>1, <1>2, <1>3, SMT DEF SqrtParts

LEMMA StartsFront ==
  ASSUME NEW b \in Seq(Byte), NEW c \in Seq(Byte), NEW p \in Seq(Byte), Len(p) <= Len(c), Len(c) <= Len(b),
         \A k \in 1 .. Len(c) : b[k] = c[k]
  PROVE  StartsWith(b, p) <=> StartsWith(c, p)
<1>1. DOMAIN p = 1 .. Len(p) /\ Len(p) \in Nat /\ Len(c) \in Nat /\ Len(b) \in Nat
  BY SMT
<1>2. \A k \in DOMAIN p : k \in 1 .. Len(c)
  BY <1>1, SMT
<1>3. \A k \in DOMAIN p : b[k] = c[k]
  BY <1>2
<1>4. Len(p) <= Len(b)
  BY <1>1, SMT
<1> QED
  BY <1>3, <1>4, Zenon DEF StartsWith

LEMMA PartsApart ==
  ASSUME NEW b, NEW p \in SqrtParts, NEW q \in SqrtParts, StartsWith(b, p[1]), StartsWith(b, q[1])
  PROVE  p = q
<1>1. \A k \in {2, 4} : p[1][k] = q[1][k]
  <2>1. \A k \in {2, 4} : k \in DOMAIN p[1] /\ k \in DOMAIN q[1]
    BY SqrtBytes, SMT
  <2> QED
    BY <2>1, Zenon DEF StartsWith
<1>2. p[1][2] = q[1][2] /\ p[1][4] = q[1][4]
  BY <1>1, SMT
<1>3. \h48 # \h0F /\ \h2A # \h2C
  BY SMT
<1>4. IsPart(p) /\ IsPart(q)
  BY SqrtBytes, Zenon
<1> QED
  BY <1>2, <1>3, <1>4, SMT DEF IsPart

LEMMA DecodePart ==
  ASSUME NEW b, NEW p \in SqrtParts, StartsWith(b, p[1])
  PROVE  Decode(b) = Instr(p[2], NoOperand, NoOperand, Len(p[1]))
<1>1. PICK part : part = CHOOSE q \in SqrtParts : StartsWith(b, q[1])
  BY Zenon
<1>2. part \in SqrtParts /\ StartsWith(b, part[1])
  BY <1>1, Zenon
<1>3. part = p
  BY <1>2, PartsApart, Zenon
<1> QED
  BY <1>1, <1>3, Zenon DEF Decode

LEMMA DecodeFront ==
  ASSUME NEW c, IsInstr(c), NEW t \in Seq(Byte)
  PROVE  Decode(c \o t) = Decode(c)
<1> DEFINE b == c \o t
           n == Len(c)
           o == IF HasRex(c) THEN 2 ELSE 1
<1>1. /\ c \in Seq(Byte) /\ n \in Nat /\ n > 0 /\ Decode(c).len = n /\ Decode(c).op # "bad"
  BY SMT DEF IsInstr
<1>2. b \in Seq(Byte) /\ Len(b) >= n
  BY <1>1, SMT
<1>3. \A k \in 1 .. n : b[k] = c[k]
  BY <1>1, SMT
<1>4. \A k \in 1 .. n : At(b, k) = At(c, k)
  <2>1. DOMAIN b = 1 .. Len(b) /\ DOMAIN c = 1 .. n
    BY <1>1, <1>2
  <2> HIDE DEF b
  <2>2. \A k \in 1 .. n : k \in DOMAIN b
    BY <1>1, <1>2, <2>1, SMT
  <2> QED
    BY <1>3, <2>1, <2>2, Zenon DEF At
<1> HIDE DEF b
<1>5. 1 \in 1 .. n
  BY <1>1, SMT
<1>6. SameFront(b, c, n)
  <2>1. At(b, 1) = At(c, 1) /\ b[1] = c[1]
    BY <1>3, <1>4, <1>5, Zenon
  <2>2. HasRex(b) = HasRex(c)
    BY <2>1, Zenon DEF HasRex
  <2> HIDE DEF n
  <2>3. RexB(b) = RexB(c) /\ RexR(b) = RexR(c) /\ RexW(b) = RexW(c)
    BY <2>1, <2>2, Zenon DEF RexB, RexR, RexW
  <2> QED
    BY <1>4, <2>2, <2>3, Zenon DEF SameFront
<1>7. CASE \E p \in SqrtParts : StartsWith(c, p[1])
  <2>1. PICK p \in SqrtParts : StartsWith(c, p[1])
    BY <1>7
  <2>2. p[1] \in Seq(Byte) /\ Len(p[1]) <= n
    BY <2>1, SqrtBytes, Zenon DEF StartsWith
  <2>3. StartsWith(b, p[1])
    BY <1>1, <1>2, <1>3, <2>1, <2>2, StartsFront
  <2> QED
    BY <2>1, <2>3, DecodePart, Zenon DEF b
<1>8. CASE ~ \E p \in SqrtParts : StartsWith(c, p[1])
  <2>1. Decode(c) = DecodeAt(c, o)
    BY <1>8, Zenon DEF Decode
  <2>2. CASE n < o
    <3>1. At(c, o) = 0
      BY <1>1, <2>2, SMT DEF At
    <3>2. DecodeAt(c, o) = BadInstr
      BY <3>1, NoOpcodeAlone
    <3> QED
      BY <1>1, <2>1, <3>2, SMT DEF BadInstr, Instr
  <2>3. CASE o <= n
    <3>1. c[1] # \hF2
      <4>1. SUFFICES ASSUME c[1] = \hF2 PROVE FALSE
        OBVIOUS
      <4>2. At(c, 1) = \hF2
        BY <1>1, <4>1, SMT DEF At
      <4>3. ~HasRex(c)
        BY <4>2, SMT DEF HasRex
      <4>4. DecodeAt(c, 1) = BadInstr
        BY <4>2, NoOpcodeAlone
      <4> QED
        BY <1>1, <2>1, <4>3, <4>4, SMT DEF BadInstr, Instr
    <3>2. b[1] # \hF2 /\ Len(b) > 0
      BY <1>1, <1>2, <1>3, <1>5, <3>1, SMT
    <3>3. Decode(b) = DecodeAt(b, o)
      <4>1. Decode(b) = DecodeAt(b, IF HasRex(b) THEN 2 ELSE 1)
        BY <1>2, <3>2, NoSqrt
      <4>2. HasRex(b) = HasRex(c)
        BY <1>6, Zenon DEF SameFront
      <4> QED
        BY <4>1, <4>2
    <3>4. o \in {1, 2}
      BY SMT
    <3> HIDE DEF o, n
    <3> QED
      BY <1>1, <1>6, <2>1, <2>3, <3>3, <3>4, DecodeAtFront DEF b
  <2> QED
    BY <1>1, <2>2, <2>3, SMT
<1> QED
  BY <1>7, <1>8 DEF b

LEMMA ReadsInstr ==
  ASSUME NEW c, IsInstr(c)
  PROVE  ReadsAs(c, << Decode(c) >>)
<1>1. c \in Seq(Byte) /\ Len(c) > 0 /\ Decode(c).len = Len(c)
  BY DEF IsInstr
<1>2. << Decode(c) >> \in Seq(Instrs)
  <2>1. Decode(c) \in Instrs
    BY <1>1, Zenon DEF Instrs
  <2> QED
    BY <2>1, SMT
<1>3. ASSUME NEW t \in Seq(Byte) PROVE Disassemble(c \o t) = << Decode(c) >> \o Disassemble(t)
  <2>1. Decode(c \o t) = Decode(c)
    BY DecodeFront
  <2>2. Decode(c \o t).len = Len(c)
    BY <1>1, <2>1
  <2> QED
    BY <1>1, <2>1, <2>2, DisassembleFirst, Zenon
<1> QED
  BY <1>1, <1>2, <1>3, Zenon DEF ReadsAs

(* Code that is a whole number of instructions.                            *)
Whole(c) ==
  \E instrs : ReadsAs(c, instrs) /\ \A k \in DOMAIN instrs : instrs[k].op # "bad"

LEMMA WholeNothing == Whole(<< >>)
<1>1. \A k \in DOMAIN << >> : << >>[k].op # "bad"
  BY SMT
<1> QED
  BY <1>1, ReadsNothing, Zenon DEF Whole

LEMMA WholeInstr ==
  ASSUME NEW c, IsInstr(c)
  PROVE  Whole(c)
<1>1. ReadsAs(c, << Decode(c) >>)
  BY ReadsInstr
<1>2. \A k \in DOMAIN << Decode(c) >> : << Decode(c) >>[k].op # "bad"
  BY SMT DEF IsInstr
<1> QED
  BY <1>1, <1>2, Zenon DEF Whole

LEMMA WholeBoth ==
  ASSUME NEW a, NEW c, Whole(a), Whole(c)
  PROVE  Whole(a \o c)
<1>1. PICK i : ReadsAs(a, i) /\ \A k \in DOMAIN i : i[k].op # "bad"
  BY DEF Whole
<1>2. PICK j : ReadsAs(c, j) /\ \A k \in DOMAIN j : j[k].op # "bad"
  BY DEF Whole
<1>3. i \in Seq(Instrs) /\ j \in Seq(Instrs)
  BY <1>1, <1>2 DEF ReadsAs
<1>4. ReadsAs(a \o c, i \o j)
  BY <1>1, <1>2, ReadsBoth
<1>5. \A k \in DOMAIN (i \o j) : (i \o j)[k].op # "bad"
  BY <1>1, <1>2, <1>3, SMT
<1> QED
  BY <1>4, <1>5, Zenon DEF Whole

(* Instructions none of which is a call.                                   *)
Other(c) == IsInstr(c) /\ Decode(c).op # "call"

CallFree(c) ==
  \E instrs : ReadsAs(c, instrs) /\ \A k \in DOMAIN instrs : instrs[k].op \notin {"bad", "call"}

LEMMA CallFreeWhole ==
  ASSUME NEW c, CallFree(c)
  PROVE  Whole(c)
BY Zenon DEF CallFree, Whole

LEMMA CallFreeNothing == CallFree(<< >>)
<1>1. \A k \in DOMAIN << >> : << >>[k].op \notin {"bad", "call"}
  BY SMT
<1> QED
  BY <1>1, ReadsNothing, Zenon DEF CallFree

LEMMA CallFreeInstr ==
  ASSUME NEW c, Other(c)
  PROVE  CallFree(c)
<1>1. IsInstr(c) /\ Decode(c).op # "call"
  BY DEF Other
<1>2. ReadsAs(c, << Decode(c) >>)
  BY <1>1, ReadsInstr
<1>3. \A k \in DOMAIN << Decode(c) >> : << Decode(c) >>[k].op \notin {"bad", "call"}
  BY <1>1, SMT DEF IsInstr
<1> QED
  BY <1>2, <1>3, Zenon DEF CallFree

LEMMA CallFreeBoth ==
  ASSUME NEW a, NEW c, CallFree(a), CallFree(c)
  PROVE  CallFree(a \o c)
<1>1. PICK i : ReadsAs(a, i) /\ \A k \in DOMAIN i : i[k].op \notin {"bad", "call"}
  BY DEF CallFree
<1>2. PICK j : ReadsAs(c, j) /\ \A k \in DOMAIN j : j[k].op \notin {"bad", "call"}
  BY DEF CallFree
<1>3. i \in Seq(Instrs) /\ j \in Seq(Instrs)
  BY <1>1, <1>2 DEF ReadsAs
<1>4. ReadsAs(a \o c, i \o j)
  BY <1>1, <1>2, ReadsBoth
<1>5. \A k \in DOMAIN (i \o j) : (i \o j)[k].op \notin {"bad", "call"}
  BY <1>1, <1>2, <1>3, SMT
<1> QED
  BY <1>4, <1>5, Zenon DEF CallFree

-----------------------------------------------------------------------------
(* The requests of a window.                                               *)

LEMMA FromReads ==
  ASSUME NEW b \in Seq(Byte), NEW op, op # "bad", NEW dst, NEW src, Reads(b, op, dst, src)
  PROVE  IsInstr(b) /\ Decode(b).op = op
<1>1. Decode(b).len = Len(b) /\ Decode(b).op = op
  BY SMT DEF Reads, Instr
<1>2. Len(b) > 0
  BY <1>1, DecodeLength, SMT
<1> QED
  BY <1>1, <1>2 DEF IsInstr

LEMMA NamedOps ==
  ASSUME NEW info \in Infos(Ints)
  PROVE  Intended(info)[1] \in {"mov", "add", "sub", "mul", "div", "push", "pop", "call", "ret"}
<1>1. Names[MOV] = "mov" /\ Names[ADD] = "add" /\ Names[SUB] = "sub" /\ Names[MUL] = "mul" /\ Names[DIV] = "div"
  BY SMT DEF Names, MOV, ADD, SUB, MUL, DIV
<1>2. info.cmd_encode \in {MOV, ADD, SUB, MUL, DIV, PUSH, POP, CALL, RET}
  BY Fields
<1>3. CASE info.cmd_encode \in {MOV, ADD, SUB}
  BY <1>1, <1>3, IntendedTwo, SMT
<1>4. CASE info.cmd_encode \in {MUL, DIV}
  <2>1. info.cmd_encode \notin {MOV, ADD, SUB} /\ info.cmd_encode \notin {PUSH, POP, CALL, RET}
    BY <1>4, Distinct, Zenon
  <2>2. PICK rm : Intended(info) = << Names[info.cmd_encode], rm, NoOperand >>
    BY <1>4, <2>1, Zenon DEF Intended
  <2> QED
    BY <1>1, <1>4, <2>2, SMT
<1>5. CASE info.cmd_encode = PUSH
  <2>1. info.cmd_encode \notin {MOV, ADD, SUB} /\ info.cmd_encode \notin {MUL, DIV}
    BY <1>5, Distinct, Zenon
  <2>2. PICK rm : Intended(info) = << "push", NoOperand, rm >>
    BY <1>5, <2>1, Distinct, Zenon DEF Intended
  <2> QED
    BY <2>2, SMT
<1>6. CASE info.cmd_encode = POP
  <2>1. info.cmd_encode \notin {MOV, ADD, SUB} /\ info.cmd_encode \notin {MUL, DIV}
    BY <1>6, Distinct, Zenon
  <2>2. PICK rm : Intended(info) = << "pop", rm, NoOperand >>
    BY <1>6, <2>1, Distinct, Zenon DEF Intended
  <2> QED
    BY <2>2, SMT
<1>7. CASE info.cmd_encode = CALL
  <2>1. info.cmd_encode \notin {MOV, ADD, SUB} /\ info.cmd_encode \notin {MUL, DIV}
    BY <1>7, Distinct, Zenon
  <2>2. PICK v : Intended(info) = << "call", NoOperand, v >>
    BY <1>7, <2>1, Distinct, Zenon DEF Intended
  <2> QED
    BY <2>2, SMT
<1>8. CASE info.cmd_encode = RET
  <2>1. info.cmd_encode \notin {MOV, ADD, SUB} /\ info.cmd_encode \notin {MUL, DIV}
    BY <1>8, Distinct, Zenon
  <2>2. Intended(info) = << "ret", NoOperand, NoOperand >>
    BY <1>8, <2>1, Distinct, Zenon DEF Intended
  <2> QED
    BY <2>2, SMT
<1> QED
  BY <1>2, <1>3, <1>4, <1>5, <1>6, <1>7, <1>8, Zenon

LEMMA MoreValues ==
  ASSUME NEW S, NEW T, S \subseteq T, NEW info \in Infos(S)
  PROVE  info \in Infos(T)
BY SMT DEF Infos

LEMMA IntsAreIntegers == Infos(Ints) \subseteq Infos(Int)
<1>1. Ints \subseteq Int
  BY ValueRange
<1> QED
  BY <1>1, MoreValues

(* A request encoded as asked is one instruction.                          *)
LEMMA RightWhole ==
  ASSUME NEW info \in Infos(Ints), Right(info)
  PROVE  Whole(encode_cmd(info))
<1>1. encode_cmd(info) \in Seq(Byte)
  BY IntsAreIntegers, CmdsFit, BytesAreSeq, Zenon
<1>2. PICK op : /\ SameOp(op, Intended(info)[1], Intended(info)[3])
                /\ Reads(encode_cmd(info), op, Intended(info)[2], Intended(info)[3])
  BY DEF Right
<1>3. op # "bad"
  BY <1>2, NamedOps, SMT DEF SameOp
<1> QED
  BY <1>1, <1>2, <1>3, FromReads, WholeInstr, Zenon

LEMMA WholeThen ==
  ASSUME NEW cmd, NEW rest, Whole(cmd), Whole(rest)
  PROVE  Whole(Then(cmd, rest))
BY WholeNothing, WholeBoth, Zenon DEF Then

(* What a request asks for, field by field.                                *)
Asks(info, cmd, dest, src, v, atDest, atSrc) ==
  /\ info \in Infos(Ints)
  /\ info.cmd_encode = cmd /\ info.dest_reg = dest /\ info.src_reg = src /\ info.immed_val = v
  /\ info.use_memory4dest = atDest /\ info.use_memory4src = atSrc

(* The registers the translation names.                                    *)
Octals == 0..7

LEMMA OctalRegisters ==
  ASSUME NEW r \in Octals \cup {INVALID_REG}
  PROVE  /\ r \in Registers \cup {INVALID_REG} /\ ~IsHigh(r)
         /\ r \in Octals => r # INVALID_REG
         /\ r \in 0..3 => ~NeedsMore(r)
BY SMT DEF Octals, Registers, RDI, R8, R15, INVALID_REG, IsHigh, NeedsMore, Low

LEMMA ZeroIsInt == 0 \in Ints
<1>1. MAX_INT \in Int /\ MAX_INT > 0
  BY SMT DEF MAX_INT
<1>2. 0 \in -MAX_INT .. MAX_INT
  BY <1>1, SMT
<1> QED
  BY <1>2, Zenon DEF Ints

LEMMA AsksRegs ==
  ASSUME NEW cmd \in {MOV, ADD, SUB, MUL, DIV, PUSH, POP, CALL, RET},
         NEW dest \in Octals \cup {INVALID_REG}, NEW src \in Octals \cup {INVALID_REG},
         cmd \in {MUL, DIV} => dest # INVALID_REG,
         cmd \in {PUSH, POP} => INVALID_REG \in {dest, src}
  PROVE  Asks(RegInfo(cmd, dest, src), cmd, dest, src, 0, FALSE, FALSE)
<1>1. dest \in Registers \cup {INVALID_REG} /\ src \in Registers \cup {INVALID_REG}
  BY OctalRegisters
<1>2. cmd \in TwoOperandCmds \cup {PUSH, POP, CALL, RET}
  BY SMT DEF TwoOperandCmds
<1>3. RegInfo(cmd, dest, src) \in Infos(Ints)
  BY <1>1, <1>2, ZeroIsInt, SMT DEF Infos, RegInfo
<1>4. /\ RegInfo(cmd, dest, src).cmd_encode = cmd /\ RegInfo(cmd, dest, src).dest_reg = dest
      /\ RegInfo(cmd, dest, src).src_reg = src /\ RegInfo(cmd, dest, src).immed_val = 0
      /\ RegInfo(cmd, dest, src).use_memory4dest = FALSE /\ RegInfo(cmd, dest, src).use_memory4src = FALSE
  BY SMT DEF RegInfo
<1> QED
  BY <1>3, <1>4, Zenon DEF Asks

LEMMA AsksImmed ==
  ASSUME NEW info, NEW cmd, NEW dest, NEW src, NEW w, NEW atDest, NEW atSrc,
         Asks(info, cmd, dest, src, w, atDest, atSrc), NEW v \in Ints
  PROVE  Asks([info EXCEPT !.immed_val = v], cmd, dest, src, v, atDest, atSrc)
<1>1. info \in Infos(Ints)
  BY DEF Asks
<1> DEFINE other == [info EXCEPT !.immed_val = v]
<1>2. /\ other \in Infos(Ints) /\ other.immed_val = v
      /\ other.cmd_encode = info.cmd_encode /\ other.dest_reg = info.dest_reg /\ other.src_reg = info.src_reg
      /\ other.use_memory4dest = info.use_memory4dest /\ other.use_memory4src = info.use_memory4src
  BY <1>1, SMT DEF Infos
<1> HIDE DEF other
<1> QED
  BY <1>2, Zenon DEF Asks, other

LEMMA AsksFromMemory ==
  ASSUME NEW info, NEW cmd, NEW dest, NEW src, NEW v, NEW atDest, NEW atSrc,
         Asks(info, cmd, dest, src, v, atDest, atSrc), NEW m \in BOOLEAN,
         cmd \in {PUSH, POP} => dest # src
  PROVE  Asks([info EXCEPT !.use_memory4src = m], cmd, dest, src, v, atDest, m)
<1>1. info \in Infos(Ints) /\ (info.cmd_encode \in {PUSH, POP} => info.dest_reg # info.src_reg)
  BY DEF Asks
<1> DEFINE other == [info EXCEPT !.use_memory4src = m]
<1>2. /\ other \in Infos(Ints) /\ other.immed_val = info.immed_val
      /\ other.cmd_encode = info.cmd_encode /\ other.dest_reg = info.dest_reg /\ other.src_reg = info.src_reg
      /\ other.use_memory4dest = info.use_memory4dest /\ other.use_memory4src = m
  BY <1>1, SMT DEF Infos
<1> HIDE DEF other
<1> QED
  BY <1>2, Zenon DEF Asks, other

LEMMA AsksToMemory ==
  ASSUME NEW info, NEW cmd, NEW dest, NEW src, NEW v, NEW atDest, NEW atSrc,
         Asks(info, cmd, dest, src, v, atDest, atSrc), NEW m \in BOOLEAN,
         cmd \in {PUSH, POP} => dest # src
  PROVE  Asks([info EXCEPT !.use_memory4dest = m], cmd, dest, src, v, m, atSrc)
<1>1. info \in Infos(Ints) /\ (info.cmd_encode \in {PUSH, POP} => info.dest_reg # info.src_reg)
  BY DEF Asks
<1> DEFINE other == [info EXCEPT !.use_memory4dest = m]
<1>2. /\ other \in Infos(Ints) /\ other.immed_val = info.immed_val
      /\ other.cmd_encode = info.cmd_encode /\ other.dest_reg = info.dest_reg /\ other.src_reg = info.src_reg
      /\ other.use_memory4dest = m /\ other.use_memory4src = info.use_memory4src
  BY <1>1, SMT DEF Infos
<1> HIDE DEF other
<1> QED
  BY <1>2, Zenon DEF Asks, other

(* A request without a high register.                                      *)
LEMMA SmallRight ==
  ASSUME NEW info \in Infos(Ints), Meaningful(info), ~IsHigh(info.dest_reg), ~IsHigh(info.src_reg),
         info.use_memory4dest => ~NeedsMore(info.dest_reg),
         info.use_memory4src => HasSrc(info) /\ ~NeedsMore(info.src_reg),
         info.cmd_encode = MOV /\ ~HasSrc(info) => ~info.use_memory4dest /\ info.immed_val # -1,
         info.cmd_encode = PUSH => HasSrc(info)
  PROVE  Right(info)
<1>1. CASE info.cmd_encode = MOV /\ ~HasSrc(info)
  <2>1. HasDest(info) /\ ~info.use_memory4src
    BY <1>1, Distinct, Zenon DEF Meaningful
  <2> QED
    BY <1>1, <2>1, MovToRegisterRight, Zenon
<1>2. CASE ~(info.cmd_encode = MOV /\ ~HasSrc(info))
  <2>1. ~OutsideEncoder(info)
    BY <1>2, Distinct, Zenon DEF OutsideEncoder
  <2> QED
    BY <2>1, EncodableIsRight, Zenon DEF Encodable
<1> QED
  BY <1>1, <1>2

(* A request encoded as asked, when no call is asked for.                  *)
LEMMA RightOther ==
  ASSUME NEW info \in Infos(Ints), Right(info), NEW op \in {"push", "pop"}, Intended(info)[1] = op
  PROVE  Other(encode_cmd(info))
<1>1. encode_cmd(info) \in Seq(Byte)
  BY IntsAreIntegers, CmdsFit, BytesAreSeq, Zenon
<1>2. PICK name : /\ SameOp(name, Intended(info)[1], Intended(info)[3])
                  /\ Reads(encode_cmd(info), name, Intended(info)[2], Intended(info)[3])
  BY DEF Right
<1>3. name \in {"push", "pop"}
  BY <1>2, SMT DEF SameOp
<1>4. name # "bad" /\ name # "call"
  BY <1>3, SMT
<1> QED
  BY <1>1, <1>2, <1>4, FromReads, Zenon DEF Other

LEMMA PushPopOther ==
  ASSUME NEW r \in Octals
  PROVE  Other(PushReg(r)) /\ Other(PopReg(r))
<1> DEFINE push == RegInfo(PUSH, INVALID_REG, r)
           pop  == RegInfo(POP, r, INVALID_REG)
<1>1. r # INVALID_REG /\ ~IsHigh(r) /\ ~IsHigh(INVALID_REG)
  BY OctalRegisters, NoRegister
<1>2. Asks(push, PUSH, INVALID_REG, r, 0, FALSE, FALSE) /\ Asks(pop, POP, r, INVALID_REG, 0, FALSE, FALSE)
  BY <1>1, Distinct, AsksRegs
<1> HIDE DEF push, pop
<1>3. ~HasDest(push) /\ HasSrc(push) /\ HasDest(pop) /\ ~HasSrc(pop)
  BY <1>1, <1>2, Zenon DEF HasDest, HasSrc, Asks
<1>4. Right(push) /\ Right(pop)
  BY <1>2, <1>3, PushRegisterRight, PopRight, Zenon DEF Asks
<1>5. Intended(push)[1] = "push" /\ Intended(pop)[1] = "pop"
  <2>1. push.cmd_encode = PUSH /\ pop.cmd_encode = POP
    BY <1>2, Zenon DEF Asks
  <2>2. PICK s : Intended(push) = << "push", NoOperand, s >>
    BY <2>1, Distinct, Zenon DEF Intended
  <2>3. PICK d : Intended(pop) = << "pop", d, NoOperand >>
    BY <2>1, Distinct, Zenon DEF Intended
  <2> QED
    BY <2>2, <2>3
<1>6. Other(encode_cmd(push)) /\ Other(encode_cmd(pop))
  BY <1>2, <1>4, <1>5, RightOther, Zenon DEF Asks
<1> QED
  BY <1>6, Zenon DEF PushReg, PopReg, push, pop

LEMMA PushPopCallFree ==
  ASSUME NEW r \in Octals
  PROVE  CallFree(PushReg(r)) /\ CallFree(PopReg(r))
BY PushPopOther, CallFreeInstr

LEMMA PushPopWhole ==
  ASSUME NEW r \in Octals
  PROVE  Whole(PushReg(r)) /\ Whole(PopReg(r))
BY PushPopCallFree, CallFreeWhole

LEMMA TwoOperandsWhole ==
  ASSUME NEW cmd \in {MOV, ADD, SUB}, NEW dest \in Octals, NEW src \in Octals \cup {INVALID_REG},
         NEW v \in Ints, NEW m \in BOOLEAN, m => src \in 0..3, cmd = MOV /\ src = INVALID_REG => v # -1,
         NEW info, Asks(info, cmd, dest, src, v, FALSE, m)
  PROVE  Whole(encode_cmd(info))
<1>1. /\ info \in Infos(Ints) /\ info.cmd_encode = cmd /\ info.dest_reg = dest /\ info.src_reg = src
      /\ info.immed_val = v /\ info.use_memory4dest = FALSE /\ info.use_memory4src = m
  BY DEF Asks
<1>2. dest # INVALID_REG /\ ~IsHigh(dest) /\ ~IsHigh(src)
  BY OctalRegisters
<1>3. src \in 0..3 => src # INVALID_REG /\ ~NeedsMore(src)
  BY OctalRegisters, SMT DEF INVALID_REG
<1>4. HasDest(info) /\ (HasSrc(info) <=> src # INVALID_REG)
  BY <1>1, <1>2, Zenon DEF HasDest, HasSrc
<1>5. Meaningful(info)
  BY <1>1, <1>3, <1>4, Distinct, Zenon DEF Meaningful
<1>6. info.cmd_encode # PUSH
  BY <1>1, Distinct, Zenon
<1>7. Right(info)
  BY <1>1, <1>2, <1>3, <1>4, <1>5, <1>6, SmallRight, Zenon
<1> QED
  BY <1>1, <1>7, RightWhole, Zenon

LEMMA UnaryWhole ==
  ASSUME NEW cmd \in {MUL, DIV}, NEW dest \in Octals, NEW v \in Ints,
         NEW info, Asks(info, cmd, dest, INVALID_REG, v, FALSE, FALSE)
  PROVE  Whole(encode_cmd(info))
<1>1. /\ info \in Infos(Ints) /\ info.cmd_encode = cmd /\ info.dest_reg = dest /\ info.src_reg = INVALID_REG
      /\ info.immed_val = v /\ info.use_memory4dest = FALSE /\ info.use_memory4src = FALSE
  BY DEF Asks
<1>2. ~IsHigh(dest) /\ ~IsHigh(INVALID_REG)
  BY OctalRegisters, NoRegister
<1>3. ~HasSrc(info)
  BY <1>1, Zenon DEF HasSrc
<1>4. /\ info.cmd_encode \in {MUL, DIV} /\ info.cmd_encode \notin {MOV, ADD, SUB}
      /\ info.cmd_encode \notin {PUSH, POP, CALL, RET} /\ info.cmd_encode # MOV
  BY <1>1, Distinct, Zenon
<1>5. Meaningful(info)
  BY <1>1, <1>3, <1>4, Zenon DEF Meaningful
<1>6. Right(info)
  BY <1>1, <1>2, <1>4, <1>5, SmallRight, Zenon
<1> QED
  BY <1>1, <1>6, RightWhole, Zenon

(* mul and div of a register that is not the destination are refused.      *)
LEMMA UnaryRefused ==
  ASSUME NEW cmd \in {MUL, DIV}, NEW dest \in Octals, NEW src \in Octals, NEW v \in Ints,
         NEW info, Asks(info, cmd, dest, src, v, FALSE, FALSE)
  PROVE  encode_cmd(info) = << >>
<1>1. /\ info \in Infos(Ints) /\ info.cmd_encode = cmd /\ info.src_reg = src
      /\ info.use_memory4src = FALSE
  BY DEF Asks
<1>2. src # INVALID_REG /\ ~IsHigh(src)
  BY OctalRegisters
<1>3. RegOperand(info) = src
  BY <1>1, <1>2, Zenon DEF RegOperand, Exchanged, Low
<1>4. encode_cmd(info) = encode_add_sub_mul_div(info)
  BY <1>1, Dispatch, Zenon
<1>5. encode_add_sub_mul_div(info) = << >>
  BY <1>1, <1>2, <1>3, Zenon DEF encode_add_sub_mul_div
<1> QED
  BY <1>4, <1>5

LEMMA MathWhole ==
  ASSUME NEW cmd \in {ADD, SUB, MUL, DIV}, NEW dest \in Octals, NEW src \in Octals \cup {INVALID_REG},
         NEW v \in Ints, NEW info, Asks(info, cmd, dest, src, v, FALSE, FALSE)
  PROVE  Whole(encode_cmd(info))
<1>1. CASE cmd \in {ADD, SUB}
  <2>1. cmd # MOV
    BY <1>1, Distinct, Zenon
  <2> QED
    BY <1>1, <2>1, TwoOperandsWhole
<1>2. CASE cmd \in {MUL, DIV} /\ src = INVALID_REG
  BY <1>2, UnaryWhole
<1>3. CASE cmd \in {MUL, DIV} /\ src \in Octals
  <2>1. encode_cmd(info) = << >>
    BY <1>3, UnaryRefused
  <2> QED
    BY <2>1, WholeNothing
<1> QED
  BY <1>1, <1>2, <1>3

LEMMA OctalNames ==
  /\ RAX \in Octals /\ RCX \in Octals /\ RDX \in Octals /\ RBX \in Octals /\ RDI \in Octals
  /\ RCX \in 0..3 /\ RBX \in 0..3
BY SMT DEF Octals, RAX, RCX, RDX, RBX, RDI

-----------------------------------------------------------------------------
(* The tokens of a window.                                                 *)

Known(token) ==
  /\ token.reg \in 0..3 \cup {INVALID_REG}
  /\ token.immed \in Ints /\ token.immed * 8 \in Ints /\ token.offset \in Ints
  /\ token.mode \in {MODE_8_BYTE_IN_ADDRESS, MODE_REG_ADDRESS} => token.reg \in 0..3
  /\ token.my_cmd = CMD_MY_PUSH /\ ~token.use_immed => token.reg \in 0..3
  /\ token.use_r8plus_regs \in BOOLEAN /\ token.use_immed \in BOOLEAN

LEMMA KnownReg ==
  ASSUME NEW token, Known(token)
  PROVE  token.reg \in Octals \cup {INVALID_REG}
BY SMT DEF Known, Octals

LEMMA MathOfStackWhole ==
  ASSUME NEW math, math.my_cmd \in MathCmds
  PROVE  Whole(MathOfStack(math))
<1> DEFINE cmd == get_cmd_from_token(math)
           info == IF cmd \in {MUL, DIV} THEN RegInfo(cmd, RDI, INVALID_REG) ELSE RegInfo(cmd, RAX, RDI)
<1>1. cmd \in {ADD, SUB, MUL, DIV}
  BY MathCmdType
<1>2. MathOfStack(math) = Then(PopReg(RDI), Then(PopReg(RAX), Then(encode_cmd(info), PushReg(RAX))))
  BY DEF MathOfStack, cmd
<1> HIDE DEF cmd
<1>3. cmd \notin {PUSH, POP} /\ cmd \in {MOV, ADD, SUB, MUL, DIV, PUSH, POP, CALL, RET}
  BY <1>1, Distinct, Zenon
<1>4. RDI # INVALID_REG /\ RAX # INVALID_REG
  BY OctalNames, OctalRegisters
<1>5. Asks(RegInfo(cmd, RDI, INVALID_REG), cmd, RDI, INVALID_REG, 0, FALSE, FALSE)
  BY <1>3, <1>4, OctalNames, AsksRegs
<1>6. Asks(RegInfo(cmd, RAX, RDI), cmd, RAX, RDI, 0, FALSE, FALSE)
  BY <1>3, <1>4, OctalNames, AsksRegs
<1>7. Whole(encode_cmd(RegInfo(cmd, RDI, INVALID_REG))) /\ Whole(encode_cmd(RegInfo(cmd, RAX, RDI)))
  BY <1>1, <1>5, <1>6, OctalNames, ZeroIsInt, MathWhole
<1>8. Whole(encode_cmd(info))
  BY <1>7
<1> HIDE DEF info
<1> QED
  BY <1>2, <1>8, OctalNames, PushPopWhole, WholeThen

(* A math command on rax with the operand of a token.                      *)
LEMMA MathOnRaxWhole ==
  ASSUME NEW cmd \in {ADD, SUB, MUL, DIV}, NEW reg \in Octals \cup {INVALID_REG}, NEW v \in Ints
  PROVE  Whole(encode_cmd([RegInfo(cmd, RAX, reg) EXCEPT !.immed_val = v]))
<1>1. cmd \notin {PUSH, POP} /\ cmd \in {MOV, ADD, SUB, MUL, DIV, PUSH, POP, CALL, RET}
  BY Distinct, Zenon
<1>2. RAX # INVALID_REG
  BY OctalNames, OctalRegisters
<1>3. Asks(RegInfo(cmd, RAX, reg), cmd, RAX, reg, 0, FALSE, FALSE)
  BY <1>1, <1>2, OctalNames, AsksRegs
<1>4. Asks([RegInfo(cmd, RAX, reg) EXCEPT !.immed_val = v], cmd, RAX, reg, v, FALSE, FALSE)
  BY <1>3, AsksImmed
<1> QED
  BY <1>4, OctalNames, MathWhole

LEMMA PushMathWhole ==
  ASSUME NEW push, Known(push), NEW math, math.my_cmd \in MathCmds
  PROVE  Whole(PushMath(push, math))
<1> DEFINE info == [RegInfo(get_cmd_from_token(math), RAX, push.reg) EXCEPT !.immed_val = push.immed]
<1>1. Whole(encode_cmd(info))
  <2>1. push.immed \in Ints
    BY DEF Known
  <2> QED
    BY <2>1, KnownReg, MathCmdType, MathOnRaxWhole
<1>2. PushMath(push, math) = Then(PopReg(RAX), Then(encode_cmd(info), PushReg(RAX)))
  BY DEF PushMath
<1> HIDE DEF info
<1> QED
  BY <1>1, <1>2, OctalNames, PushPopWhole, WholeThen

LEMMA LoadOperandWhole ==
  ASSUME NEW push, Known(push), push.reg = INVALID_REG => push.immed # -1
  PROVE  Whole(LoadOperand(push))
<1> DEFINE plain == [RegInfo(MOV, RAX, push.reg) EXCEPT !.immed_val = push.immed]
           fromMemory == push.mode = MODE_REG_ADDRESS
           info == [plain EXCEPT !.use_memory4src = fromMemory]
<1>1. MOV \notin {PUSH, POP} /\ MOV \notin {MUL, DIV}
  BY Distinct, Zenon
<1>2. Asks(RegInfo(MOV, RAX, push.reg), MOV, RAX, push.reg, 0, FALSE, FALSE)
  BY <1>1, KnownReg, OctalNames, AsksRegs
<1>3. push.immed \in Ints /\ (fromMemory => push.reg \in 0..3)
  BY DEF Known
<1>4. Asks(plain, MOV, RAX, push.reg, push.immed, FALSE, FALSE)
  BY <1>2, <1>3, AsksImmed
<1>5. [RegInfo(MOV, RAX, push.reg) EXCEPT !.immed_val = push.immed, !.use_memory4src = fromMemory] = info
  OBVIOUS
<1>6. fromMemory \in BOOLEAN
  BY Zenon
<1>7. LoadOperand(push) = encode_cmd(info)
  BY <1>5, Zenon DEF LoadOperand
<1> HIDE DEF plain, fromMemory
<1>8. Asks(info, MOV, RAX, push.reg, push.immed, FALSE, fromMemory)
  BY <1>1, <1>4, <1>6, AsksFromMemory
<1> HIDE DEF info
<1>9. Whole(encode_cmd(info))
  BY <1>3, <1>6, <1>8, KnownReg, OctalNames, TwoOperandsWhole
<1> QED
  BY <1>7, <1>9

LEMMA PushAnyMathWhole ==
  ASSUME NEW push, Known(push), push.reg = INVALID_REG => push.immed # -1,
         NEW any, Known(any), NEW math, math.my_cmd \in MathCmds
  PROVE  Whole(PushAnyMath(push, any, math))
<1> DEFINE value == IF push.reg = RBX THEN any.immed * 8 ELSE any.immed
           info == [RegInfo(get_cmd_from_token(math), RAX, any.reg) EXCEPT !.immed_val = value]
<1>1. value \in Ints
  BY DEF Known
<1>2. PushAnyMath(push, any, math) = Then(LoadOperand(push), Then(encode_cmd(info), PushReg(RAX)))
  BY DEF PushAnyMath
<1> HIDE DEF value
<1>3. Whole(encode_cmd(info))
  BY <1>1, KnownReg, MathCmdType, MathOnRaxWhole
<1> HIDE DEF info
<1> QED
  BY <1>2, <1>3, LoadOperandWhole, OctalNames, PushPopWhole, WholeThen

LEMMA MemoryAccessWhole ==
  ASSUME NEW w, \A k \in 0..4 : Known(w[k])
  PROVE  Whole(find_convert_memory_access(w))
<1> DEFINE indent == MemoryIndent(w)
           load  == RegInfo(PUSH, INVALID_REG, RCX)
           store == RegInfo(POP, RCX, INVALID_REG)
           fromTop == [load EXCEPT !.use_memory4src = TRUE]
           toTop   == [store EXCEPT !.use_memory4dest = TRUE]
           access == IF w[4].my_cmd = CMD_MY_PUSH THEN fromTop ELSE toTop
           base == encode_cmd(RegInfo(MOV, RDI, RBX))
           addition == encode_cmd(ImmedInfo(ADD, RDI, indent))
<1>1. indent \in Ints
  <2>1. w[1].immed * 8 \in Ints /\ w[2].immed * 8 \in Ints
    BY SMT DEF Known
  <2>2. CMD_MY_PUSH # CMD_MY_ADD
    BY SMT DEF CMD_MY_PUSH, CMD_MY_ADD
  <2> QED
    BY <2>1, <2>2, ZeroIsInt, Zenon DEF MemoryIndent
<1>2. /\ RDI \in Octals /\ RBX \in Octals /\ RCX \in Octals /\ RDI # INVALID_REG /\ RCX # INVALID_REG
      /\ RBX \in 0..3 /\ RCX \in 0..3 /\ ~NeedsMore(RCX)
  BY OctalNames, OctalRegisters
<1>3. Whole(base)
  <2>1. MOV \notin {MUL, DIV} /\ MOV \notin {PUSH, POP}
    BY Distinct, Zenon
  <2>2. Asks(RegInfo(MOV, RDI, RBX), MOV, RDI, RBX, 0, FALSE, FALSE)
    BY <1>2, <2>1, AsksRegs
  <2>3. RBX # INVALID_REG
    BY <1>2, OctalRegisters
  <2> QED
    BY <1>2, <2>2, <2>3, ZeroIsInt, TwoOperandsWhole
<1>4. Whole(addition)
  <2>1. ADD \notin {MUL, DIV} /\ ADD \notin {PUSH, POP} /\ ADD # MOV
    BY Distinct, Zenon
  <2>2. Asks(RegInfo(ADD, RDI, INVALID_REG), ADD, RDI, INVALID_REG, 0, FALSE, FALSE)
    BY <1>2, <2>1, AsksRegs
  <2> HIDE DEF indent
  <2>3. Asks(ImmedInfo(ADD, RDI, indent), ADD, RDI, INVALID_REG, indent, FALSE, FALSE)
    BY <1>1, <2>2, AsksImmed DEF ImmedInfo
  <2> QED
    BY <1>1, <1>2, <2>1, <2>3, TwoOperandsWhole
<1>5. Whole(PushReg(RDI)) /\ Whole(PopReg(RCX))
  BY <1>2, PushPopWhole
<1>6. Whole(encode_cmd(fromTop))
  <2>1. Asks(load, PUSH, INVALID_REG, RCX, 0, FALSE, FALSE)
    BY <1>2, Distinct, AsksRegs
  <2>2. Asks(fromTop, PUSH, INVALID_REG, RCX, 0, FALSE, TRUE)
    BY <1>2, <2>1, AsksFromMemory
  <2> HIDE DEF fromTop
  <2>3. ~HasDest(fromTop) /\ HasSrc(fromTop)
    BY <1>2, <2>2, Zenon DEF HasDest, HasSrc, Asks
  <2>4. Right(fromTop)
    BY <1>2, <2>2, <2>3, PushRegisterRight, Zenon DEF Asks
  <2> QED
    BY <2>2, <2>4, RightWhole, Zenon DEF Asks
<1>7. Whole(encode_cmd(toTop))
  <2>1. Asks(store, POP, RCX, INVALID_REG, 0, FALSE, FALSE)
    BY <1>2, Distinct, AsksRegs
  <2>2. Asks(toTop, POP, RCX, INVALID_REG, 0, TRUE, FALSE)
    BY <1>2, <2>1, AsksToMemory
  <2> HIDE DEF toTop
  <2>3. HasDest(toTop) /\ ~HasSrc(toTop)
    BY <1>2, <2>2, Zenon DEF HasDest, HasSrc, Asks
  <2>4. Right(toTop)
    BY <1>2, <2>2, <2>3, PopRight, Zenon DEF Asks
  <2> QED
    BY <2>2, <2>4, RightWhole, Zenon DEF Asks
<1>8. find_convert_memory_access(w) = base \o addition \o PushReg(RDI) \o PopReg(RCX) \o encode_cmd(access)
  BY DEF find_convert_memory_access
<1>9. Whole(encode_cmd(access))
  <2> HIDE DEF fromTop, toTop
  <2> QED
    BY <1>6, <1>7
<1> HIDE DEF base, addition, access
<1>10. Whole(base \o addition \o PushReg(RDI) \o PopReg(RCX))
  BY <1>3, <1>4, <1>5, WholeBoth
<1> QED
  BY <1>8, <1>9, <1>10, WholeBoth

-----------------------------------------------------------------------------
(* The bytes written by hand.                                              *)

LEMMA JmpInstr ==
  ASSUME NEW v \in Ints
  PROVE  Other(<< \hE9 >> \o Le32(v))
<1>1. PICK op : op = \hE9
  BY SMT
<1>2. op \in Opcodes
  BY <1>1, SMT DEF Opcodes, Byte
<1> DEFINE b == << op >> \o Le32(v)
<1>3. Starts(b, 0, op) /\ Len(b) = 5
  BY <1>2, OpcodeAndWord
<1> HIDE DEF b
<1>4. Decode(b) = DecodeAt(b, 1) /\ At(b, 1) = op
  BY <1>2, <1>3, AloneRead
<1>5. DecodeAt(b, 1) = Instr("jmp", NoOperand, Imm(Signed32(b, 2)), 5)
  BY <1>1, <1>4, SMT DEF DecodeAt
<1>6. Other(b)
  BY <1>3, <1>4, <1>5, InstrLen, SMT DEF IsInstr, Other, Starts
<1> QED
  BY <1>1, <1>6, SMT DEF b

LEMMA ConditionalInstr ==
  ASSUME NEW c \in Int, \h82 <= c, c <= \h87, NEW v \in Ints
  PROVE  Other(<< \h0F, c >> \o Le32(v))
<1>1. PICK op : op = \h0F
  BY SMT
<1>2. op \in Opcodes
  BY <1>1, SMT DEF Opcodes, Byte
<1> DEFINE s == << op, c >>
           b == s \o Le32(v)
<1>3. s \in Seq(Byte) /\ Len(s) = 2 /\ s[1] = op /\ s[2] = c
  BY <1>1, SMT DEF Byte
<1> HIDE DEF s
<1>4. WordBehind(s, v, b)
  BY <1>3, ImmedRead, Zenon
<1> HIDE DEF b
<1>5. b \in Seq(Byte) /\ Len(b) = 6 /\ b[1] = op /\ At(b, 2) = c
  BY <1>3, <1>4, SMT DEF WordBehind
<1>6. Starts(b, 0, op)
  BY <1>5, SMT DEF Starts, OpcodePlace
<1>7. Decode(b) = DecodeAt(b, 1) /\ At(b, 1) = op
  BY <1>2, <1>6, AloneRead
<1>8. c \in \h80..\h8F /\ c % 16 \in 2..7
  BY SMT
<1>9. DecodeAt(b, 1) = Instr(ConditionNames[c % 16], NoOperand, Imm(Signed32(b, 3)), 6)
  BY <1>1, <1>5, <1>7, <1>8, SMTT(30) DEF DecodeAt
<1>10. ConditionNames[c % 16] # "bad" /\ ConditionNames[c % 16] # "call"
  BY <1>8, SMT DEF ConditionNames
<1>11. Decode(b).len = 6 /\ Decode(b).op # "bad" /\ Decode(b).op # "call"
  BY <1>7, <1>9, <1>10, InstrLen, SMT
<1>12. Other(b)
  BY <1>5, <1>11, SMT DEF IsInstr, Other
<1> QED
  BY <1>1, <1>12, SMT DEF b, s

LEMMA CmpRead ==
  ASSUME NEW b, RexW(b), At(b, 2) = \h39, NEW rm, RmOf(b, At(b, 3)) = rm,
         NEW reg, Reg(RegField(At(b, 3)) + RexR(b)) = reg
  PROVE  DecodeAt(b, 2) = Instr("cmp", rm, reg, 3)
BY SMTT(20) DEF DecodeAt

(* cmp rcx, rdx.                                                           *)
LEMMA CmpInstr == Other(<< \h48, \h39, \hD1 >>)
<1>1. PICK p : p = \h48
  BY SMT
<1>2. PICK op : op = \h39
  BY SMT
<1>3. PICK m : m = \hD1
  BY SMT
<1>4. p \in WideRexBytes /\ p \in Byte /\ op \in Byte /\ m \in Byte
  BY <1>1, <1>2, <1>3, SMT DEF WideRexBytes, Byte
<1> DEFINE b == << p, op, m >>
<1>5. b \in Seq(Byte) /\ Len(b) = 3 /\ b[1] = p /\ At(b, 2) = op
  BY <1>4, ThreeRead
<1> HIDE DEF b
<1>6. Decode(b) = DecodeAt(b, 2) /\ RexW(b)
  BY <1>4, <1>5, PrefixedRead, SMT
<1>7. \E dst, src : DecodeAt(b, 2) = Instr("cmp", dst, src, 3)
  <2>1. PICK rm : RmOf(b, At(b, 3)) = rm
    BY Zenon
  <2>2. PICK reg : Reg(RegField(At(b, 3)) + RexR(b)) = reg
    BY Zenon
  <2>3. At(b, 2) = \h39
    BY <1>2, <1>5
  <2>4. DecodeAt(b, 2) = Instr("cmp", rm, reg, 3)
    BY <1>6, <2>1, <2>2, <2>3, CmpRead
  <2> QED
    BY <2>4, Zenon
<1>8. Other(b)
  BY <1>5, <1>6, <1>7, InstrLen, SMT DEF IsInstr, Other
<1> QED
  BY <1>1, <1>2, <1>3, <1>8, SMT DEF b

(* add rsp, 8.                                                             *)
LEMMA DropInstr == Other(<< \h48, \h83, \hC4, \h08 >>)
<1>1. PICK p : p = \h48
  BY SMT
<1>2. PICK op : op = \h83
  BY SMT
<1>3. PICK m : m = \hC4
  BY SMT
<1>4. PICK e : e = \h08
  BY SMT
<1>5. p \in WideRexBytes /\ p \in Byte /\ op \in Byte /\ m \in Byte /\ e \in Byte
  BY <1>1, <1>2, <1>3, <1>4, SMT DEF WideRexBytes, Byte
<1> DEFINE b == << p, op, m, e >>
<1>6. Begins(b, p, op, m) /\ Len(b) = 4
  BY <1>5, FourRead
<1> HIDE DEF b
<1>7. b \in Seq(Byte) /\ b[1] = p /\ At(b, 2) = op /\ At(b, 3) = m
  BY <1>6, SMT DEF Begins
<1>8. Decode(b) = DecodeAt(b, 2) /\ RexW(b)
  BY <1>5, <1>6, <1>7, PrefixedRead, SMT
<1>9. RegField(m) = 0
  BY <1>3, SMT DEF RegField
<1>10. DecodeAt(b, 2) = Instr("add", RmOf(b, At(b, 3)), Imm(Signed8(b, 4)), 4)
  BY <1>2, <1>7, <1>8, <1>9, ImmedOpcodesRead, SMT
<1>11. Other(b)
  BY <1>6, <1>7, <1>8, <1>10, InstrLen, SMT DEF IsInstr, Other
<1> QED
  BY <1>1, <1>2, <1>3, <1>4, <1>11, SMT DEF b

LEMMA PartInstr ==
  ASSUME NEW p \in SqrtParts
  PROVE  Other(p[1])
<1>1. PICK c, name : c = p[1] /\ name = p[2]
  BY Zenon
<1>2. c \in Seq(Byte) /\ Len(c) \in {4, 5} /\ IsPart(p)
  BY <1>1, SqrtBytes
<1>3. StartsWith(c, c)
  BY <1>2, SMT DEF StartsWith
<1>4. Decode(c) = Instr(name, NoOperand, NoOperand, Len(c))
  BY <1>1, <1>3, DecodePart
<1>5. name # "bad" /\ name # "call"
  BY <1>1, <1>2, SMT DEF IsPart, ToDouble, Root, FromDouble
<1>6. Decode(c).len = Len(c) /\ Decode(c).op = name
  BY <1>4, SMT DEF Instr
<1>7. Len(c) > 0
  BY <1>2, SMTT(30)
<1>8. Other(c)
  BY <1>2, <1>5, <1>6, <1>7, Zenon DEF IsInstr, Other
<1> QED
  BY <1>1, <1>8

LEMMA SqrtCallFree == CallFree(encode_sqrt)
<1>1. ToDouble \in SqrtParts /\ Root \in SqrtParts /\ FromDouble \in SqrtParts
  BY SMT DEF SqrtParts, ToDouble, Root, FromDouble
<1>2. CallFree(ToDouble[1]) /\ CallFree(Root[1]) /\ CallFree(FromDouble[1])
  BY <1>1, PartInstr, CallFreeInstr
<1>3. CallFree(PopReg(RAX)) /\ CallFree(PushReg(RAX))
  BY OctalNames, PushPopCallFree
<1>4. encode_sqrt = PopReg(RAX) \o ToDouble[1] \o Root[1] \o FromDouble[1] \o PushReg(RAX)
  <2> DEFINE a == << \hF2, \h48, \h0F, \h2A, \hC0 >>
             b == << \hF2, \h0F, \h51, \hC0 >>
             c == << \hF2, \h48, \h0F, \h2C, \hC0 >>
  <2>1. ToDouble[1] = a /\ Root[1] = b /\ FromDouble[1] = c
    BY SMT DEF ToDouble, Root, FromDouble
  <2>2. encode_sqrt = PopReg(RAX) \o a \o b \o c \o PushReg(RAX)
    BY DEF encode_sqrt
  <2> HIDE DEF a, b, c
  <2> QED
    BY <2>1, <2>2
<1> QED
  BY <1>2, <1>3, <1>4, CallFreeBoth

-----------------------------------------------------------------------------
(* One token.                                                              *)

LEMMA PrefixedBytes ==
  ASSUME NEW h \in {0, 8}, NEW bytes \in Seq(Byte)
  PROVE  HighPrefix(h) \o bytes \in Seq(Byte)
<1>1. CASE h = 8
  <2>1. HighPrefix(h) = << \h41 >>
    BY <1>1, SMT DEF HighPrefix
  <2>2. << \h41 >> \in Seq(Byte)
    BY SMT DEF Byte
  <2> QED
    BY <2>1, <2>2
<1>2. CASE h = 0
  <2>1. HighPrefix(h) = << >>
    BY <1>2, SMT DEF HighPrefix
  <2> QED
    BY <2>1
<1> QED
  BY <1>1, <1>2

LEMMA NotBad == "push" \notin {"bad", "call"} /\ "pop" \notin {"bad", "call"}
BY SMT

LEMMA PushPopReadOther ==
  ASSUME NEW b \in Seq(Byte), NEW op \in {"push", "pop"}, NEW dst, NEW src, Reads(b, op, dst, src)
  PROVE  Other(b)
<1>1. op # "bad" /\ op # "call"
  BY NotBad
<1> QED
  BY <1>1, FromReads DEF Other

LEMMA PushPopTokenCallFree ==
  ASSUME NEW token, Known(token), token.use_immed => token.immed >= -127
  PROVE  CallFree(encode_token2push_pop(token))
<1> DEFINE isPush == token.my_cmd = CMD_MY_PUSH
           prefix == R8PlusPrefix(token)
           inMemory == IF isPush THEN << \hFF, \h30 + token.reg >> ELSE << \h8F, token.reg >>
           inRegister == (IF isPush THEN \h50 ELSE \h58) + token.reg
           h == IF token.use_r8plus_regs THEN 8 ELSE 0
           v == token.immed
           d == token.reg
           result == encode_token2push_pop(token)
<1>1. /\ v \in Ints /\ v \in Int
      /\ token.mode \in {MODE_8_BYTE_IN_ADDRESS, MODE_REG_ADDRESS} => d \in 0..3
  BY ValueRange DEF Known
<1>2. MODE_NONE # MODE_REG_ADDRESS /\ MODE_NONE # MODE_8_BYTE_IN_ADDRESS
      /\ MODE_REG_ADDRESS # MODE_8_BYTE_IN_ADDRESS
  BY SMT DEF MODE_NONE, MODE_REG_ADDRESS, MODE_8_BYTE_IN_ADDRESS
<1>3. h \in {0, 8} /\ prefix = HighPrefix(h)
  <2>1. CASE token.use_r8plus_regs
    BY <2>1, SMT DEF R8PlusPrefix, HighPrefix
  <2>2. CASE ~token.use_r8plus_regs
    BY <2>2, SMT DEF R8PlusPrefix, HighPrefix
  <2> QED
    BY <2>1, <2>2
<1>4. CASE token.use_immed
  <2>1. v >= -127
    BY <1>4
  <2>2. result = << IF v <= ASCII_MAX_SYMBOL THEN \h6A ELSE \h68 >> \o NumberBytes(v)
    BY <1>4, Zenon DEF encode_token2push_pop
  <2> HIDE DEF v, result
  <2>3. CASE v <= 127
    <3>1. get_sizeof_number2write(v) = 1 /\ v <= ASCII_MAX_SYMBOL
      BY <1>1, <2>1, <2>3, SMT DEF get_sizeof_number2write, ASCII_MAX_SYMBOL
    <3>2. NumberBytes(v) = << v % 256 >>
      BY <3>1, Zenon DEF NumberBytes
    <3>3. Reads(<< \h6A >> \o << v % 256 >>, "push", NoOperand, Imm(v))
      BY <1>1, <2>1, <2>3, PushByteRead
    <3>4. result = << \h6A >> \o << v % 256 >>
      BY <2>2, <3>1, <3>2
    <3>5. result \in Seq(Byte)
      <4>1. v % 256 \in Byte /\ \h6A \in Byte
        BY <1>1, SMT DEF Byte
      <4> QED
        BY <3>4, <4>1
    <3>6. Other(result)
      BY <3>3, <3>4, <3>5, NotBad, FromReads, ZenonT(40) DEF Other
    <3> QED
      BY <3>6, CallFreeInstr DEF result
  <2>4. CASE v > 127
    <3>1. get_sizeof_number2write(v) # 1 /\ ~(v <= ASCII_MAX_SYMBOL)
      BY <1>1, <2>4, SMT DEF get_sizeof_number2write, ASCII_MAX_SYMBOL
    <3>2. NumberBytes(v) = Le32(v)
      BY <3>1, Zenon DEF NumberBytes
    <3>3. Reads(<< \h68 >> \o Le32(v), "push", NoOperand, Imm(v))
      BY <1>1, PushWordRead
    <3>4. result = << \h68 >> \o Le32(v)
      BY <2>2, <3>1, <3>2
    <3>5. result \in Seq(Byte)
      <4>1. Le32(v) \in Seq(Byte) /\ \h68 \in Byte
        BY <1>1, Le32Read, SMT DEF Word32, Byte
      <4> HIDE DEF v
      <4> QED
        BY <3>4, <4>1
    <3>6. Other(result)
      BY <3>3, <3>4, <3>5, NotBad, FromReads DEF Other
    <3> QED
      BY <3>6, CallFreeInstr DEF result
  <2> QED
    BY <1>1, <2>3, <2>4
<1>5. CASE ~token.use_immed /\ token.mode = MODE_REG_ADDRESS
  <2>1. result = prefix \o inMemory
    BY <1>2, <1>5, Zenon DEF encode_token2push_pop
  <2>2. d \in 0..3 /\ d \in Octal /\ d # 4 /\ d # 5
    BY <1>1, <1>5, SMT DEF Octal
  <2> HIDE DEF d, h, prefix
  <2>3. /\ Reads(HighPrefix(h) \o << \hFF, \h30 + d >>, "push", NoOperand, Mem(d + h))
        /\ Reads(HighPrefix(h) \o << \h8F, d >>, "pop", Mem(d + h), NoOperand)
    BY <1>3, <2>2, MemoryFormRead
  <2>4. /\ HighPrefix(h) \o << \hFF, \h30 + d >> \in Seq(Byte)
        /\ HighPrefix(h) \o << \h8F, d >> \in Seq(Byte)
    <3>1. << \hFF, \h30 + d >> \in Seq(Byte) /\ << \h8F, d >> \in Seq(Byte)
      BY <2>2, SMT DEF Byte
    <3> QED
      BY <1>3, <3>1, PrefixedBytes, ZenonT(40)
  <2>5. /\ CallFree(HighPrefix(h) \o << \hFF, \h30 + d >>)
        /\ CallFree(HighPrefix(h) \o << \h8F, d >>)
    BY <2>3, <2>4, PushPopReadOther, CallFreeInstr, ZenonT(40)
  <2> QED
    BY <1>3, <2>1, <2>5 DEF d
<1>6. CASE ~token.use_immed /\ token.mode = MODE_8_BYTE_IN_ADDRESS
  <2>1. result = prefix \o << inRegister >>
    BY <1>2, <1>6, Zenon DEF encode_token2push_pop
  <2>2. d \in 0..3 /\ d \in Octal
    BY <1>1, <1>6, SMT DEF Octal
  <2> HIDE DEF d, h, prefix
  <2>3. /\ Reads(HighPrefix(h) \o << \h50 + d >>, "push", NoOperand, Reg(d + h))
        /\ Reads(HighPrefix(h) \o << \h58 + d >>, "pop", Reg(d + h), NoOperand)
    BY <1>3, <2>2, RegFormRead
  <2>4. /\ HighPrefix(h) \o << \h50 + d >> \in Seq(Byte)
        /\ HighPrefix(h) \o << \h58 + d >> \in Seq(Byte)
    <3>1. << \h50 + d >> \in Seq(Byte) /\ << \h58 + d >> \in Seq(Byte)
      BY <2>2, SMT DEF Byte
    <3> QED
      BY <1>3, <3>1, PrefixedBytes
  <2>5. CallFree(HighPrefix(h) \o << \h50 + d >>) /\ CallFree(HighPrefix(h) \o << \h58 + d >>)
    BY <2>3, <2>4, PushPopReadOther, CallFreeInstr, ZenonT(40)
  <2> QED
    BY <1>3, <2>1, <2>5 DEF d
<1>7. CASE ~token.use_immed /\ token.mode \notin {MODE_REG_ADDRESS, MODE_8_BYTE_IN_ADDRESS}
  <2>1. result \in { << \h48, \h83, \hC4, \h08 >>, << >> }
    BY <1>7, Zenon DEF encode_token2push_pop
  <2> QED
    BY <2>1, DropInstr, CallFreeInstr, CallFreeNothing
<1> QED
  BY <1>4, <1>5, <1>6, <1>7

LEMMA CompareCallFree == CallFree(encode_cmp)
<1>1. CallFree(PopReg(RCX)) /\ CallFree(PopReg(RDX))
  BY OctalNames, PushPopCallFree
<1>2. CallFree(<< \h48, \h39, \hD1 >>)
  BY CmpInstr, CallFreeInstr
<1>3. encode_cmp = PopReg(RCX) \o PopReg(RDX) \o << \h48, \h39, \hD1 >>
  BY DEF encode_cmp
<1> QED
  BY <1>1, <1>2, <1>3, CallFreeBoth

LEMMA ExternalCallWhole ==
  ASSUME NEW v \in Ints
  PROVE  Whole(encode_cmd(ImmedInfo(CALL, INVALID_REG, v)))
<1> DEFINE info == ImmedInfo(CALL, INVALID_REG, v)
<1>1. CALL \notin {MUL, DIV} /\ CALL \notin {PUSH, POP}
  BY Distinct, Zenon
<1>2. Asks(RegInfo(CALL, INVALID_REG, INVALID_REG), CALL, INVALID_REG, INVALID_REG, 0, FALSE, FALSE)
  BY <1>1, AsksRegs
<1>3. Asks(info, CALL, INVALID_REG, INVALID_REG, v, FALSE, FALSE)
  BY <1>2, AsksImmed DEF ImmedInfo
<1> HIDE DEF info
<1>4. ~HasSrc(info)
  BY <1>3, Zenon DEF HasSrc, Asks
<1>5. Right(info)
  BY <1>3, <1>4, CallRight, Zenon DEF Asks
<1> QED
  BY <1>3, <1>5, RightWhole, Zenon DEF Asks, info

LEMMA ScanWhole ==
  ASSUME NEW space, ScanDecimal - (space + JMP_LENGTH) \in Ints
  PROVE  Whole(encode_scan(space))
BY ExternalCallWhole, PushPopWhole, OctalNames, WholeBoth DEF encode_scan

LEMMA PrintWhole ==
  ASSUME NEW space, PrintDecimal - (space + JMP_LENGTH) \in Ints
  PROVE  Whole(encode_print(space))
BY ExternalCallWhole, PushPopWhole, OctalNames, WholeBoth DEF encode_print

LEMMA JmpCallFree ==
  ASSUME NEW token, Known(token)
  PROVE  CallFree(pre_encode_jmp(token))
<1>1. token.offset \in Ints
  BY Zenon DEF Known
<1> QED
  BY <1>1, JmpInstr, CallFreeInstr DEF pre_encode_jmp

LEMMA CodeOfCondition ==
  ASSUME NEW c \in CondJmpCmds
  PROVE  ConditionCode(c) \in Int /\ \h82 <= ConditionCode(c) /\ ConditionCode(c) <= \h87
BY SMT DEF ConditionCode, CondJmpCmds, CMD_MY_JB, CMD_MY_JBE, CMD_MY_JA, CMD_MY_JAE, CMD_MY_JE, CMD_MY_JNE

LEMMA ConditionalCallFree ==
  ASSUME NEW token, Known(token), token.my_cmd \in CondJmpCmds
  PROVE  CallFree(encode_cmp \o pre_encode_conditional_jmp(token))
<1> DEFINE code1 == ConditionCode(token.my_cmd)
<1>1. token.offset \in Ints
  BY Zenon DEF Known
<1>2. code1 \in Int /\ \h82 <= code1 /\ code1 <= \h87
  BY CodeOfCondition
<1>3. pre_encode_conditional_jmp(token) = << \h0F, code1 >> \o Le32(token.offset)
  BY DEF pre_encode_conditional_jmp
<1> HIDE DEF code1
<1>4. Other(<< \h0F, code1 >> \o Le32(token.offset))
  BY <1>1, <1>2, ConditionalInstr
<1> QED
  BY <1>3, <1>4, CallFreeInstr, CompareCallFree, CallFreeBoth

(* The arm of x86_cmd_ctor that a token takes; ret and call have tokens of *)
(* their own further down the buffer.                                      *)
LEMMA TokenArms ==
  ASSUME NEW token, token.my_cmd \notin {CMD_MY_RET, CMD_MY_CALL}, NEW space
  PROVE  LET c == token.my_cmd
             bytes == x86_cmd_ctor(token, space)
         IN  /\ c = CMD_MY_OUT => bytes = encode_print(space)
             /\ c = CMD_MY_IN => bytes = encode_scan(space)
             /\ c \notin {CMD_MY_OUT, CMD_MY_IN} =>
                  \/ bytes \in { encode_sqrt, pre_encode_jmp(token), encode_token2push_pop(token), << >> }
                  \/ c \in CondJmpCmds /\ bytes = encode_cmp \o pre_encode_conditional_jmp(token)
<1> DEFINE bytes == x86_cmd_ctor(token, space)
           c == token.my_cmd
<1>1. CMD_MY_IN # CMD_MY_OUT
  BY SMT DEF CMD_MY_IN, CMD_MY_OUT
<1>2. CMD_MY_OUT \notin CondJmpCmds /\ CMD_MY_IN \notin CondJmpCmds
  BY SMT DEF CondJmpCmds, CMD_MY_JB, CMD_MY_JBE, CMD_MY_JA, CMD_MY_JAE, CMD_MY_JE, CMD_MY_JNE, CMD_MY_OUT, CMD_MY_IN
<1>3. {CMD_MY_OUT, CMD_MY_IN} \cap {CMD_MY_RET, CMD_MY_SQRT, CMD_MY_CALL, CMD_MY_JMP, CMD_MY_PUSH, CMD_MY_POP} = {}
  BY SMT DEF CMD_MY_OUT, CMD_MY_IN, CMD_MY_RET, CMD_MY_SQRT, CMD_MY_CALL, CMD_MY_JMP, CMD_MY_PUSH, CMD_MY_POP
<1>4. ASSUME c = CMD_MY_OUT PROVE bytes = encode_print(space)
  BY <1>1, <1>2, <1>3, <1>4, Zenon DEF x86_cmd_ctor
<1>5. ASSUME c = CMD_MY_IN PROVE bytes = encode_scan(space)
  BY <1>1, <1>2, <1>3, <1>5, Zenon DEF x86_cmd_ctor
<1>6. ASSUME c \notin {CMD_MY_OUT, CMD_MY_IN}, c \in CondJmpCmds
      PROVE  bytes = encode_cmp \o pre_encode_conditional_jmp(token)
  <2>1. c \notin {CMD_MY_OUT, CMD_MY_IN, CMD_MY_RET, CMD_MY_SQRT, CMD_MY_CALL, CMD_MY_JMP, CMD_MY_PUSH, CMD_MY_POP}
    BY <1>6, SMT DEF CondJmpCmds, CMD_MY_JB, CMD_MY_JBE, CMD_MY_JA, CMD_MY_JAE, CMD_MY_JE, CMD_MY_JNE,
      CMD_MY_OUT, CMD_MY_IN, CMD_MY_RET, CMD_MY_SQRT, CMD_MY_CALL, CMD_MY_JMP, CMD_MY_PUSH, CMD_MY_POP
  <2> QED
    BY <1>6, <2>1, Zenon DEF x86_cmd_ctor
<1>7. ASSUME c \notin {CMD_MY_OUT, CMD_MY_IN}, c \notin CondJmpCmds
      PROVE  bytes \in { encode_sqrt, pre_encode_jmp(token), encode_token2push_pop(token), << >> }
  BY <1>7, Zenon DEF x86_cmd_ctor
<1> QED
  BY <1>4, <1>5, <1>6, <1>7

LEMMA TokenCallFree ==
  ASSUME NEW token, Known(token), token.use_immed => token.immed >= -127,
         token.my_cmd \notin {CMD_MY_RET, CMD_MY_CALL, CMD_MY_OUT, CMD_MY_IN}, NEW space
  PROVE  CallFree(x86_cmd_ctor(token, space))
<1>1. \A b \in { encode_sqrt, pre_encode_jmp(token), encode_token2push_pop(token), << >> } : CallFree(b)
  BY SqrtCallFree, JmpCallFree, PushPopTokenCallFree, CallFreeNothing
<1> QED
  BY <1>1, TokenArms, ConditionalCallFree

LEMMA TokenWhole ==
  ASSUME NEW token, Known(token), token.use_immed => token.immed >= -127,
         token.my_cmd \notin {CMD_MY_RET, CMD_MY_CALL},
         NEW space, PrintDecimal - (space + JMP_LENGTH) \in Ints,
         ScanDecimal - (space + JMP_LENGTH) \in Ints
  PROVE  Whole(x86_cmd_ctor(token, space))
<1>1. CASE token.my_cmd = CMD_MY_OUT
  BY <1>1, TokenArms, PrintWhole
<1>2. CASE token.my_cmd = CMD_MY_IN
  BY <1>2, TokenArms, ScanWhole
<1>3. CASE token.my_cmd \notin {CMD_MY_OUT, CMD_MY_IN}
  BY <1>3, TokenCallFree, CallFreeWhole
<1> QED
  BY <1>1, <1>2, <1>3

-----------------------------------------------------------------------------
(* The windows.                                                            *)

(* A token of a window is one a guest program can hold, and no window has  *)
(* a call or a ret.                                                        *)
Usual(token) == Known(token) /\ token.my_cmd \notin {CMD_MY_RET, CMD_MY_CALL}

LEMMA ArgUsual ==
  ASSUME NEW cmd \in {CMD_MY_PUSH, CMD_MY_POP}, NEW mode, NEW reg \in 0..3, NEW high \in BOOLEAN
  PROVE  Usual(Arg(cmd, mode, reg, high))
<1> DEFINE t == Arg(cmd, mode, reg, high)
<1>1. /\ t.my_cmd = cmd /\ t.reg = reg /\ t.immed = 0 /\ t.offset = 0
      /\ t.use_r8plus_regs = high /\ t.use_immed = FALSE
  BY SMT DEF Arg, ZeroToken, TokenOf
<1> HIDE DEF t
<1>2. Known(t)
  <2>1. 0 * 8 = 0
    BY SMT
  <2> QED
    BY <1>1, <2>1, ZeroIsInt, Zenon DEF Known
<1>3. cmd \notin {CMD_MY_RET, CMD_MY_CALL}
  BY SMT DEF CMD_MY_PUSH, CMD_MY_POP, CMD_MY_RET, CMD_MY_CALL
<1> QED
  BY <1>1, <1>2, <1>3 DEF Usual, t

LEMMA PushImmedUsual ==
  ASSUME NEW v \in Immediates
  PROVE  Usual(PushImmed(v))
<1> DEFINE t == PushImmed(v)
<1>1. /\ t.my_cmd = CMD_MY_PUSH /\ t.reg = INVALID_REG /\ t.immed = v /\ t.offset = 0
      /\ t.use_r8plus_regs = FALSE /\ t.use_immed = TRUE /\ t.mode = MODE_NONE
  BY SMT DEF PushImmed, ZeroToken, TokenOf
<1> HIDE DEF t
<1>2. v \in Ints /\ v * 8 \in Ints
  <2>1. v \in Ints /\ 8 * v \in Ints
    BY ImmediatesAssumption
  <2>2. v * 8 = 8 * v
    BY <2>1, ValueRange, SMT
  <2> QED
    BY <2>1, <2>2
<1>3. MODE_NONE \notin {MODE_8_BYTE_IN_ADDRESS, MODE_REG_ADDRESS}
      /\ CMD_MY_PUSH \notin {CMD_MY_RET, CMD_MY_CALL}
  BY SMT DEF MODE_NONE, MODE_8_BYTE_IN_ADDRESS, MODE_REG_ADDRESS, CMD_MY_PUSH, CMD_MY_RET, CMD_MY_CALL
<1>4. Known(t)
  BY <1>1, <1>2, <1>3, ZeroIsInt DEF Known
<1> QED
  BY <1>1, <1>3, <1>4 DEF Usual, t

(* Any other token: a plain command, a jump, a pop that drops its value.   *)
LEMMA OtherUsual ==
  ASSUME NEW t, t.my_cmd \notin {CMD_MY_RET, CMD_MY_CALL, CMD_MY_PUSH}, t.reg \in {0, INVALID_REG},
         t.immed = 0, t.use_r8plus_regs = FALSE, t.use_immed = FALSE, t.mode = MODE_NONE,
         t.offset \in {0, 4}
  PROVE  Usual(t)
<1>1. MODE_NONE \notin {MODE_8_BYTE_IN_ADDRESS, MODE_REG_ADDRESS}
  BY SMT DEF MODE_NONE, MODE_8_BYTE_IN_ADDRESS, MODE_REG_ADDRESS
<1>2. t.immed \in Ints /\ t.immed * 8 \in Ints /\ t.offset \in Ints
  <2>1. MAX_INT \in Int /\ MAX_INT > 4
    BY SMT DEF MAX_INT
  <2>2. 0 \in -MAX_INT .. MAX_INT /\ 4 \in -MAX_INT .. MAX_INT /\ 0 * 8 = 0
    BY <2>1, SMT
  <2>3. 0 \in Ints /\ 4 \in Ints
    BY <2>2, Zenon DEF Ints
  <2> QED
    BY <2>2, <2>3
<1>3. t.reg \in 0..3 \cup {INVALID_REG}
  BY SMT
<1> QED
  BY <1>1, <1>2, <1>3 DEF Usual, Known

LEMMA PlainUsual ==
  ASSUME NEW cmd, cmd \notin {CMD_MY_RET, CMD_MY_CALL, CMD_MY_PUSH}
  PROVE  Usual(Plain(cmd)) /\ Usual(Jump(cmd))
<1>1. /\ Plain(cmd).my_cmd = cmd /\ Plain(cmd).reg = 0 /\ Plain(cmd).immed = 0 /\ Plain(cmd).offset = 0
      /\ Plain(cmd).use_r8plus_regs = FALSE /\ Plain(cmd).use_immed = FALSE /\ Plain(cmd).mode = MODE_NONE
  BY SMT DEF Plain, ZeroToken, TokenOf
<1>2. /\ Jump(cmd).my_cmd = cmd /\ Jump(cmd).reg = INVALID_REG /\ Jump(cmd).immed = 0 /\ Jump(cmd).offset = 4
      /\ Jump(cmd).use_r8plus_regs = FALSE /\ Jump(cmd).use_immed = FALSE /\ Jump(cmd).mode = MODE_NONE
  BY SMT DEF Jump, ZeroToken, TokenOf
<1> QED
  BY <1>1, <1>2, OtherUsual

LEMMA DropUsual == Usual(DropTop)
<1>1. /\ DropTop.my_cmd = CMD_MY_POP /\ DropTop.reg = INVALID_REG /\ DropTop.immed = 0 /\ DropTop.offset = 0
      /\ DropTop.use_r8plus_regs = FALSE /\ DropTop.use_immed = FALSE /\ DropTop.mode = MODE_NONE
  BY SMT DEF DropTop, ZeroToken, TokenOf
<1>2. CMD_MY_POP \notin {CMD_MY_RET, CMD_MY_CALL, CMD_MY_PUSH}
  BY SMT DEF CMD_MY_PUSH, CMD_MY_POP, CMD_MY_RET, CMD_MY_CALL
<1> QED
  BY <1>1, <1>2, OtherUsual

LEMMA ZeroUsual == Usual(ZeroToken)
<1>1. /\ ZeroToken.my_cmd = 0 /\ ZeroToken.reg = 0 /\ ZeroToken.immed = 0 /\ ZeroToken.offset = 0
      /\ ZeroToken.use_r8plus_regs = FALSE /\ ZeroToken.use_immed = FALSE /\ ZeroToken.mode = MODE_NONE
  BY SMT DEF ZeroToken, TokenOf
<1>2. 0 \notin {CMD_MY_RET, CMD_MY_CALL, CMD_MY_PUSH}
  BY SMT DEF CMD_MY_PUSH, CMD_MY_RET, CMD_MY_CALL
<1> QED
  BY <1>1, <1>2, OtherUsual

LEMMA AlphabetUsual ==
  ASSUME NEW t \in Alphabet
  PROVE  Usual(t)
<1>1. CASE t \in { PushImmed(v) : v \in Immediates }
  BY <1>1, PushImmedUsual
<1>2. CASE t \in RegArgs(CMD_MY_PUSH) \cup RegArgs(CMD_MY_POP)
  <2>1. RAX..RBX = 0..3
    BY SMT DEF RAX, RBX
  <2>2. PlainRegs \subseteq 0..3 /\ HighRegs \subseteq 0..3
    BY <2>1, RegsAssumption
  <2>3. PICK cmd \in {CMD_MY_PUSH, CMD_MY_POP} : t \in RegArgs(cmd)
    BY <1>2, Zenon
  <2>4. \/ \E a \in AddressingModes \X PlainRegs : t = Arg(cmd, a[1], a[2], FALSE)
        \/ \E a \in AddressingModes \X HighRegs : t = Arg(cmd, a[1], a[2], TRUE)
    BY <2>3 DEF RegArgs
  <2> QED
    BY <2>2, <2>4, ArgUsual
<1>3. CASE t = DropTop
  BY <1>3, DropUsual
<1>4. CASE t \in { Plain(cmd) : cmd \in MathCmds \cup {CMD_MY_OUT, CMD_MY_IN, CMD_MY_SQRT, CMD_MY_LABEL} }
  <2>1. \A cmd \in MathCmds \cup {CMD_MY_OUT, CMD_MY_IN, CMD_MY_SQRT, CMD_MY_LABEL} :
          cmd \notin {CMD_MY_RET, CMD_MY_CALL, CMD_MY_PUSH}
    BY SMT DEF MathCmds, CMD_MY_ADD, CMD_MY_SUB, CMD_MY_MUL, CMD_MY_DIV, CMD_MY_OUT, CMD_MY_IN, CMD_MY_SQRT,
      CMD_MY_LABEL, CMD_MY_RET, CMD_MY_CALL, CMD_MY_PUSH
  <2> QED
    BY <1>4, <2>1, PlainUsual
<1>5. CASE t \in { Jump(cmd) : cmd \in {CMD_MY_JMP, CMD_MY_JB, CMD_MY_JNE} }
  <2>1. \A cmd \in {CMD_MY_JMP, CMD_MY_JB, CMD_MY_JNE} : cmd \notin {CMD_MY_RET, CMD_MY_CALL, CMD_MY_PUSH}
    BY SMT DEF CMD_MY_JMP, CMD_MY_JB, CMD_MY_JNE, CMD_MY_RET, CMD_MY_CALL, CMD_MY_PUSH
  <2> QED
    BY <1>5, <2>1, PlainUsual
<1> QED
  BY <1>1, <1>2, <1>3, <1>4, <1>5 DEF Alphabet

LEMMA WindowUsual ==
  ASSUME NEW a, NEW b, NEW c, NEW d, NEW e,
         Usual(a), Usual(b), Usual(c), Usual(d), Usual(e),
         NEW w, w = Ahead(<< a, b, c, d, e >>)
  PROVE  \A k \in 0..4 : Usual(w[k])
<1>1. w[0] = a /\ w[1] = b /\ w[2] = c /\ w[3] = d /\ w[4] = e
  BY SMT DEF Ahead
<1>2. \A k \in 0..4 : k = 0 \/ k = 1 \/ k = 2 \/ k = 3 \/ k = 4
  BY SMT
<1> QED
  BY <1>1, <1>2

LEMMA LooksUsual ==
  ASSUME NEW w \in Looks
  PROVE  \A k \in 0..4 : Usual(w[k])
<1>1. CASE w \in { Ahead(<< t[1], t[2], t[3], ZeroToken, ZeroToken >>) :
                     t \in Alphabet \X Alphabet \X Alphabet }
  <2>1. PICK t \in Alphabet \X Alphabet \X Alphabet :
          w = Ahead(<< t[1], t[2], t[3], ZeroToken, ZeroToken >>)
    BY <1>1
  <2>2. Usual(t[1]) /\ Usual(t[2]) /\ Usual(t[3])
    BY AlphabetUsual
  <2> QED
    BY <2>1, <2>2, ZeroUsual, WindowUsual
<1>2. CASE w \in { Ahead(<< PushRbx, t[1], t[2], PopRcx, t[3] >>) :
                     t \in Alphabet \X Alphabet \X AtRcx }
  <2>1. PICK t \in Alphabet \X Alphabet \X AtRcx :
          w = Ahead(<< PushRbx, t[1], t[2], PopRcx, t[3] >>)
    BY <1>2
  <2>2. Usual(t[1]) /\ Usual(t[2])
    BY AlphabetUsual
  <2>3. Usual(PushRbx) /\ Usual(PopRcx)
    BY OctalNames, ArgUsual DEF PushRbx, PopRcx
  <2>4. t[3] \in AtRcx
    OBVIOUS
  <2>5. Usual(t[3])
    BY <2>4, OctalNames, ArgUsual DEF AtRcx
  <2> QED
    BY <2>1, <2>2, <2>3, <2>5, WindowUsual
<1> QED
  BY <1>1, <1>2 DEF Looks

-----------------------------------------------------------------------------
(* The folds.                                                              *)

LEMMA FoldRead ==
  ASSUME NEW s, NEW bytes
  PROVE  Fold(s, bytes).skip = s /\ Fold(s, bytes).bytes = bytes
BY SMT DEF Fold

(* The arm of convert_tokens2nonstack_logic that was taken.                *)
LEMMA FoldArms ==
  ASSUME NEW w
  PROVE  LET fold == convert_tokens2nonstack_logic(w) IN
         \/ fold = Fold(5, find_convert_memory_access(w))
         \/ w[0].my_cmd \in MathCmds /\ fold = Fold(1, MathOfStack(w[0]))
         \/ w[1].my_cmd \in MathCmds /\ fold = Fold(2, PushMath(w[0], w[1]))
         \/ /\ w[0].my_cmd = CMD_MY_PUSH /\ w[2].my_cmd \in MathCmds
            /\ fold = Fold(3, PushAnyMath(w[0], w[1], w[2]))
         \/ fold = Fold(0, << >>)
<1> DEFINE A == IsMemoryAccess(w)
           B == w[0].my_cmd \in MathCmds
           P == w[0].my_cmd = CMD_MY_PUSH
           I == w[0].use_immed /\ w[1].use_immed
           C == w[1].my_cmd \in MathCmds
           D == w[2].my_cmd \in MathCmds
           f == convert_tokens2nonstack_logic(w)
<1>1. ~(P /\ B)
  BY SMT DEF MathCmds, CMD_MY_PUSH, CMD_MY_ADD, CMD_MY_SUB, CMD_MY_MUL, CMD_MY_DIV
<1>2. f = CASE A -> Fold(5, find_convert_memory_access(w))
            [] ~A /\ B -> Fold(1, MathOfStack(w[0]))
            [] ~A /\ P /\ ~I /\ C -> Fold(2, PushMath(w[0], w[1]))
            [] ~A /\ P /\ ~I /\ ~C /\ D -> Fold(3, PushAnyMath(w[0], w[1], w[2]))
            [] OTHER -> Fold(0, << >>)
  BY DEF convert_tokens2nonstack_logic
<1>3. CASE A
  BY <1>2, <1>3, Zenon
<1>4. CASE ~A /\ B
  BY <1>1, <1>2, <1>4, Zenon
<1>5. CASE ~A /\ ~B /\ P /\ ~I /\ C
  BY <1>2, <1>5, Zenon
<1>6. CASE ~A /\ ~B /\ P /\ ~I /\ ~C /\ D
  BY <1>2, <1>6, Zenon
<1>7. CASE ~A /\ ~B /\ ~(P /\ ~I /\ (C \/ D))
  BY <1>2, <1>7, Zenon
<1> QED
  BY <1>3, <1>4, <1>5, <1>6, <1>7

LEMMA FoldWhole ==
  ASSUME NEW w, \A k \in 0..4 : Known(w[k]), NEW fold, fold = convert_tokens2nonstack_logic(w),
         fold.skip = 3 /\ w[0].use_immed => w[0].immed # -1
  PROVE  Whole(fold.bytes)
<1>1. Known(w[0]) /\ Known(w[1]) /\ Known(w[2])
  <2>1. 0 \in 0..4 /\ 1 \in 0..4 /\ 2 \in 0..4
    BY SMT
  <2> QED
    BY <2>1
<1>2. CASE fold = Fold(5, find_convert_memory_access(w))
  BY <1>2, FoldRead, MemoryAccessWhole
<1>3. CASE w[0].my_cmd \in MathCmds /\ fold = Fold(1, MathOfStack(w[0]))
  BY <1>3, FoldRead, MathOfStackWhole
<1>4. CASE w[1].my_cmd \in MathCmds /\ fold = Fold(2, PushMath(w[0], w[1]))
  BY <1>1, <1>4, FoldRead, PushMathWhole
<1>5. CASE /\ w[0].my_cmd = CMD_MY_PUSH /\ w[2].my_cmd \in MathCmds
           /\ fold = Fold(3, PushAnyMath(w[0], w[1], w[2]))
  <2>1. fold.skip = 3 /\ fold.bytes = PushAnyMath(w[0], w[1], w[2])
    BY <1>5, FoldRead
  <2>2. w[0].reg = INVALID_REG => w[0].immed # -1
    <3>1. INVALID_REG \notin 0..3
      BY SMT DEF INVALID_REG
    <3>2. w[0].my_cmd = CMD_MY_PUSH /\ ~w[0].use_immed => w[0].reg \in 0..3
      BY <1>1, Zenon DEF Known
    <3> QED
      BY <1>5, <2>1, <3>1, <3>2
  <2> QED
    BY <1>1, <1>5, <2>1, <2>2, PushAnyMathWhole
<1>6. CASE fold = Fold(0, << >>)
  BY <1>6, FoldRead, WholeNothing
<1> QED
  BY <1>2, <1>3, <1>4, <1>5, <1>6, FoldArms

-----------------------------------------------------------------------------
(* The inductive invariant: the window stays, and what was written for it  *)
(* is read as instructions.                                                *)

WholeInv ==
  /\ look \in Looks
  /\ translated /\ (IF skip > 0 THEN LoadedWhole ELSE PushedWhole) => Whole(code)

LEMMA WholeStep ==
  ASSUME WholeInv, Translate
  PROVE  WholeInv'
<1> DEFINE fold == convert_tokens2nonstack_logic(look)
<1>1. look' = look /\ look \in Looks
  BY DEF WholeInv, Translate
<1>2. \A k \in 0..4 : Known(look[k]) /\ look[k].my_cmd \notin {CMD_MY_RET, CMD_MY_CALL}
  BY <1>1, LooksUsual DEF Usual
<1>3. skip' = fold.skip
  BY DEF Translate
<1>4. code' = IF fold.skip > 0 THEN fold.bytes
              ELSE IF look[0].my_cmd = CMD_MY_LABEL THEN << >>
              ELSE x86_cmd_ctor(look[0], Space)
  BY DEF Translate
<1> HIDE DEF fold
<1>5. ASSUME fold.skip > 0, LoadedWhole'
      PROVE  Whole(code')
  <2>1. fold.skip = 3 /\ look[0].use_immed => look[0].immed # -1
    BY <1>1, <1>3, <1>5 DEF LoadedWhole
  <2>2. Whole(fold.bytes)
    BY <1>2, <2>1, FoldWhole DEF fold
  <2> QED
    BY <1>4, <1>5, <2>2
<1>6. ASSUME ~(fold.skip > 0), PushedWhole'
      PROVE  Whole(code')
  <2>1. look[0].use_immed => look[0].immed >= -127
    BY <1>1, <1>6 DEF PushedWhole
  <2>2. 0 \in 0..4
    BY SMT
  <2>3. PrintDecimal - (Space + JMP_LENGTH) \in Ints /\ ScanDecimal - (Space + JMP_LENGTH) \in Ints
    BY AddressesAssumption, Zenon
  <2>4. Whole(x86_cmd_ctor(look[0], Space))
    BY <1>2, <2>1, <2>2, <2>3, TokenWhole
  <2> QED
    BY <1>4, <1>6, <2>4, WholeNothing
<1> QED
  BY <1>1, <1>3, <1>5, <1>6 DEF WholeInv

LEMMA WholeIsRead ==
  ASSUME WholeInv
  PROVE  CodeIsWhole
<1> SUFFICES ASSUME Whole(code)
             PROVE  ~ \E k \in DOMAIN Disassemble(code) : Disassemble(code)[k].op = "bad"
  BY Zenon DEF WholeInv, CodeIsWhole
<1>1. PICK instrs : ReadsAs(code, instrs) /\ \A k \in DOMAIN instrs : instrs[k].op # "bad"
  BY Zenon DEF Whole
<1>2. Disassemble(code) = instrs
  BY <1>1, ReadsAll
<1> QED
  BY <1>1, <1>2

(* The bytes written for a window are a whole number of instructions,      *)
(* whatever immediates its pushes have, but for a push below -127 and a    *)
(* load of -1: the opcode encode_token2push_pop, get_mask and add_reg_mask *)
(* choose fits the bytes add_number2cmd and get_sizeof_number2write leave. *)
THEOREM WholeCode == Spec => []CodeIsWhole
<1>1. Init => WholeInv
  BY DEF Init, WholeInv
<1>2. WholeInv /\ [Translate]_vars => WholeInv'
  <2>1. CASE Translate
    BY <2>1, WholeStep
  <2>2. CASE UNCHANGED vars
    BY <2>2 DEF vars, WholeInv, LoadedWhole, PushedWhole
  <2> QED
    BY <2>1, <2>2
<1>3. WholeInv => CodeIsWhole
  BY WholeIsRead
<1> QED
  BY <1>1, <1>2, <1>3, PTL DEF Spec

-----------------------------------------------------------------------------
(* Where the calls lead.                                                   *)

(* The instruction at the front of some code is a call only if it takes    *)
(* five bytes.                                                             *)
LEMMA NarrowNames == \A name : Narrow(name) # "call"
BY SMT DEF Narrow

LEMMA NamesAreNoCalls ==
  ASSUME NEW n \in 0..7, NEW op
  PROVE  AluNames[n] # "call" /\ GroupName(op, n) # "call"
BY SMT DEF AluNames, GroupName

LEMMA LoadNames ==
  ASSUME NEW b, NEW o, At(b, o) \in Loads
  PROVE  DecodeAt(b, o).op # "call"
<1>1. "movabs" # "call" /\ "mov32" # "call"
  BY SMT
<1> QED
  BY <1>1, LoadsRead, InstrLen

LEMMA StackNames ==
  ASSUME NEW b, NEW o
  PROVE  /\ At(b, o) \in \h50..\h57 => DecodeAt(b, o).op # "call"
         /\ At(b, o) \in \h58..\h5F => DecodeAt(b, o).op # "call"
<1> DEFINE low == Reg((At(b, o) % 8) + RexB(b))
<1>1. ASSUME At(b, o) \in \h50..\h57 PROVE DecodeAt(b, o) = Instr("push", NoOperand, low, o)
  BY <1>1, SMTT(20) DEF DecodeAt
<1>2. ASSUME At(b, o) \in \h58..\h5F PROVE DecodeAt(b, o) = Instr("pop", low, NoOperand, o)
  BY <1>2, SMTT(20) DEF DecodeAt
<1>3. "push" # "call" /\ "pop" # "call"
  BY SMT
<1> QED
  BY <1>1, <1>2, <1>3, InstrLen

LEMMA CallAt ==
  ASSUME NEW b \in Seq(Byte), NEW o \in {1, 2}, At(b, o) # \hE8
  PROVE  DecodeAt(b, o).op # "call"
<1> DEFINE op == At(b, o)
           m  == At(b, o + 1)
           n  == RegField(m)
<1>1. m \in Byte
  <2>1. CASE o + 1 \in DOMAIN b
    <3>1. b[o + 1] \in Byte
      BY <2>1
    <3> QED
      BY <2>1, <3>1 DEF At
  <2>2. CASE o + 1 \notin DOMAIN b
    BY <2>2, SMT DEF At, Byte
  <2> QED
    BY <2>1, <2>2
<1>2. n \in 0..7 /\ m % 16 \in 0..15
  <2> HIDE DEF m
  <2>1. m \div 8 \in Int /\ m \in Int
    BY <1>1, SMT DEF Byte
  <2>2. (m \div 8) % 8 \in 0..7
    BY <2>1, SMT
  <2>3. m % 16 \in 0..15
    BY <2>1, SMT
  <2> QED
    BY <2>2, <2>3, Zenon DEF RegField
<1>3. AluNames[n] # "call" /\ GroupName(op, n) # "call"
  BY <1>2, NamesAreNoCalls
<1>4. CASE op = \h01
  <2>1. DecodeAt(b, o).op = IF RexW(b) THEN "add" ELSE Narrow("add")
    BY <1>4, SMTT(20) DEF DecodeAt, Instr
  <2> QED
    BY <2>1, NarrowNames, SMT
<1>5. CASE op = \h03
  <2>1. DecodeAt(b, o).op = IF RexW(b) THEN "add" ELSE Narrow("add")
    BY <1>5, SMTT(20) DEF DecodeAt, Instr
  <2> QED
    BY <2>1, NarrowNames, SMT
<1>6. CASE op = \h29
  <2>1. DecodeAt(b, o).op = IF RexW(b) THEN "sub" ELSE Narrow("sub")
    BY <1>6, SMTT(20) DEF DecodeAt, Instr
  <2> QED
    BY <2>1, NarrowNames, SMT
<1>7. CASE op = \h2B
  <2>1. DecodeAt(b, o).op = IF RexW(b) THEN "sub" ELSE Narrow("sub")
    BY <1>7, SMTT(20) DEF DecodeAt, Instr
  <2> QED
    BY <2>1, NarrowNames, SMT
<1>8. CASE op = \h39
  <2>1. DecodeAt(b, o).op = IF RexW(b) THEN "cmp" ELSE Narrow("cmp")
    BY <1>8, SMTT(20) DEF DecodeAt, Instr
  <2> QED
    BY <2>1, NarrowNames, SMT
<1>9. CASE op = \h89
  <2>1. DecodeAt(b, o).op = IF RexW(b) THEN "mov" ELSE Narrow("mov")
    BY <1>9, SMTT(20) DEF DecodeAt, Instr
  <2> QED
    BY <2>1, NarrowNames, SMT
<1>10. CASE op = \h8B
  <2>1. DecodeAt(b, o).op = IF RexW(b) THEN "mov" ELSE Narrow("mov")
    BY <1>10, SMTT(20) DEF DecodeAt, Instr
  <2> QED
    BY <2>1, NarrowNames, SMT
<1>11. CASE op = \h83
  <2>1. DecodeAt(b, o).op = IF RexW(b) THEN AluNames[n] ELSE Narrow(AluNames[n])
    BY <1>11, SMTT(20) DEF DecodeAt, Instr
  <2> QED
    BY <2>1, <1>3, NarrowNames, Zenon
<1>12. CASE op = \h81
  <2>1. DecodeAt(b, o).op = IF RexW(b) THEN AluNames[n] ELSE Narrow(AluNames[n])
    BY <1>12, SMTT(20) DEF DecodeAt, Instr
  <2> QED
    BY <2>1, <1>3, NarrowNames, Zenon
<1>13. CASE op = \hC7
  <2>1. DecodeAt(b, o).op = IF RexW(b) THEN GroupName(op, n) ELSE Narrow(GroupName(op, n))
    BY <1>13, SMTT(20) DEF DecodeAt, Instr
  <2> QED
    BY <2>1, <1>3, NarrowNames, Zenon
<1>14. CASE op = \hF7
  <2>1. DecodeAt(b, o).op = IF RexW(b) THEN GroupName(op, n) ELSE Narrow(GroupName(op, n))
    BY <1>14, SMTT(20) DEF DecodeAt, Instr
  <2> QED
    BY <2>1, <1>3, NarrowNames, Zenon
<1>15. CASE op = \hFF
  <2>1. DecodeAt(b, o).op = GroupName(op, n)
    BY <1>15, SMTT(20) DEF DecodeAt, Instr
  <2> QED
    BY <2>1, <1>3
<1>16. CASE op = \h8F
  <2>1. DecodeAt(b, o).op = GroupName(op, n)
    BY <1>16, SMTT(20) DEF DecodeAt, Instr
  <2> QED
    BY <2>1, <1>3
<1>17. CASE op = \h6A
  <2>1. DecodeAt(b, o).op = "push"
    BY <1>17, SMTT(20) DEF DecodeAt, Instr
  <2> QED
    BY <2>1, SMT
<1>18. CASE op = \h68
  <2>1. DecodeAt(b, o).op = "push"
    BY <1>18, SMTT(20) DEF DecodeAt, Instr
  <2> QED
    BY <2>1, SMT
<1>19. CASE op = \hE9
  <2>1. DecodeAt(b, o).op = "jmp"
    BY <1>19, SMTT(20) DEF DecodeAt, Instr
  <2> QED
    BY <2>1, SMT
<1>20. CASE op = \hC3
  <2>1. DecodeAt(b, o).op = "ret"
    BY <1>20, SMTT(20) DEF DecodeAt, Instr
  <2> QED
    BY <2>1, SMT
<1>21. CASE op = \h90
  <2>1. DecodeAt(b, o).op = "nop"
    BY <1>21, SMTT(20) DEF DecodeAt, Instr
  <2> QED
    BY <2>1, SMT
<1>22. CASE op \in Loads
  BY <1>22, LoadNames
<1>23. CASE op \in \h50..\h57
  BY <1>23, StackNames
<1>24. CASE op \in \h58..\h5F
  BY <1>24, StackNames
<1>25. CASE op = \h0F
  <2>1. CASE m \in \h80..\h8F
    <3>1. DecodeAt(b, o).op = ConditionNames[m % 16]
      BY <1>25, <2>1, SMTT(20) DEF DecodeAt, Instr
    <3>2. ConditionNames[m % 16] # "call"
      <4> DEFINE c == m % 16
      <4>1. c \in 0..15
        BY <1>2
      <4> HIDE DEF c
      <4>2. ConditionNames[c] # "call"
        BY <4>1, SMT DEF ConditionNames
      <4> QED
        BY <4>2 DEF c
    <3> QED
      BY <3>1, <3>2
  <2>2. CASE m \notin \h80..\h8F
    <3>1. DecodeAt(b, o) = BadInstr
      BY <1>25, <2>2, SMTT(20) DEF DecodeAt
    <3> QED
      BY <3>1, SMT DEF BadInstr, Instr
  <2> QED
    BY <2>1, <2>2
<1>26. CASE /\ op \notin OneByteMore /\ op # \h83 /\ op \notin ModRmAndInt /\ op \notin Loads
           /\ op \notin Alone /\ op # \h6A /\ op \notin IntMore /\ op # \h0F
  <2>1. DecodeAt(b, o) = BadInstr
    BY <1>26, NoOpcode
  <2> QED
    BY <2>1, SMT DEF BadInstr, Instr
<1>27. op # \hE8
  OBVIOUS
<1> DEFINE goal == DecodeAt(b, o).op # "call"
<1> HIDE DEF op, goal
<1>28. op \in OneByteMore \cup ModRmAndInt \cup IntMore \cup Alone \cup Loads \cup {\h83, \h6A, \h0F} => goal
  BY <1>4, <1>5, <1>6, <1>7, <1>8, <1>9, <1>10, <1>11, <1>12, <1>13, <1>14, <1>15, <1>16, <1>17, <1>18, <1>19, <1>20, <1>21, <1>25,
     <1>22, <1>23, <1>24, <1>27, SMT DEF OneByteMore, ModRmAndInt, IntMore, Alone, Loads, goal
<1> QED
  BY <1>26, <1>28 DEF goal

LEMMA CallLength ==
  ASSUME NEW b \in Seq(Byte), Decode(b).op = "call"
  PROVE  Decode(b).len >= 5
<1>1. CASE \E p \in SqrtParts : StartsWith(b, p[1])
  <2>1. PICK p \in SqrtParts : StartsWith(b, p[1])
    BY <1>1
  <2>2. Decode(b) = Instr(p[2], NoOperand, NoOperand, Len(p[1]))
    BY <2>1, DecodePart
  <2>3. p[2] # "call"
    BY SMT DEF SqrtParts
  <2> QED
    BY <2>2, <2>3, InstrLen
<1>2. CASE ~ \E p \in SqrtParts : StartsWith(b, p[1])
  <2> DEFINE o == IF HasRex(b) THEN 2 ELSE 1
  <2>1. Decode(b) = DecodeAt(b, o) /\ o \in {1, 2}
    BY <1>2, Zenon DEF Decode
  <2> HIDE DEF o
  <2>2. At(b, o) = \hE8
    BY <2>1, CallAt
  <2>3. DecodeAt(b, o).len = o + 4
    <3>1. At(b, o) \in IntMore
      BY <2>2, SMT DEF IntMore
    <3> QED
      BY <2>1, <3>1, OpcodeLengths
  <2> QED
    BY <2>1, <2>3, SMT
<1> QED
  BY <1>1, <1>2

NoCalls(instrs) == \A k \in DOMAIN instrs : instrs[k].op # "call"

(* Code of fewer than five bytes holds no call.                            *)
LEMMA ShortCallFree ==
  ASSUME NEW b \in Seq(Byte), Len(b) < 5
  PROVE  NoCalls(Disassemble(b))
<1>1. PICK f : IsListing(b, f) /\ Disassemble(b) = f[1]
  BY Listed
<1> DEFINE n == Len(b) + 1
           S == { k \in 1 .. n : f[k] \in Seq(Instrs) /\ NoCalls(f[k]) }
<1>2. n \in Nat /\ n = Len(b) + 1 /\ Len(b) \in Nat
  BY SMT
<1>3. ASSUME NEW k \in 1 .. n, \A j \in k + 1 .. n : j \in S PROVE k \in S
  <2>1. f[k] = ListingAt(b, f, k)
    BY <1>1, ListingRead
  <2>2. After(b, k) \in Int /\ After(b, k) > k
    BY AfterIsBehind
  <2>3. CASE k > Len(b)
    <3>1. f[k] = << >>
      BY <2>1, <2>3, Zenon DEF ListingAt
    <3>2. << >> \in Seq(Instrs) /\ NoCalls(<< >>)
      BY SMT DEF NoCalls
    <3> QED
      BY <1>3, <3>1, <3>2, Zenon
  <2>4. CASE ~(k > Len(b)) /\ After(b, k) > Len(b) + 1
    <3>1. f[k] = << BadInstr >>
      BY <2>1, <2>4, Zenon DEF ListingAt
    <3>2. BadInstr \in Instrs
      BY Zenon DEF Instrs
    <3>3. BadInstr.op # "call"
      BY SMT DEF BadInstr, Instr
    <3>4. << BadInstr >> \in Seq(Instrs) /\ NoCalls(<< BadInstr >>)
      BY <3>2, <3>3, SMT DEF NoCalls
    <3> QED
      BY <1>3, <3>1, <3>4, Zenon
  <2>5. CASE ~(k > Len(b)) /\ ~(After(b, k) > Len(b) + 1)
    <3> DEFINE i == InstrAt(b, k)
    <3>1. After(b, k) \in k + 1 .. n
      BY <1>2, <1>3, <2>2, <2>5, SMT
    <3>2. f[After(b, k)] \in Seq(Instrs) /\ NoCalls(f[After(b, k)])
      BY <1>3, <3>1, Zenon
    <3>3. f[k] = << i >> \o f[After(b, k)]
      BY <2>1, <2>5, Zenon DEF ListingAt
    <3>4. SubSeq(b, k, Len(b)) \in Seq(Byte)
      BY <1>2, <1>3, <2>5, SMT
    <3>5. i \in Instrs
      BY <3>4, Zenon DEF Instrs, InstrAt
    <3>6. i.op # "call"
      <4>1. i.len \in Nat /\ k + i.len <= Len(b) + 1
        BY <2>5, DecodeLength, SMT DEF After, InstrAt
      <4>2. i.len < 5
        BY <1>2, <1>3, <4>1, SMT
      <4>3. i.op = "call" => i.len >= 5
        BY <3>4, CallLength DEF InstrAt
      <4> HIDE DEF i
      <4> QED
        BY <4>1, <4>2, <4>3, SMT
    <3> HIDE DEF i
    <3> DEFINE rest == f[After(b, k)]
    <3>7. rest \in Seq(Instrs) /\ NoCalls(rest)
      BY <3>2
    <3> HIDE DEF rest
    <3>8. << i >> \o rest \in Seq(Instrs)
      BY <3>5, <3>7, SMT
    <3>9. NoCalls(<< i >> \o rest)
      BY <3>5, <3>6, <3>7, SMT DEF NoCalls
    <3> QED
      BY <1>3, <3>3, <3>8, <3>9 DEF rest
  <2> QED
    BY <2>3, <2>4, <2>5
<1> HIDE DEF n, S
<1>4. \A k \in 1 .. n : k \in S
  BY <1>2, <1>3, FromTheEnd
<1>5. 1 \in 1 .. n
  BY <1>2, SMT
<1> QED
  BY <1>1, <1>4, <1>5 DEF S

LEMMA CallFreeRead ==
  ASSUME NEW c, CallFree(c)
  PROVE  NoCalls(Disassemble(c))
<1>1. PICK instrs : ReadsAs(c, instrs) /\ \A k \in DOMAIN instrs : instrs[k].op \notin {"bad", "call"}
  BY DEF CallFree
<1> QED
  BY <1>1, ReadsAll DEF NoCalls

(* A push below -127 leaves a push of one byte and the three bytes that    *)
(* are left of its number.                                                 *)
LEMMA LongPushRead ==
  ASSUME NEW v \in Ints, v < -127
  PROVE  NoCalls(Disassemble(<< \h6A >> \o NumberBytes(v)))
<1> DEFINE front == << \h6A >> \o << v % 256 >>
           x == v % 256
           t == << (v \div 256) % 256, (v \div 65536) % 256, (v \div 16777216) % 256 >>
<1>1. v \in Int
  BY ValueRange
<1>2. NumberBytes(v) = Le32(v)
  <2>1. get_sizeof_number2write(v) = 4
    BY <1>1, SMT DEF get_sizeof_number2write, ASCII_MAX_SYMBOL
  <2> QED
    BY <2>1, SMT DEF NumberBytes
<1>3. x \in Byte /\ t \in Seq(Byte) /\ Len(t) = 3
  BY <1>1, SMT DEF Byte
<1>4. << \h6A >> \o Le32(v) = front \o t
  <2>1. Le32(v) = << x >> \o t
    BY SMT DEF Le32
  <2> HIDE DEF x, t
  <2> QED
    BY <1>3, <2>1, SMT DEF x
<1> HIDE DEF t
<1>5. front \in Seq(Byte) /\ Len(front) = 2
  BY <1>3, SMT DEF Byte
<1>6. Decode(front \o t).len = 2 /\ Decode(front \o t).op = "push"
  <2>1. PICK op : op = \h6A
    BY SMT
  <2> DEFINE b == << op >> \o << x >> \o t
  <2>2. op \in Opcodes
    BY <2>1, SMT DEF Opcodes, Byte
  <2>3. op \in Byte /\ x \in Byte
    BY <1>3, <2>1, SMT DEF Byte
  <2> HIDE DEF x
  <2>4. << op >> \o << x >> \in Seq(Byte) /\ Len(<< op >> \o << x >>) = 2 /\ (<< op >> \o << x >>)[1] = op
    BY <2>3, SMT
  <2>5. b \in Seq(Byte) /\ Len(b) = 5 /\ b[1] = op
    <3> DEFINE s == << op >> \o << x >>
    <3>1. s \in Seq(Byte) /\ Len(s) = 2 /\ s[1] = op
      BY <2>4
    <3> HIDE DEF s
    <3>2. s \o t \in Seq(Byte) /\ Len(s \o t) = 5
      <4>1. Len(s \o t) = Len(s) + Len(t) /\ s \o t \in Seq(Byte)
        BY <1>3, <3>1, Rest
      <4> QED
        BY <1>3, <3>1, <4>1
    <3>3. (s \o t)[1] = op
      <4>1. 1 \in 1 .. Len(s)
        BY <3>1
      <4> QED
        BY <1>3, <3>1, <4>1, JoinedAt
    <3> QED
      BY <3>2, <3>3 DEF s
  <2> HIDE DEF b
  <2>6. Starts(b, 0, op)
    BY <2>5, SMT DEF Starts, OpcodePlace
  <2>7. Decode(b) = DecodeAt(b, 1) /\ At(b, 1) = op
    BY <2>2, <2>6, AloneRead
  <2>8. DecodeAt(b, 1) = Instr("push", NoOperand, Imm(Signed8(b, 2)), 2)
    BY <2>1, <2>7, SMT DEF DecodeAt
  <2>9. Decode(b).len = 2 /\ Decode(b).op = "push"
    BY <2>7, <2>8, InstrLen, SMT
  <2> QED
    BY <2>1, <2>9 DEF b, x
<1> DEFINE i == Decode(front \o t)
<1>7. Disassemble(front \o t) = << i >> \o Disassemble(t)
  <2> HIDE DEF front
  <2>1. Len(front) > 0 /\ Decode(front \o t).len = Len(front)
    BY <1>5, <1>6
  <2> QED
    BY <1>3, <1>5, <2>1, DisassembleFirst
<1>8. NoCalls(Disassemble(t)) /\ Disassemble(t) \in Seq(Instrs)
  <2>1. Len(t) < 5
    BY <1>3, SMT
  <2> QED
    BY <1>3, <2>1, ShortCallFree, DisassembleType
<1>9. i \in Instrs /\ i.op # "call"
  <2>1. front \o t \in Seq(Byte)
    BY <1>3, <1>5, Rest
  <2>2. i \in Instrs
    BY <2>1, Zenon DEF Instrs
  <2>3. "push" # "call"
    BY SMT
  <2> QED
    BY <1>6, <2>2, <2>3
<1> HIDE DEF i, front
<1>10. NoCalls(<< i >> \o Disassemble(t))
  BY <1>8, <1>9, SMT DEF NoCalls
<1> QED
  BY <1>2, <1>4, <1>7, <1>10

LEMMA TokenNoCalls ==
  ASSUME NEW token, Known(token),
         token.my_cmd \notin {CMD_MY_RET, CMD_MY_CALL, CMD_MY_OUT, CMD_MY_IN}, NEW space
  PROVE  NoCalls(Disassemble(x86_cmd_ctor(token, space)))
<1>1. CASE token.use_immed => token.immed >= -127
  BY <1>1, TokenCallFree, CallFreeRead
<1>2. CASE ~(token.use_immed => token.immed >= -127)
  <2>1. token.use_immed /\ token.immed \in Ints
    BY <1>2 DEF Known
  <2>2. token.immed < -127
    BY <1>2, <2>1, ValueRange, SMT
  <2>3. encode_token2push_pop(token) = << \h6A >> \o NumberBytes(token.immed)
    <3>1. token.immed <= ASCII_MAX_SYMBOL
      BY <2>1, <2>2, ValueRange, SMT DEF ASCII_MAX_SYMBOL
    <3>2. encode_token2push_pop(token)
            = << IF token.immed <= ASCII_MAX_SYMBOL THEN \h6A ELSE \h68 >> \o NumberBytes(token.immed)
      BY <2>1, Zenon DEF encode_token2push_pop
    <3> QED
      BY <3>1, <3>2
  <2>4. NoCalls(Disassemble(encode_token2push_pop(token)))
    BY <2>1, <2>2, <2>3, LongPushRead
  <2>5. \A b \in { encode_sqrt, pre_encode_jmp(token), << >> } : CallFree(b)
    BY <1>2, SqrtCallFree, JmpCallFree, CallFreeNothing
  <2>6. CallFree(encode_cmp \o pre_encode_conditional_jmp(token)) \/ token.my_cmd \notin CondJmpCmds
    BY ConditionalCallFree
  <2> QED
    BY <2>4, <2>5, <2>6, TokenArms, CallFreeRead
<1> QED
  BY <1>1, <1>2

(* No call leads anywhere; one of two instructions leads where it says,    *)
(* measured from its own end.                                              *)
LEMMA NoTargets ==
  ASSUME NEW instrs, NoCalls(instrs)
  PROVE  TargetsOf(instrs) = {}
<1>1. { j \in DOMAIN instrs : instrs[j].op = "call" } = {}
  BY DEF NoCalls
<1> QED
  BY <1>1, Zenon DEF TargetsOf

EndAt(instrs, end, k) == IF k = 0 THEN Space ELSE end[k - 1] + instrs[k].len

LEMMA TwoTargets ==
  ASSUME NEW a, NEW b, a.len \in Int, b.len \in Int
  PROVE  /\ a.op = "call" /\ b.op # "call" =>
              TargetsOf(<< a, b >>) = { Space + a.len + a.src.value }
         /\ a.op # "call" /\ b.op = "call" =>
              TargetsOf(<< a, b >>) = { Space + a.len + b.len + b.src.value }
<1> DEFINE s == << a, b >>
           Ends(e) == e = [k \in 0 .. Len(s) |-> EndAt(s, e, k)]
           end == CHOOSE e : Ends(e)
           E == [k \in 0 .. 2 |-> IF k = 0 THEN Space ELSE IF k = 1 THEN Space + a.len ELSE Space + a.len + b.len]
<1>1. Len(s) = 2 /\ DOMAIN s = 1 .. 2 /\ s[1] = a /\ s[2] = b
  OBVIOUS
<1>2. TargetsOf(s) = { end[k] + s[k].src.value : k \in { j \in DOMAIN s : s[j].op = "call" } }
  BY Zenon DEF TargetsOf, EndAt
<1> HIDE DEF s
<1>3. Ends(E)
  <2>1. ASSUME NEW k \in 0 .. 2 PROVE E[k] = EndAt(s, E, k)
    <3>1. CASE k = 0
      BY <3>1 DEF EndAt
    <3>2. CASE k = 1
      <4>1. E[0] = Space /\ E[1] = Space + a.len
        OBVIOUS
      <4>2. EndAt(s, E, 1) = E[0] + a.len
        BY <1>1, SMT DEF EndAt
      <4> HIDE DEF E
      <4> QED
        BY <3>2, <4>1, <4>2
    <3>3. CASE k = 2
      <4>1. E[1] = Space + a.len /\ E[2] = Space + a.len + b.len
        OBVIOUS
      <4>2. EndAt(s, E, 2) = E[1] + b.len
        BY <1>1, SMT DEF EndAt
      <4> HIDE DEF E
      <4> QED
        BY <3>3, <4>1, <4>2
    <3> QED
      BY <3>1, <3>2, <3>3, SMT
  <2>2. E = [k \in 0 .. 2 |-> E[k]]
    OBVIOUS
  <2> HIDE DEF E
  <2>3. [k \in 0 .. 2 |-> E[k]] = [k \in 0 .. 2 |-> EndAt(s, E, k)]
    BY <2>1, Zenon
  <2> QED
    BY <1>1, <2>2, <2>3, Zenon
<1>4. Ends(end)
  BY <1>3, Zenon
<1> HIDE DEF E
<1>5. end[1] = Space + a.len /\ end[2] = Space + a.len + b.len
  <2>1. end = [k \in 0 .. 2 |-> EndAt(s, end, k)]
    BY <1>1, <1>4, Zenon
  <2> HIDE DEF end
  <2>2. end[0] = EndAt(s, end, 0) /\ end[1] = EndAt(s, end, 1) /\ end[2] = EndAt(s, end, 2)
    <3> DEFINE EndOf(k) == EndAt(s, end, k)
    <3>1. end = [k \in 0 .. 2 |-> EndOf(k)]
      BY <2>1
    <3> HIDE DEF EndOf
    <3>2. end[0] = EndOf(0) /\ end[1] = EndOf(1) /\ end[2] = EndOf(2)
      BY <3>1, SMT
    <3> QED
      BY <3>2 DEF EndOf
  <2>3. EndAt(s, end, 0) = Space
    BY Zenon DEF EndAt
  <2>4. EndAt(s, end, 1) = end[0] + a.len
    BY <1>1, SMT DEF EndAt
  <2>5. EndAt(s, end, 2) = end[1] + b.len
    BY <1>1, SMT DEF EndAt
  <2> QED
    BY <2>2, <2>3, <2>4, <2>5
<1> HIDE DEF end
<1>6. ASSUME a.op = "call", b.op # "call" PROVE TargetsOf(s) = { Space + a.len + a.src.value }
  <2>1. { j \in DOMAIN s : s[j].op = "call" } = {1}
    BY <1>1, <1>6, SMT
  <2>2. TargetsOf(s) = { end[k] + s[k].src.value : k \in {1} }
    BY <1>2, <2>1, Zenon
  <2> QED
    BY <1>1, <1>5, <2>2, Zenon
<1>7. ASSUME a.op # "call", b.op = "call" PROVE TargetsOf(s) = { Space + a.len + b.len + b.src.value }
  <2>1. { j \in DOMAIN s : s[j].op = "call" } = {2}
    BY <1>1, <1>7, SMT
  <2>2. TargetsOf(s) = { end[k] + s[k].src.value : k \in {2} }
    BY <1>2, <2>1, Zenon
  <2> QED
    BY <1>1, <1>5, <2>2, Zenon
<1> QED
  BY <1>6, <1>7 DEF s

LEMMA Paired ==
  ASSUME NEW S, NEW a \in S, NEW b \in S
  PROVE  << a >> \o << b >> = << a, b >>
<1> DEFINE s == << a >> \o << b >>
           t == << a, b >>
<1>1. s \in Seq(S) /\ Len(s) = 2 /\ s[1] = a /\ s[2] = b
  BY SMT
<1>2. t \in Seq(S) /\ Len(t) = 2 /\ t[1] = a /\ t[2] = b
  BY SMT
<1> HIDE DEF s, t
<1>3. \A k \in 1 .. 2 : s[k] = t[k]
  BY <1>1, <1>2, SMT
<1>4. s = t
  BY <1>1, <1>2, <1>3, SMT
<1> QED
  BY <1>4 DEF s, t

LEMMA CallRead ==
  ASSUME NEW v \in Ints
  PROVE  LET c == encode_cmd(ImmedInfo(CALL, INVALID_REG, v))
         IN  IsInstr(c) /\ Decode(c) = Instr("call", NoOperand, Imm(v), 5)
<1> DEFINE c == << \hE8 >> \o Le32(v)
<1>1. v \in Int
  BY ValueRange
<1>2. c \in Seq(Byte) /\ Len(c) = 5
  <2>1. PICK op : op = \hE8
    BY SMT
  <2>2. op \in Opcodes
    BY <2>1, SMT DEF Opcodes, Byte
  <2>3. << op >> \o Le32(v) \in Seq(Byte) /\ Len(<< op >> \o Le32(v)) = 5
    BY <2>2, OpcodeAndWord, ZenonT(40) DEF Starts
  <2> QED
    BY <2>1, <2>3, Zenon
<1>3. Reads(c, "call", NoOperand, Imm(v))
  BY CallFormRead
<1>4. IsInstr(c)
  <2>1. "call" # "bad"
    BY SMT
  <2> HIDE DEF c
  <2> QED
    BY <1>2, <1>3, <2>1, FromReads
<1>5. Decode(c) = Instr("call", NoOperand, Imm(v), 5)
  <2> HIDE DEF c
  <2> QED
    BY <1>2, <1>3 DEF Reads
<1> QED
  BY <1>1, <1>4, <1>5, ExternalCallBytes

LEMMA PopRead ==
  ASSUME NEW r \in Octals
  PROVE  Other(PopReg(r)) /\ Decode(PopReg(r)).len = 1
<1>1. Other(PopReg(r))
  BY PushPopOther
<1>2. PopReg(r) = << \h58 + r >>
  BY PushPopRegBytes DEF Octals
<1>3. Len(PopReg(r)) = 1
  BY <1>2
<1> QED
  BY <1>1, <1>3 DEF Other, IsInstr

(* The call of in is the first of its two instructions.                    *)
LEMMA ScanLands ==
  ASSUME ScanDecimal \in Int, ScanDecimal - (Space + JMP_LENGTH) \in Ints
  PROVE  TargetsOf(Disassemble(encode_scan(Space))) = {ScanDecimal}
<1> DEFINE v == ScanDecimal - (Space + JMP_LENGTH)
           c == encode_cmd(ImmedInfo(CALL, INVALID_REG, v))
           d == PopReg(RAX)
           i == Decode(c)
           j == Decode(d)
<1>1. IsInstr(c) /\ i = Instr("call", NoOperand, Imm(v), 5)
  BY CallRead
<1>2. Other(d) /\ j.len = 1
  BY PopRead, OctalNames
<1>3. encode_scan(Space) = c \o d
  BY Zenon DEF encode_scan
<1>4. v = ScanDecimal - (Space + 5) /\ Space \in Int
  BY SMT DEF JMP_LENGTH, Space
<1> HIDE DEF c, d, v
<1>5. Disassemble(c \o d) = << i >> \o << j >>
  BY <1>1, <1>2, ReadsInstr, ReadsBoth, ReadsAll DEF Other
<1>6. i.op = "call" /\ i.len = 5 /\ i.src.value = v /\ j.op # "call"
  BY <1>1, <1>2, SMT DEF Instr, Imm, Other
<1>7. i \in Instrs /\ j \in Instrs
  BY <1>1, <1>2, Zenon DEF Instrs, Other, IsInstr
<1> HIDE DEF i, j
<1>8. << i >> \o << j >> = << i, j >>
  BY <1>7, Paired
<1>9. TargetsOf(<< i, j >>) = { Space + i.len + i.src.value }
  BY <1>2, <1>6, TwoTargets
<1>10. Space + i.len + i.src.value = ScanDecimal
  BY <1>4, <1>6
<1> QED
  BY <1>3, <1>5, <1>8, <1>9, <1>10

(* That of out comes after the byte of pop rdi.                            *)
LEMMA PrintLands ==
  ASSUME PrintDecimal \in Int, PrintDecimal - (Space + JMP_LENGTH) \in Ints
  PROVE  TargetsOf(Disassemble(encode_print(Space))) = {PrintDecimal + 1}
<1> DEFINE v == PrintDecimal - (Space + JMP_LENGTH)
           c == encode_cmd(ImmedInfo(CALL, INVALID_REG, v))
           d == PopReg(RDI)
           i == Decode(c)
           j == Decode(d)
<1>1. IsInstr(c) /\ i = Instr("call", NoOperand, Imm(v), 5)
  BY CallRead
<1>2. Other(d) /\ j.len = 1
  BY PopRead, OctalNames
<1>3. encode_print(Space) = d \o c
  BY Zenon DEF encode_print
<1>4. v = PrintDecimal - (Space + 5) /\ Space \in Int
  BY SMT DEF JMP_LENGTH, Space
<1> HIDE DEF c, d, v
<1>5. Disassemble(d \o c) = << j >> \o << i >>
  BY <1>1, <1>2, ReadsInstr, ReadsBoth, ReadsAll DEF Other
<1>6. i.op = "call" /\ i.len = 5 /\ i.src.value = v /\ j.op # "call"
  BY <1>1, <1>2, SMT DEF Instr, Imm, Other
<1>7. i \in Instrs /\ j \in Instrs
  BY <1>1, <1>2, Zenon DEF Instrs, Other, IsInstr
<1> HIDE DEF i, j
<1>8. << j >> \o << i >> = << j, i >>
  BY <1>7, Paired
<1>9. TargetsOf(<< j, i >>) = { Space + j.len + i.len + i.src.value }
  BY <1>2, <1>6, TwoTargets
<1>10. Space + j.len + i.len + i.src.value = PrintDecimal + 1
  BY <1>2, <1>4, <1>6
<1> QED
  BY <1>3, <1>5, <1>8, <1>9, <1>10

(* The inductive invariant: a token that no fold took has left its bytes.  *)
TokenInv ==
  /\ look \in Looks
  /\ translated /\ skip = 0 =>
       code = IF look[0].my_cmd = CMD_MY_LABEL THEN << >> ELSE x86_cmd_ctor(look[0], Space)

LEMMA TokenStep ==
  ASSUME TokenInv, Translate
  PROVE  TokenInv'
<1> DEFINE fold == convert_tokens2nonstack_logic(look)
<1>1. look' = look /\ look \in Looks
  BY DEF TokenInv, Translate
<1>2. skip' = fold.skip
  BY DEF Translate
<1>3. code' = IF fold.skip > 0 THEN fold.bytes
              ELSE IF look[0].my_cmd = CMD_MY_LABEL THEN << >>
              ELSE x86_cmd_ctor(look[0], Space)
  BY DEF Translate
<1> HIDE DEF fold
<1>4. fold.skip = 0 => ~(fold.skip > 0)
  BY SMT
<1> QED
  BY <1>1, <1>2, <1>3, <1>4 DEF TokenInv

LEMMA TokenLands ==
  ASSUME TokenInv
  PROVE  CallsLand
<1> DEFINE token == look[0]
<1> SUFFICES ASSUME translated, skip = 0
             PROVE  CASE token.my_cmd = CMD_MY_IN  -> CallTargets = {ScanDecimal}
                      [] token.my_cmd = CMD_MY_OUT -> CallTargets = {PrintDecimal + 1}
                      [] OTHER -> CallTargets = {}
  BY Zenon DEF CallsLand
<1>1. Known(token) /\ token.my_cmd \notin {CMD_MY_RET, CMD_MY_CALL}
  <2>1. 0 \in 0..4
    BY SMT
  <2> QED
    BY <2>1, LooksUsual DEF TokenInv, Usual
<1>2. code = IF token.my_cmd = CMD_MY_LABEL THEN << >> ELSE x86_cmd_ctor(token, Space)
  BY DEF TokenInv
<1>3. CMD_MY_IN # CMD_MY_OUT /\ CMD_MY_LABEL \notin {CMD_MY_IN, CMD_MY_OUT}
  BY SMT DEF CMD_MY_IN, CMD_MY_OUT, CMD_MY_LABEL
<1>4. /\ PrintDecimal \in Int /\ PrintDecimal - (Space + JMP_LENGTH) \in Ints
      /\ ScanDecimal \in Int /\ ScanDecimal - (Space + JMP_LENGTH) \in Ints
  BY AddressesAssumption, Zenon
<1>5. ASSUME token.my_cmd = CMD_MY_IN PROVE CallTargets = {ScanDecimal}
  <2>1. code = encode_scan(Space)
    BY <1>1, <1>2, <1>3, <1>5, TokenArms, Zenon
  <2> QED
    BY <1>4, <2>1, ScanLands DEF CallTargets
<1>6. ASSUME token.my_cmd = CMD_MY_OUT PROVE CallTargets = {PrintDecimal + 1}
  <2>1. code = encode_print(Space)
    BY <1>1, <1>2, <1>3, <1>6, TokenArms, Zenon
  <2> QED
    BY <1>4, <2>1, PrintLands DEF CallTargets
<1>7. ASSUME token.my_cmd \notin {CMD_MY_IN, CMD_MY_OUT} PROVE CallTargets = {}
  <2>1. NoCalls(Disassemble(x86_cmd_ctor(token, Space)))
    BY <1>1, <1>7, TokenNoCalls
  <2>2. NoCalls(Disassemble(<< >>))
    BY CallFreeNothing, CallFreeRead
  <2>3. NoCalls(Disassemble(code))
    BY <1>2, <2>1, <2>2
  <2> QED
    BY <2>3, NoTargets DEF CallTargets
<1> HIDE DEF token
<1> QED
  BY <1>3, <1>5, <1>6, <1>7, Zenon

(* A window that no fold takes calls what it should and nothing else,      *)
(* whatever its immediate and wherever scan_decimal and print_decimal are: *)
(* in calls scan_decimal, out the second byte of print_decimal, because    *)
(* encode_print measures the displacement as if pop rdi were not there.    *)
THEOREM TokensCall == Spec => []CallsLand
<1>1. Init => TokenInv
  BY DEF Init, TokenInv
<1>2. TokenInv /\ [Translate]_vars => TokenInv'
  <2>1. CASE Translate
    BY <2>1, TokenStep
  <2>2. CASE UNCHANGED vars
    BY <2>2 DEF vars, TokenInv
  <2> QED
    BY <2>1, <2>2
<1>3. TokenInv => CallsLand
  BY TokenLands
<1> QED
  BY <1>1, <1>2, <1>3, PTL DEF Spec

-----------------------------------------------------------------------------
(* What code does to the machine.                                          *)

(* The states a machine goes through, from m.                              *)
Passes(m, instrs, e) ==
  e[0] = m /\ \A k \in 1 .. Len(instrs) : e[k] = Step(e[k - 1], instrs[k])

StateAt(m, instrs, e, k) == IF k = 0 THEN m ELSE Step(e[k - 1], instrs[k])

Trace(m, instrs, e) == e = [k \in 0 .. Len(instrs) |-> StateAt(m, instrs, e, k)]

LEMMA ExecutionDef ==
  ASSUME NEW m, NEW instrs
  PROVE  Execution(m, instrs) = (CHOOSE e : Trace(m, instrs, e))[Len(instrs)]
BY DEF Execution, Trace, StateAt

LEMMA FromTheStart ==
  ASSUME NEW n \in Nat, NEW S, 0 \in S, \A k \in 1 .. n : k - 1 \in S => k \in S
  PROVE  \A k \in 0 .. n : k \in S
<1> DEFINE Missing == { k \in 0 .. n : k \notin S }
<1>1. Missing = {}
  <2> SUFFICES ASSUME Missing # {} PROVE FALSE
    OBVIOUS
  <2>1. Missing \subseteq Nat
    BY SMT
  <2> HIDE DEF Missing
  <2>2. PICK k \in Missing : \A j \in Missing : ~(<< j, k >> \in OpToRel(<, Nat))
    BY <2>1, NatLessThanWellFounded, WFMin
  <2>3. k \in 0 .. n /\ k \notin S
    BY <2>2 DEF Missing
  <2>4. k \in 1 .. n /\ k - 1 \in 0 .. n /\ k - 1 < k /\ k - 1 \in Nat /\ k \in Nat
    <3>1. k # 0
      BY <2>3
    <3> QED
      BY <2>3, <3>1, SMT
  <2>5. << k - 1, k >> \in OpToRel(<, Nat)
    BY <2>4, SMT DEF OpToRel
  <2>6. k - 1 \notin Missing
    BY <2>2, <2>5
  <2>7. k - 1 \in S
    BY <2>4, <2>6 DEF Missing
  <2> QED
    BY <2>3, <2>4, <2>7
<1> QED
  BY <1>1

LEMMA TraceRead ==
  ASSUME NEW m, NEW instrs, NEW e, Trace(m, instrs, e), NEW k \in 0 .. Len(instrs)
  PROVE  e[k] = StateAt(m, instrs, e, k)
<1> DEFINE At1(j) == StateAt(m, instrs, e, j)
           D == 0 .. Len(instrs)
<1>1. e = [j \in D |-> At1(j)]
  BY Zenon DEF Trace
<1> HIDE DEF At1
<1>2. e[k] = At1(k)
  BY <1>1, Zenon
<1> QED
  BY <1>2 DEF At1

LEMMA ExecutionPasses ==
  ASSUME NEW m, NEW instrs \in Seq(Instrs), NEW e, Passes(m, instrs, e)
  PROVE  Execution(m, instrs) = e[Len(instrs)]
<1> DEFINE n == Len(instrs)
           g == [k \in 0 .. n |-> e[k]]
           f == CHOOSE h : Trace(m, instrs, h)
<1>1. n \in Nat
  OBVIOUS
<1>2. Trace(m, instrs, g)
  <2> DEFINE Stage(k) == StateAt(m, instrs, g, k)
  <2>1. ASSUME NEW k \in 0 .. n PROVE e[k] = Stage(k)
    <3>1. CASE k = 0
      BY <3>1 DEF Passes, StateAt
    <3>2. CASE k # 0
      <4>1. k \in 1 .. n /\ k - 1 \in 0 .. n
        BY <1>1, <3>2, SMT
      <4>2. g[k - 1] = e[k - 1]
        BY <4>1, Zenon
      <4>3. e[k] = Step(e[k - 1], instrs[k])
        BY <4>1 DEF Passes
      <4> HIDE DEF g
      <4> QED
        BY <3>2, <4>2, <4>3, Zenon DEF StateAt
    <3> QED
      BY <3>1, <3>2
  <2> HIDE DEF Stage
  <2>2. [k \in 0 .. n |-> e[k]] = [k \in 0 .. n |-> Stage(k)]
    BY <2>1, Zenon
  <2>3. g = [k \in 0 .. n |-> Stage(k)]
    BY <2>2
  <2> HIDE DEF g
  <2> QED
    BY <2>3 DEF Stage, Trace
<1> HIDE DEF g
<1>3. Trace(m, instrs, f)
  BY <1>2, Zenon
<1> HIDE DEF f
<1> DEFINE S == { k \in 0 .. n : f[k] = e[k] }
<1>4. 0 \in S
  <2>1. 0 \in 0 .. n
    BY <1>1, SMT
  <2>2. f[0] = m
    <3>1. f[0] = StateAt(m, instrs, f, 0)
      BY <1>3, <2>1, TraceRead
    <3> QED
      BY <3>1, Zenon DEF StateAt
  <2> QED
    BY <2>1, <2>2 DEF Passes
<1>5. ASSUME NEW k \in 1 .. n, k - 1 \in S PROVE k \in S
  <2>1. k \in 0 .. n /\ k # 0
    BY <1>1, SMT
  <2>2. f[k] = Step(f[k - 1], instrs[k])
    <3>1. f[k] = StateAt(m, instrs, f, k)
      BY <1>3, <2>1, TraceRead
    <3> QED
      BY <2>1, <3>1, Zenon DEF StateAt
  <2>3. e[k] = Step(e[k - 1], instrs[k])
    BY DEF Passes
  <2> QED
    BY <1>5, <2>1, <2>2, <2>3
<1> HIDE DEF S
<1>6. \A k \in 0 .. n : k \in S
  BY <1>1, <1>4, <1>5, FromTheStart
<1>7. f[n] = e[n]
  <2>1. n \in 0 .. n
    BY <1>1, SMT
  <2> QED
    BY <1>6, <2>1 DEF S
<1> QED
  BY <1>7, ExecutionDef DEF f

(* The code c takes the machine m to n, whatever stands behind it.         *)
Does(c, m, n) ==
  \E instrs, e : ReadsAs(c, instrs) /\ Passes(m, instrs, e) /\ e[Len(instrs)] = n

LEMMA DoesRun ==
  ASSUME NEW c, NEW m, NEW n, Does(c, m, n)
  PROVE  RunBytes(m, c) = n
<1>1. PICK instrs, e : ReadsAs(c, instrs) /\ Passes(m, instrs, e) /\ e[Len(instrs)] = n
  BY DEF Does
<1>2. Disassemble(c) = instrs /\ instrs \in Seq(Instrs)
  BY <1>1, ReadsAll
<1> QED
  BY <1>1, <1>2, ExecutionPasses DEF RunBytes

LEMMA DoesNothing ==
  ASSUME NEW m
  PROVE  Does(<< >>, m, m)
<1> DEFINE e == [k \in {0} |-> m]
<1>1. Passes(m, << >>, e) /\ e[Len(<< >>)] = m
  BY SMT DEF Passes
<1> QED
  BY <1>1, ReadsNothing, Zenon DEF Does

LEMMA DoesInstr ==
  ASSUME NEW c, IsInstr(c), NEW m
  PROVE  Does(c, m, Step(m, Decode(c)))
<1> DEFINE i == Decode(c)
           n == Step(m, i)
           e == [k \in {0, 1} |-> IF k = 0 THEN m ELSE n]
           s == << i >>
<1>1. Len(s) = 1 /\ s[1] = i
  OBVIOUS
<1>2. ReadsAs(c, s)
  BY ReadsInstr
<1> HIDE DEF s, i
<1>3. e[0] = m /\ e[1] = n
  OBVIOUS
<1> HIDE DEF e
<1>4. Passes(m, s, e)
  <2>1. \A k \in 1 .. Len(s) : k = 1
    BY <1>1, SMT
  <2>2. e[1 - 1] = m
    BY <1>3
  <2>3. e[1] = Step(e[1 - 1], s[1])
    BY <1>1, <1>3, <2>2
  <2> QED
    BY <1>3, <2>1, <2>3 DEF Passes
<1>5. Does(c, m, n)
  BY <1>1, <1>2, <1>3, <1>4, Zenon DEF Does
<1> QED
  BY <1>5 DEF i

LEMMA DoesBoth ==
  ASSUME NEW a, NEW c, NEW m, NEW n, NEW p, Does(a, m, n), Does(c, n, p)
  PROVE  Does(a \o c, m, p)
<1>1. PICK i, f : ReadsAs(a, i) /\ Passes(m, i, f) /\ f[Len(i)] = n
  BY DEF Does
<1>2. PICK j, g : ReadsAs(c, j) /\ Passes(n, j, g) /\ g[Len(j)] = p
  BY DEF Does
<1>3. ReadsAs(a \o c, i \o j)
  BY <1>1, <1>2, ReadsBoth
<1>4. i \in Seq(Instrs) /\ j \in Seq(Instrs)
  BY <1>1, <1>2 DEF ReadsAs
<1> DEFINE x == Len(i)
           y == Len(j)
           s == i \o j
           e == [k \in 0 .. x + y |-> IF k <= x THEN f[k] ELSE g[k - x]]
<1>5. /\ x \in Nat /\ y \in Nat /\ Len(s) = x + y
      /\ \A k \in 1 .. x : s[k] = i[k]
      /\ \A k \in x + 1 .. x + y : s[k] = j[k - x]
  BY <1>4, SMT
<1> HIDE DEF s
<1>6. f[x] = g[0]
  BY <1>1, <1>2 DEF Passes
<1>7. (\A k \in 0 .. x : e[k] = f[k]) /\ (\A k \in x .. x + y : e[k] = g[k - x])
  <2>1. ASSUME NEW k \in 0 .. x PROVE e[k] = f[k]
    BY <1>5, SMT
  <2>2. ASSUME NEW k \in x .. x + y PROVE e[k] = g[k - x]
    <3>1. CASE k = x
      <4>1. x - x = 0 /\ x \in 0 .. x
        BY <1>5, SMT
      <4> QED
        BY <1>6, <2>1, <3>1, <4>1
    <3>2. CASE k # x
      <4>1. k \in 0 .. x + y /\ ~(k <= x)
        BY <1>5, <3>2, SMT
      <4> QED
        BY <4>1
    <3> QED
      BY <3>1, <3>2
  <2> QED
    BY <2>1, <2>2
<1> HIDE DEF e
<1>8. ASSUME NEW k \in 1 .. Len(s) PROVE e[k] = Step(e[k - 1], s[k])
  <2>1. CASE k <= x
    <3>1. k \in 1 .. x /\ k \in 0 .. x /\ k - 1 \in 0 .. x
      BY <1>5, <2>1, SMT
    <3>2. f[k] = Step(f[k - 1], i[k])
      BY <1>1, <3>1 DEF Passes
    <3> QED
      BY <1>5, <1>7, <3>1, <3>2
  <2>2. CASE ~(k <= x)
    <3>1. /\ k \in x + 1 .. x + y /\ k \in x .. x + y /\ k - 1 \in x .. x + y
          /\ k - x \in 1 .. y /\ (k - 1) - x = (k - x) - 1
      BY <1>5, <2>2, SMT
    <3>2. g[k - x] = Step(g[(k - x) - 1], j[k - x])
      BY <1>2, <3>1 DEF Passes
    <3>3. e[k] = g[k - x] /\ e[k - 1] = g[(k - x) - 1] /\ s[k] = j[k - x]
      BY <1>5, <1>7, <3>1
    <3> QED
      BY <3>2, <3>3
  <2> QED
    BY <2>1, <2>2
<1>9. e[0] = m
  <2>1. 0 \in 0 .. x
    BY <1>5, SMT
  <2> QED
    BY <1>1, <1>7, <2>1 DEF Passes
<1>10. e[Len(s)] = p
  <2>1. x + y \in x .. x + y /\ (x + y) - x = y
    BY <1>5, SMT
  <2> QED
    BY <1>2, <1>5, <1>7, <2>1
<1>11. Passes(m, s, e)
  BY <1>8, <1>9 DEF Passes
<1>12. ReadsAs(a \o c, s)
  BY <1>3 DEF s
<1> QED
  BY <1>10, <1>11, <1>12, Zenon DEF Does

LEMMA DoesThen ==
  ASSUME NEW cmd, NEW rest, NEW m, NEW n, NEW p, cmd # << >>, Does(cmd, m, n), Does(rest, n, p)
  PROVE  Does(Then(cmd, rest), m, p)
BY DoesBoth, Zenon DEF Then

LEMMA NotNothing ==
  ASSUME NEW c, IsInstr(c)
  PROVE  c # << >>
BY SMT DEF IsInstr

(* Bytes read as one instruction.                                          *)
LEMMA DoesRead ==
  ASSUME NEW b \in Seq(Byte), NEW op, op # "bad", NEW dst, NEW src, Reads(b, op, dst, src), NEW m
  PROVE  Does(b, m, Step(m, Instr(op, dst, src, Len(b)))) /\ b # << >>
<1>1. IsInstr(b)
  BY FromReads
<1>2. Decode(b) = Instr(op, dst, src, Len(b))
  BY DEF Reads
<1> QED
  BY <1>1, <1>2, DoesInstr, NotNothing, Zenon

-----------------------------------------------------------------------------
(* The effect of each instruction.                                         *)

StateOf(regs, stack, mem, xmm0, printed, bad) ==
  [regs |-> regs, stack |-> stack, mem |-> mem, xmm0 |-> xmm0, printed |-> printed, bad |-> bad]

State(regs, stack, mem, xmm0, printed) == StateOf(regs, stack, mem, xmm0, printed, FALSE)

LEMMA StateFields ==
  ASSUME NEW R, NEW S, NEW M, NEW X, NEW P
  PROVE  /\ State(R, S, M, X, P).regs = R /\ State(R, S, M, X, P).stack = S
         /\ State(R, S, M, X, P).mem = M /\ State(R, S, M, X, P).xmm0 = X
         /\ State(R, S, M, X, P).printed = P
BY SMT DEF State, StateOf

LEMMA StateSound ==
  ASSUME NEW R, NEW S, NEW M, NEW X, NEW P
  PROVE  State(R, S, M, X, P).bad = FALSE
BY SMT DEF State, StateOf

LEMMA MachineState ==
  ASSUME NEW R, NEW S, NEW M
  PROVE  Machine(R, S, M) = State(R, S, M, 0, << >>)
<1>1. PICK b : b = FALSE
  BY Zenon
<1>2. Machine(R, S, M) = [regs |-> R, stack |-> S, mem |-> M, xmm0 |-> 0, printed |-> << >>, bad |-> b]
  BY <1>1 DEF Machine
<1>3. [regs |-> R, stack |-> S, mem |-> M, xmm0 |-> 0, printed |-> << >>, bad |-> b]
        = StateOf(R, S, M, 0, << >>, b)
  BY DEF StateOf
<1> QED
  BY <1>1, <1>2, <1>3 DEF State

With(regs, r, v) == [regs EXCEPT ![r] = v]

LEMMA InstrFields ==
  ASSUME NEW op, NEW dst, NEW src, NEW len
  PROVE  /\ Instr(op, dst, src, len).op = op /\ Instr(op, dst, src, len).dst = dst
         /\ Instr(op, dst, src, len).src = src /\ Instr(op, dst, src, len).len = len
BY SMT DEF Instr

LEMMA PushedState ==
  ASSUME NEW R, NEW S, NEW M, NEW X, NEW P, NEW v
  PROVE  /\ Pushed(State(R, S, M, X, P), v) = State(R, Append(S, v), M, X, P)
         /\ Printed(State(R, S, M, X, P), v) = State(R, S, M, X, Append(P, v))
<1>1. PICK b : b = FALSE
  BY Zenon
<1>2. Pushed(StateOf(R, S, M, X, P, b), v) = StateOf(R, Append(S, v), M, X, P, b)
  <2>1. StateOf(R, S, M, X, P, b).stack = S
    BY SMT DEF StateOf
  <2>2. \A T : [StateOf(R, S, M, X, P, b) EXCEPT !.stack = T] = StateOf(R, T, M, X, P, b)
    BY SMT DEF StateOf
  <2> QED
    BY <2>1, <2>2, Zenon DEF Pushed
<1>3. Printed(StateOf(R, S, M, X, P, b), v) = StateOf(R, S, M, X, Append(P, v), b)
  <2>1. StateOf(R, S, M, X, P, b).printed = P
    BY SMT DEF StateOf
  <2>2. \A T : [StateOf(R, S, M, X, P, b) EXCEPT !.printed = T] = StateOf(R, S, M, X, T, b)
    BY SMT DEF StateOf
  <2> QED
    BY <2>1, <2>2, Zenon DEF Printed
<1> QED
  BY <1>1, <1>2, <1>3, Zenon DEF State

LEMMA PoppedState ==
  ASSUME NEW R, NEW S, NEW M, NEW X, NEW P
  PROVE  Popped(State(R, S, M, X, P)) = State(R, Front(S), M, X, P)
<1>1. PICK b : b = FALSE
  BY Zenon
<1>2. Popped(StateOf(R, S, M, X, P, b)) = StateOf(R, Front(S), M, X, P, b)
  BY SMT DEF StateOf, Popped
<1> QED
  BY <1>1, <1>2, Zenon DEF State

LEMMA OperandFields ==
  ASSUME NEW r, NEW v
  PROVE  /\ Reg(r).kind = "reg" /\ Reg(r).reg = r
         /\ Mem(r).kind = "mem" /\ Mem(r).reg = r
         /\ Imm(v).kind = "imm" /\ Imm(v).value = v
         /\ "reg" # "mem" /\ "reg" # "imm" /\ "mem" # "imm"
BY SMT DEF Reg, Mem, Imm

LEMMA OperandValues ==
  ASSUME NEW R, NEW S, NEW M, NEW X, NEW P, NEW r, NEW v
  PROVE  /\ Defined(State(R, S, M, X, P), Reg(r)) /\ Value(State(R, S, M, X, P), Reg(r)) = R[r]
         /\ Defined(State(R, S, M, X, P), Imm(v)) /\ Value(State(R, S, M, X, P), Imm(v)) = v
         /\ R[r] \in DOMAIN M <=> Defined(State(R, S, M, X, P), Mem(r))
         /\ Value(State(R, S, M, X, P), Mem(r)) = M[R[r]]
<1> DEFINE m == State(R, S, M, X, P)
<1>2. m.regs = R /\ m.mem = M
  BY StateFields, SMT
<1> HIDE DEF m
<1>3. Reg(r).kind \in {"reg", "imm"} /\ Imm(v).kind \in {"reg", "imm"} /\ Mem(r).kind \notin {"reg", "imm"}
  BY OperandFields
<1>4. Defined(m, Reg(r)) /\ Defined(m, Imm(v)) /\ (R[r] \in DOMAIN M <=> Defined(m, Mem(r)))
  BY <1>2, <1>3, OperandFields, Zenon DEF Defined
<1>5. Value(m, Reg(r)) = R[r] /\ Value(m, Imm(v)) = v /\ Value(m, Mem(r)) = M[R[r]]
  BY <1>2, OperandFields, Zenon DEF Value
<1> QED
  BY <1>4, <1>5, Zenon DEF m

LEMMA RegisterHeld ==
  ASSUME NEW R, NEW S, NEW M, NEW X, NEW P, NEW r
  PROVE  Defined(State(R, S, M, X, P), Reg(r)) /\ Value(State(R, S, M, X, P), Reg(r)) = R[r]
<1> DEFINE v == r
<1> HIDE DEF v
<1>1. /\ Defined(State(R, S, M, X, P), Reg(r)) /\ Value(State(R, S, M, X, P), Reg(r)) = R[r]
      /\ Defined(State(R, S, M, X, P), Imm(v)) /\ Value(State(R, S, M, X, P), Imm(v)) = v
      /\ R[r] \in DOMAIN M <=> Defined(State(R, S, M, X, P), Mem(r))
      /\ Value(State(R, S, M, X, P), Mem(r)) = M[R[r]]
  BY OperandValues
<1> QED
  BY <1>1

LEMMA MemoryHeld ==
  ASSUME NEW R, NEW S, NEW M, NEW X, NEW P, NEW r
  PROVE  /\ R[r] \in DOMAIN M <=> Defined(State(R, S, M, X, P), Mem(r))
         /\ Value(State(R, S, M, X, P), Mem(r)) = M[R[r]]
<1> DEFINE v == r
<1> HIDE DEF v
<1>1. /\ Defined(State(R, S, M, X, P), Reg(r)) /\ Value(State(R, S, M, X, P), Reg(r)) = R[r]
      /\ Defined(State(R, S, M, X, P), Imm(v)) /\ Value(State(R, S, M, X, P), Imm(v)) = v
      /\ R[r] \in DOMAIN M <=> Defined(State(R, S, M, X, P), Mem(r))
      /\ Value(State(R, S, M, X, P), Mem(r)) = M[R[r]]
  BY OperandValues
<1> QED
  BY <1>1

LEMMA ImmediateHeld ==
  ASSUME NEW R, NEW S, NEW M, NEW X, NEW P, NEW v
  PROVE  Defined(State(R, S, M, X, P), Imm(v)) /\ Value(State(R, S, M, X, P), Imm(v)) = v
<1> DEFINE r == v
<1> HIDE DEF r
<1>1. /\ Defined(State(R, S, M, X, P), Reg(r)) /\ Value(State(R, S, M, X, P), Reg(r)) = R[r]
      /\ Defined(State(R, S, M, X, P), Imm(v)) /\ Value(State(R, S, M, X, P), Imm(v)) = v
      /\ R[r] \in DOMAIN M <=> Defined(State(R, S, M, X, P), Mem(r))
      /\ Value(State(R, S, M, X, P), Mem(r)) = M[R[r]]
  BY OperandValues
<1> QED
  BY <1>1

LEMMA StoreValues ==
  ASSUME NEW R, NEW S, NEW M, NEW X, NEW P, NEW r, NEW v
  PROVE  /\ Store(State(R, S, M, X, P), Reg(r), v) = State(With(R, r, v), S, M, X, P)
         /\ Store(State(R, S, M, X, P), Mem(r), v) = State(R, S, Overwrite(M, R[r], v), X, P)
<1>1. PICK b : b = FALSE
  BY Zenon
<1> DEFINE m == StateOf(R, S, M, X, P, b)
<1>2. m.regs = R /\ m.mem = M
  BY SMT DEF StateOf
<1>3. [m EXCEPT !.regs[r] = v] = StateOf([R EXCEPT ![r] = v], S, M, X, P, b)
  BY SMT DEF StateOf
<1>4. \A new : [m EXCEPT !.mem = new] = StateOf(R, S, new, X, P, b)
  BY SMT DEF StateOf
<1> HIDE DEF m
<1>5. Store(m, Reg(r), v) = [m EXCEPT !.regs[r] = v]
  BY OperandFields, Zenon DEF Store
<1>6. Store(m, Mem(r), v) = [m EXCEPT !.mem = Overwrite(m.mem, m.regs[r], v)]
  BY OperandFields, Zenon DEF Store
<1>7. Store(m, Mem(r), v) = StateOf(R, S, Overwrite(M, R[r], v), X, P, b)
  BY <1>2, <1>4, <1>6, Zenon
<1>8. Store(m, Reg(r), v) = StateOf(With(R, r, v), S, M, X, P, b)
  BY <1>3, <1>5, Zenon DEF With
<1> QED
  BY <1>1, <1>7, <1>8, Zenon DEF State, m

(* Which arm of Execute an instruction takes.                              *)
LEMMA AluArm ==
  ASSUME NEW m, NEW i, i.op \in {"mov", "add", "sub"}, Defined(m, i.dst), Defined(m, i.src)
  PROVE  /\ i.op = "mov" => Execute(m, i) = Store(m, i.dst, Value(m, i.src))
         /\ i.op = "add" => Execute(m, i) = Store(m, i.dst, Value(m, i.dst) + Value(m, i.src))
         /\ i.op = "sub" => Execute(m, i) = Store(m, i.dst, Value(m, i.dst) - Value(m, i.src))
BY SMT DEF Execute

LEMMA LoadArm ==
  ASSUME NEW m, NEW i, i.op = "mov32", Defined(m, i.src)
  PROVE  Execute(m, i) = Store(m, i.dst, LowHalf(Value(m, i.src)))
BY SMT DEF Execute

LEMMA PushArm ==
  ASSUME NEW m, NEW i, i.op = "push", Defined(m, i.src)
  PROVE  Execute(m, i) = Pushed(m, Value(m, i.src))
BY SMT DEF Execute

LEMMA PopArm ==
  ASSUME NEW m, NEW i, i.op = "pop", m.stack # << >>, Defined(m, i.dst)
  PROVE  Execute(m, i) = Store(Popped(m), i.dst, Last(m.stack))
BY SMT DEF Execute

LEMMA CallArm ==
  ASSUME NEW m, NEW i, i.op = "call"
  PROVE  Execute(m, i) = Called(m)
BY SMT DEF Execute

LEMMA IdleArm ==
  ASSUME NEW m, NEW i, i.op \in {"cmp", "nop", "jmp", "jb", "jbe", "ja", "jae", "je", "jne"}
  PROVE  Execute(m, i) = m
BY SMT DEF Execute

(* The two results of a multiplication and of a division by v.             *)
Multiplied(m, v) == [m EXCEPT !.regs[rAX] = @ * v, !.regs[rDX] = 0]
Divided(m, v)    == [m EXCEPT !.regs[rAX] = @ \div v, !.regs[rDX] = @ % v]

LEMMA MulArm ==
  ASSUME NEW m, NEW i, i.op = "mul", Defined(m, i.dst)
  PROVE  Execute(m, i) = Multiplied(m, Value(m, i.dst))
BY SMT DEF Execute, Multiplied

LEMMA DivArm ==
  ASSUME NEW m, NEW i, i.op = "div", Defined(m, i.dst), m.regs[rDX] = 0, Value(m, i.dst) > 0
  PROVE  Execute(m, i) = Divided(m, Value(m, i.dst))
BY SMT DEF Execute, Divided

LEMMA RootArms ==
  ASSUME NEW m, NEW i
  PROVE  /\ i.op = "cvtsi2sd" => Execute(m, i) = [m EXCEPT !.xmm0 = m.regs[rAX]]
         /\ i.op = "sqrtsd" /\ m.xmm0 >= 0 => Execute(m, i) = [m EXCEPT !.xmm0 = Isqrt(@)]
         /\ i.op = "cvttsd2si" => Execute(m, i) = [m EXCEPT !.regs[rAX] = m.xmm0]
BY SMT DEF Execute

LEMMA StepExecutes ==
  ASSUME NEW m, NEW i, i.op # "add" \/ i.dst # Reg(4) \/ i.src # Imm(8)
  PROVE  Step(m, i) = Execute(m, i)
BY Zenon DEF Step, IsDropTop

LEMMA StepDrops ==
  ASSUME NEW R, NEW S, NEW M, NEW X, NEW P, S # << >>, NEW len
  PROVE  Step(State(R, S, M, X, P), Instr("add", Reg(4), Imm(8), len)) = State(R, Front(S), M, X, P)
<1> DEFINE m == State(R, S, M, X, P)
           i == Instr("add", Reg(4), Imm(8), len)
<1>1. m.stack = S /\ Popped(m) = State(R, Front(S), M, X, P)
  <2>1. m.stack = S
    BY StateFields, SMT
  <2>2. Popped(m) = State(R, Front(S), M, X, P)
    BY PoppedState
  <2> QED
    BY <2>1, <2>2
<1>2. IsDropTop(i)
  BY InstrFields, SMT DEF IsDropTop
<1> HIDE DEF m, i
<1>3. Step(m, i) = Popped(m)
  BY <1>1, <1>2, Zenon DEF Step
<1> QED
  BY <1>1, <1>3, Zenon DEF m, i

LEMMA StepPop ==
  ASSUME NEW R, NEW S, NEW M, NEW X, NEW P, S # << >>, NEW len, NEW r
  PROVE  /\ Step(State(R, S, M, X, P), Instr("pop", Reg(r), NoOperand, len))
              = State(With(R, r, Last(S)), Front(S), M, X, P)
         /\ R[r] \in DOMAIN M =>
              Step(State(R, S, M, X, P), Instr("pop", Mem(r), NoOperand, len))
                = State(R, Front(S), Overwrite(M, R[r], Last(S)), X, P)
<1> DEFINE m == State(R, S, M, X, P)
<1>1. m.stack = S /\ Popped(m) = State(R, Front(S), M, X, P)
  <2>1. m.stack = S
    BY StateFields, SMT
  <2>2. Popped(m) = State(R, Front(S), M, X, P)
    BY PoppedState
  <2> QED
    BY <2>1, <2>2
<1>2. ASSUME NEW dst, Defined(m, dst)
      PROVE  Step(m, Instr("pop", dst, NoOperand, len)) = Store(Popped(m), dst, Last(S))
  <2> DEFINE i == Instr("pop", dst, NoOperand, len)
  <2>1. i.op = "pop" /\ i.dst = dst /\ "pop" # "add"
    BY InstrFields, SMT
  <2> HIDE DEF i, m
  <2>2. Execute(m, i) = Store(Popped(m), i.dst, Last(m.stack))
    BY <1>1, <1>2, <2>1, PopArm
  <2>3. Step(m, i) = Execute(m, i)
    BY <2>1, StepExecutes
  <2> QED
    BY <1>1, <2>1, <2>2, <2>3, Zenon DEF i
<1>3. Defined(m, Reg(r)) /\ (R[r] \in DOMAIN M => Defined(m, Mem(r)))
  BY RegisterHeld, MemoryHeld
<1>4. /\ Store(State(R, Front(S), M, X, P), Reg(r), Last(S)) = State(With(R, r, Last(S)), Front(S), M, X, P)
      /\ Store(State(R, Front(S), M, X, P), Mem(r), Last(S)) = State(R, Front(S), Overwrite(M, R[r], Last(S)), X, P)
  BY StoreValues
<1> HIDE DEF m
<1>5. Step(m, Instr("pop", Reg(r), NoOperand, len)) = State(With(R, r, Last(S)), Front(S), M, X, P)
  BY <1>1, <1>2, <1>3, <1>4, Zenon
<1>6. R[r] \in DOMAIN M =>
        Step(m, Instr("pop", Mem(r), NoOperand, len)) = State(R, Front(S), Overwrite(M, R[r], Last(S)), X, P)
  BY <1>1, <1>2, <1>3, <1>4, Zenon
<1> QED
  BY <1>5, <1>6, Zenon DEF m

LEMMA StepPush ==
  ASSUME NEW R, NEW S, NEW M, NEW X, NEW P, NEW len, NEW src, Defined(State(R, S, M, X, P), src)
  PROVE  Step(State(R, S, M, X, P), Instr("push", NoOperand, src, len))
           = State(R, Append(S, Value(State(R, S, M, X, P), src)), M, X, P)
<1> DEFINE m == State(R, S, M, X, P)
           i == Instr("push", NoOperand, src, len)
<1>1. Pushed(m, Value(m, src)) = State(R, Append(S, Value(m, src)), M, X, P)
  BY PushedState
<1>2. i.op = "push" /\ i.src = src /\ "push" # "add"
  BY InstrFields, SMT
<1> HIDE DEF i, m
<1>3. Execute(m, i) = Pushed(m, Value(m, src))
  BY <1>2, PushArm DEF m
<1>4. Step(m, i) = Execute(m, i)
  BY <1>2, StepExecutes
<1> QED
  BY <1>1, <1>3, <1>4, Zenon DEF m, i

LEMMA StepAlu ==
  ASSUME NEW R, NEW S, NEW M, NEW X, NEW P, NEW len, NEW src, Defined(State(R, S, M, X, P), src),
         NEW d, d # 4
  PROVE  LET m == State(R, S, M, X, P)
             v == Value(m, src)
         IN  /\ Step(m, Instr("mov", Reg(d), src, len)) = State(With(R, d, v), S, M, X, P)
             /\ Step(m, Instr("add", Reg(d), src, len)) = State(With(R, d, R[d] + v), S, M, X, P)
             /\ Step(m, Instr("sub", Reg(d), src, len)) = State(With(R, d, R[d] - v), S, M, X, P)
             /\ Step(m, Instr("mov32", Reg(d), src, len)) = State(With(R, d, LowHalf(v)), S, M, X, P)
<1> DEFINE m == State(R, S, M, X, P)
           v == Value(m, src)
<1>1. Defined(m, Reg(d)) /\ Value(m, Reg(d)) = R[d]
  BY RegisterHeld
<1>2. \A w : Store(m, Reg(d), w) = State(With(R, d, w), S, M, X, P)
  BY StoreValues
<1>3. Reg(d) # Reg(4)
  BY SMT DEF Reg
<1> HIDE DEF m
<1>4. ASSUME NEW op
      PROVE  Step(m, Instr(op, Reg(d), src, len)) = Execute(m, Instr(op, Reg(d), src, len))
  BY <1>3, InstrFields, StepExecutes
<1>5. Execute(m, Instr("mov", Reg(d), src, len)) = Store(m, Reg(d), v)
  <2> DEFINE i == Instr("mov", Reg(d), src, len)
  <2>1. i.op = "mov" /\ i.dst = Reg(d) /\ i.src = src
    BY InstrFields
  <2> HIDE DEF i
  <2>2. i.op \in {"mov", "add", "sub"} /\ Defined(m, i.dst) /\ Defined(m, i.src)
    BY <1>1, <2>1 DEF m
  <2>3. Execute(m, i) = Store(m, i.dst, Value(m, i.src))
    BY <2>1, <2>2, AluArm
  <2> QED
    BY <1>1, <2>1, <2>3 DEF i
<1>6. Execute(m, Instr("mov32", Reg(d), src, len)) = Store(m, Reg(d), LowHalf(v))
  <2> DEFINE i == Instr("mov32", Reg(d), src, len)
  <2>1. i.op = "mov32" /\ i.dst = Reg(d) /\ i.src = src
    BY InstrFields
  <2> HIDE DEF i
  <2>2. Execute(m, i) = Store(m, i.dst, LowHalf(Value(m, i.src)))
    BY <2>1, LoadArm DEF m
  <2> QED
    BY <2>1, <2>2 DEF i
<1>7. Execute(m, Instr("add", Reg(d), src, len)) = Store(m, Reg(d), R[d] + v)
  <2> DEFINE i == Instr("add", Reg(d), src, len)
  <2>1. i.op = "add" /\ i.dst = Reg(d) /\ i.src = src
    BY InstrFields
  <2> HIDE DEF i
  <2>2. i.op \in {"mov", "add", "sub"} /\ Defined(m, i.dst) /\ Defined(m, i.src)
    BY <1>1, <2>1 DEF m
  <2>3. Execute(m, i) = Store(m, i.dst, Value(m, i.dst) + Value(m, i.src))
    BY <2>1, <2>2, AluArm
  <2> QED
    BY <1>1, <2>1, <2>3 DEF i
<1>8. Execute(m, Instr("sub", Reg(d), src, len)) = Store(m, Reg(d), R[d] - v)
  <2> DEFINE i == Instr("sub", Reg(d), src, len)
  <2>1. i.op = "sub" /\ i.dst = Reg(d) /\ i.src = src
    BY InstrFields
  <2> HIDE DEF i
  <2>2. i.op \in {"mov", "add", "sub"} /\ Defined(m, i.dst) /\ Defined(m, i.src)
    BY <1>1, <2>1 DEF m
  <2>3. Execute(m, i) = Store(m, i.dst, Value(m, i.dst) - Value(m, i.src))
    BY <2>1, <2>2, AluArm
  <2> QED
    BY <1>1, <2>1, <2>3 DEF i
<1> HIDE DEF v
<1> QED
  BY <1>2, <1>4, <1>5, <1>6, <1>7, <1>8, Zenon DEF m, v

LEMMA StepIdle ==
  ASSUME NEW m, NEW op \in {"cmp", "nop", "jmp", "jb", "jbe", "ja", "jae", "je", "jne"},
         NEW dst, NEW src, NEW len
  PROVE  Step(m, Instr(op, dst, src, len)) = m
<1> DEFINE i == Instr(op, dst, src, len)
<1>1. i.op = op /\ op # "add"
  BY InstrFields, SMT
<1> HIDE DEF i
<1>2. Execute(m, i) = m
  BY <1>1, IdleArm
<1> QED
  BY <1>1, <1>2, StepExecutes DEF i

AfterCall(regs) == [r \in DOMAIN regs |-> IF r \in CallerSaved THEN Junk ELSE regs[r]]

LEMMA StepCall ==
  ASSUME NEW R, NEW S, NEW M, NEW X, NEW P, NEW dst, NEW src, NEW len
  PROVE  Step(State(R, S, M, X, P), Instr("call", dst, src, len))
           = State(AfterCall(R), S, M, X, Append(P, R[rDI]))
<1> DEFINE i == Instr("call", dst, src, len)
           m == State(R, S, M, X, P)
<1>1. i.op = "call" /\ i.op # "add"
  BY InstrFields, SMT
<1>2. m.regs = R
  BY StateFields, SMT
<1>3. Printed(m, R[rDI]) = State(R, S, M, X, Append(P, R[rDI]))
  BY PushedState
<1> HIDE DEF i, m
<1>4. Execute(m, i) = Called(m)
  BY <1>1, CallArm
<1>5. PICK b : b = FALSE
  BY Zenon
<1> DEFINE Q == Append(P, R[rDI])
           p == StateOf(R, S, M, X, Q, b)
<1>6. Printed(m, m.regs[rDI]) = p
  BY <1>2, <1>3, <1>5, Zenon DEF State
<1> HIDE DEF Q
<1>7. p.regs = R /\ \A new : [p EXCEPT !.regs = new] = StateOf(new, S, M, X, Q, b)
  <2>1. p.regs = R
    BY SMT DEF StateOf
  <2>2. \A new : [p EXCEPT !.regs = new] = StateOf(new, S, M, X, Q, b)
    BY SMT DEF StateOf
  <2> QED
    BY <2>1, <2>2
<1> HIDE DEF p
<1>8. Called(m) = [p EXCEPT !.regs = [r \in DOMAIN p.regs |-> IF r \in CallerSaved THEN Junk ELSE p.regs[r]]]
  BY <1>6, Zenon DEF Called
<1>9. Called(m) = StateOf(AfterCall(R), S, M, X, Q, b)
  BY <1>7, <1>8, Zenon DEF AfterCall
<1>10. Step(m, i) = Called(m)
  BY <1>1, <1>4, StepExecutes
<1> QED
  BY <1>5, <1>9, <1>10, Zenon DEF m, i, Q, State

LEMMA WithRead ==
  ASSUME NEW R, NEW r \in DOMAIN R, NEW v
  PROVE  /\ DOMAIN With(R, r, v) = DOMAIN R
         /\ With(R, r, v)[r] = v
         /\ \A q \in DOMAIN R : q # r => With(R, r, v)[q] = R[q]
BY SMT DEF With

LEMMA RegsReplaced ==
  ASSUME NEW R, NEW S, NEW M, NEW X, NEW P, NEW b, NEW r, NEW v
  PROVE  /\ [StateOf(R, S, M, X, P, b) EXCEPT !.regs = [StateOf(R, S, M, X, P, b).regs EXCEPT ![r] = v]]
              = StateOf(With(R, r, v), S, M, X, P, b)
         /\ StateOf(R, S, M, X, P, b).regs = R
BY SMT DEF StateOf, With

LEMMA MultipliedState ==
  ASSUME NEW R, NEW S, NEW M, NEW X, NEW P, NEW v
  PROVE  Multiplied(State(R, S, M, X, P), v) = State(With(With(R, rAX, R[rAX] * v), rDX, 0), S, M, X, P)
<1>1. PICK b : b = FALSE
  BY Zenon
<1> DEFINE m == StateOf(R, S, M, X, P, b)
           n == [m EXCEPT !.regs = [m.regs EXCEPT ![rAX] = m.regs[rAX] * v]]
<1>2. Multiplied(m, v) = [n EXCEPT !.regs = [n.regs EXCEPT ![rDX] = 0]]
  BY Zenon DEF Multiplied
<1>3. n = StateOf(With(R, rAX, R[rAX] * v), S, M, X, P, b)
  BY RegsReplaced
<1> HIDE DEF n
<1>4. [n EXCEPT !.regs = [n.regs EXCEPT ![rDX] = 0]] = StateOf(With(With(R, rAX, R[rAX] * v), rDX, 0), S, M, X, P, b)
  BY <1>3, RegsReplaced
<1> QED
  BY <1>1, <1>2, <1>4, Zenon DEF State

LEMMA DividedState ==
  ASSUME NEW R, NEW S, NEW M, NEW X, NEW P, NEW v
  PROVE  \E r : Divided(State(R, S, M, X, P), v) = State(With(With(R, rAX, R[rAX] \div v), rDX, r), S, M, X, P)
<1>1. PICK b : b = FALSE
  BY Zenon
<1> DEFINE m == StateOf(R, S, M, X, P, b)
           n == [m EXCEPT !.regs = [m.regs EXCEPT ![rAX] = m.regs[rAX] \div v]]
           r == m.regs[rDX] % v
<1>2. Divided(m, v) = [n EXCEPT !.regs = [n.regs EXCEPT ![rDX] = m.regs[rDX] % v]]
  BY Zenon DEF Divided
<1>3. n = StateOf(With(R, rAX, R[rAX] \div v), S, M, X, P, b)
  BY RegsReplaced
<1> HIDE DEF n
<1> HIDE DEF r
<1>4. [n EXCEPT !.regs = [n.regs EXCEPT ![rDX] = r]] = StateOf(With(With(R, rAX, R[rAX] \div v), rDX, r), S, M, X, P, b)
  BY <1>3, RegsReplaced
<1>5. Divided(m, v) = [n EXCEPT !.regs = [n.regs EXCEPT ![rDX] = r]]
  BY <1>2, Zenon DEF r
<1> QED
  BY <1>1, <1>4, <1>5, Zenon DEF State

LEMMA StepMul ==
  ASSUME NEW R, NEW S, NEW M, NEW X, NEW P, NEW d, NEW len
  PROVE  Step(State(R, S, M, X, P), Instr("mul", Reg(d), NoOperand, len))
           = State(With(With(R, rAX, R[rAX] * R[d]), rDX, 0), S, M, X, P)
<1> DEFINE i == Instr("mul", Reg(d), NoOperand, len)
           m == State(R, S, M, X, P)
<1>1. i.op = "mul" /\ i.op # "add" /\ i.dst = Reg(d)
  BY InstrFields, SMT
<1>2. Defined(m, Reg(d)) /\ Value(m, Reg(d)) = R[d]
  BY RegisterHeld
<1>3. Multiplied(m, R[d]) = State(With(With(R, rAX, R[rAX] * R[d]), rDX, 0), S, M, X, P)
  BY MultipliedState
<1> HIDE DEF i, m
<1>4. Execute(m, i) = Multiplied(m, Value(m, i.dst))
  BY <1>1, <1>2, MulArm
<1>5. Step(m, i) = Execute(m, i)
  BY <1>1, StepExecutes
<1> QED
  BY <1>1, <1>2, <1>3, <1>4, <1>5, Zenon DEF m, i

LEMMA StepDiv ==
  ASSUME NEW R, NEW S, NEW M, NEW X, NEW P, NEW d, NEW len, R[rDX] = 0, R[d] > 0
  PROVE  \E r : Step(State(R, S, M, X, P), Instr("div", Reg(d), NoOperand, len))
           = State(With(With(R, rAX, R[rAX] \div R[d]), rDX, r), S, M, X, P)
<1> DEFINE i == Instr("div", Reg(d), NoOperand, len)
           m == State(R, S, M, X, P)
<1>1. i.op = "div" /\ i.op # "add" /\ i.dst = Reg(d)
  BY InstrFields, SMT
<1>2. Defined(m, Reg(d)) /\ Value(m, Reg(d)) = R[d]
  BY RegisterHeld
<1>3. m.regs = R
  BY StateFields, SMT
<1>4. \E r : Divided(m, R[d]) = State(With(With(R, rAX, R[rAX] \div R[d]), rDX, r), S, M, X, P)
  BY DividedState
<1> HIDE DEF i, m
<1>5. Execute(m, i) = Divided(m, Value(m, i.dst))
  BY <1>1, <1>2, <1>3, DivArm
<1>6. Step(m, i) = Execute(m, i)
  BY <1>1, StepExecutes
<1> QED
  BY <1>1, <1>2, <1>4, <1>5, <1>6, Zenon DEF m, i

LEMMA StepRoot ==
  ASSUME NEW R, NEW S, NEW M, NEW X, NEW P, NEW dst, NEW src, NEW len
  PROVE  /\ Step(State(R, S, M, X, P), Instr("cvtsi2sd", dst, src, len)) = State(R, S, M, R[rAX], P)
         /\ X >= 0 =>
              Step(State(R, S, M, X, P), Instr("sqrtsd", dst, src, len)) = State(R, S, M, Isqrt(X), P)
         /\ Step(State(R, S, M, X, P), Instr("cvttsd2si", dst, src, len)) = State(With(R, rAX, X), S, M, X, P)
<1> DEFINE m == State(R, S, M, X, P)
<1>1. PICK b : b = FALSE
  BY Zenon
<1>2. m = StateOf(R, S, M, X, P, b)
  BY <1>1 DEF State
<1>3. m.regs = R /\ m.xmm0 = X
  BY StateFields, SMT
<1> HIDE DEF m
<1>4. /\ \A v : [StateOf(R, S, M, X, P, b) EXCEPT !.xmm0 = v] = StateOf(R, S, M, v, P, b)
      /\ \A v : [StateOf(R, S, M, X, P, b) EXCEPT !.regs[rAX] = v] = StateOf(With(R, rAX, v), S, M, X, P, b)
  BY SMT DEF StateOf, With
<1>5. ASSUME NEW op, op \in {"cvtsi2sd", "sqrtsd", "cvttsd2si"}
      PROVE  /\ Instr(op, dst, src, len).op = op
             /\ Step(m, Instr(op, dst, src, len)) = Execute(m, Instr(op, dst, src, len))
  <2>1. op # "add"
    BY <1>5, SMT
  <2>2. Instr(op, dst, src, len).op = op
    BY InstrFields
  <2> QED
    BY <2>1, <2>2, StepExecutes
<1>6. Step(m, Instr("cvtsi2sd", dst, src, len)) = State(R, S, M, R[rAX], P)
  <2>1. Execute(m, Instr("cvtsi2sd", dst, src, len)) = [m EXCEPT !.xmm0 = m.regs[rAX]]
    BY <1>5, RootArms, Zenon
  <2> QED
    BY <1>1, <1>2, <1>3, <1>4, <1>5, <2>1, Zenon DEF State
<1>7. X >= 0 => Step(m, Instr("sqrtsd", dst, src, len)) = State(R, S, M, Isqrt(X), P)
  <2> HAVE X >= 0
  <2>1. Execute(m, Instr("sqrtsd", dst, src, len)) = [m EXCEPT !.xmm0 = Isqrt(m.xmm0)]
    BY <1>3, <1>5, RootArms, Zenon
  <2> QED
    BY <1>1, <1>2, <1>3, <1>4, <1>5, <2>1, Zenon DEF State
<1>8. Step(m, Instr("cvttsd2si", dst, src, len)) = State(With(R, rAX, X), S, M, X, P)
  <2>1. Execute(m, Instr("cvttsd2si", dst, src, len)) = [m EXCEPT !.regs[rAX] = m.xmm0]
    BY <1>5, RootArms, Zenon
  <2> QED
    BY <1>1, <1>2, <1>3, <1>4, <1>5, <2>1, Zenon DEF State
<1> QED
  BY <1>6, <1>7, <1>8 DEF m

-----------------------------------------------------------------------------
(* What the code of a request does.                                        *)

LEMMA LowOperands ==
  ASSUME NEW r \in Octals
  PROVE  TheRm(r, FALSE) = Reg(r) /\ TheRm(r, TRUE) = Mem(r)
<1>1. TheReg(r) = Reg(r)
  BY OctalRegisters, Zenon DEF TheReg
<1>2. Reg(r).reg = r
  BY OperandFields
<1> QED
  BY <1>1, <1>2, Zenon DEF TheRm

(* Bytes that are not none and take m to n.                                *)
Takes(b, m, n) == b # << >> /\ Does(b, m, n)

LEMMA TakesRead ==
  ASSUME NEW b \in Seq(Byte), NEW op, op # "bad", NEW dst, NEW src, Reads(b, op, dst, src),
         NEW m, NEW n, Step(m, Instr(op, dst, src, Len(b))) = n
  PROVE  Takes(b, m, n)
BY DoesRead, Zenon DEF Takes

LEMMA TakesThen ==
  ASSUME NEW cmd, NEW rest, NEW m, NEW n, NEW p, Takes(cmd, m, n), Takes(rest, n, p)
  PROVE  Does(Then(cmd, rest), m, p)
BY DoesThen, Zenon DEF Takes

LEMMA TakesPushPop ==
  ASSUME NEW r \in Octals, NEW R, NEW S, NEW M, NEW X, NEW P
  PROVE  /\ Takes(PushReg(r), State(R, S, M, X, P), State(R, Append(S, R[r]), M, X, P))
         /\ S # << >> =>
              Takes(PopReg(r), State(R, S, M, X, P), State(With(R, r, Last(S)), Front(S), M, X, P))
<1> DEFINE m == State(R, S, M, X, P)
           push == << \h50 + r >>
           pop  == << \h58 + r >>
<1>1. r \in Octal /\ r + 0 = r /\ 0 \in {0, 8}
  BY SMT DEF Octals, Octal
<1>2. HighPrefix(0) \o push = push /\ HighPrefix(0) \o pop = pop
  BY SMT DEF HighPrefix
<1>3. PushReg(r) = push /\ PopReg(r) = pop
  BY PushPopRegBytes DEF Octals
<1>4. push \in Seq(Byte) /\ pop \in Seq(Byte)
  BY SMT DEF Octals, Byte
<1>5. Reads(push, "push", NoOperand, Reg(r)) /\ Reads(pop, "pop", Reg(r), NoOperand)
  BY <1>1, <1>2, RegFormRead
<1> HIDE DEF push, pop
<1>6. Defined(m, Reg(r)) /\ Value(m, Reg(r)) = R[r]
  BY RegisterHeld
<1>7. Takes(push, m, State(R, Append(S, R[r]), M, X, P))
  <2>1. Step(m, Instr("push", NoOperand, Reg(r), Len(push))) = State(R, Append(S, R[r]), M, X, P)
    BY <1>6, StepPush
  <2> QED
    BY <1>4, <1>5, <2>1, NotBad, TakesRead
<1>8. ASSUME S # << >>
      PROVE  Takes(pop, m, State(With(R, r, Last(S)), Front(S), M, X, P))
  <2>1. Step(m, Instr("pop", Reg(r), NoOperand, Len(pop))) = State(With(R, r, Last(S)), Front(S), M, X, P)
    BY <1>8, StepPop
  <2> QED
    BY <1>4, <1>5, <2>1, NotBad, TakesRead
<1> QED
  BY <1>3, <1>7, <1>8

(* A request encoded as asked reads as what it names.                      *)
LEMMA RequestRead ==
  ASSUME NEW info \in Infos(Ints), Right(info), NEW w, NEW dst, NEW src,
         Intended(info) = << w, dst, src >>
  PROVE  \E op : /\ SameOp(op, w, src) /\ op # "bad"
                 /\ encode_cmd(info) \in Seq(Byte) /\ Reads(encode_cmd(info), op, dst, src)
<1>1. encode_cmd(info) \in Seq(Byte)
  BY IntsAreIntegers, CmdsFit, BytesAreSeq, Zenon
<1>2. Intended(info)[1] = w /\ Intended(info)[2] = dst /\ Intended(info)[3] = src
  BY SMT
<1>3. PICK op : SameOp(op, w, src) /\ Reads(encode_cmd(info), op, dst, src)
  BY <1>2, Zenon DEF Right
<1>4. op # "bad"
  BY <1>2, <1>3, NamedOps, SMT DEF SameOp
<1> QED
  BY <1>1, <1>3, <1>4, Zenon

(* mov, add and sub with a low register.                                   *)
OperandOf(src, v, fromMemory) ==
  IF src = INVALID_REG THEN Imm(v) ELSE IF fromMemory THEN Mem(src) ELSE Reg(src)

ResultOf(cmd, a, v) == IF cmd = MOV THEN v ELSE IF cmd = ADD THEN a + v ELSE a - v

LEMMA OperandsAsked ==
  ASSUME NEW info \in Infos(Ints), info.cmd_encode \in {MOV, ADD, SUB}, info.dest_reg \in Octals,
         info.src_reg \in Octals \cup {INVALID_REG}, ~info.use_memory4dest,
         info.use_memory4src => info.src_reg \in 0..3,
         info.cmd_encode = MOV /\ info.src_reg = INVALID_REG => info.immed_val # -1
  PROVE  /\ Right(info)
         /\ Intended(info) = << Names[info.cmd_encode], Reg(info.dest_reg),
                                OperandOf(info.src_reg, info.immed_val, info.use_memory4src) >>
<1> DEFINE cmd  == info.cmd_encode
           dest == info.dest_reg
           src  == info.src_reg
           operand == OperandOf(src, info.immed_val, info.use_memory4src)
<1>1. PICK to, from : to = info.use_memory4dest /\ from = info.use_memory4src
  BY Zenon
<1>2. to = FALSE /\ from \in BOOLEAN
  BY <1>1, Fields, Zenon
<1>3. dest # INVALID_REG /\ ~IsHigh(dest) /\ ~IsHigh(src)
  BY OctalRegisters
<1>4. src \in 0..3 => src # INVALID_REG /\ ~NeedsMore(src)
  BY OctalRegisters, SMT DEF INVALID_REG
<1>5. HasDest(info) /\ (HasSrc(info) <=> src # INVALID_REG)
  BY <1>3, Zenon DEF HasDest, HasSrc
<1>6. Meaningful(info)
  BY <1>4, <1>5, Distinct, Zenon DEF Meaningful
<1>7. cmd # PUSH
  BY Distinct, Zenon
<1>8. Right(info)
  BY <1>3, <1>4, <1>5, <1>6, <1>7, SmallRight, Zenon
<1>9. TheRm(dest, to) = Reg(dest)
  BY <1>2, LowOperands
<1>10. src # INVALID_REG => TheRm(src, from) = operand
  <2>1. (from = TRUE \/ from = FALSE) /\ (src # INVALID_REG => src \in Octals)
    BY <1>2, Zenon
  <2> QED
    BY <1>1, <2>1, LowOperands, Zenon DEF OperandOf
<1>11. src = INVALID_REG => Imm(info.immed_val) = operand
  BY Zenon DEF OperandOf
<1> HIDE DEF operand
<1>12. Intended(info) = << Names[cmd], Reg(dest), operand >>
  <2>1. CASE src # INVALID_REG
    <3>1. Intended(info) = << Names[cmd], TheRm(dest, info.use_memory4dest), TheRm(src, info.use_memory4src) >>
      BY <1>5, <2>1, IntendedTwo
    <3> QED
      BY <1>1, <1>9, <1>10, <2>1, <3>1, Zenon
  <2>2. CASE src = INVALID_REG
    <3>1. Intended(info) = << Names[cmd], TheRm(dest, info.use_memory4dest), Imm(info.immed_val) >>
      BY <1>5, <2>2, IntendedTwo
    <3> QED
      BY <1>1, <1>9, <1>11, <2>2, <3>1, Zenon
  <2> QED
    BY <2>1, <2>2
<1> QED
  BY <1>8, <1>12 DEF operand

LEMMA NamesRead ==
  /\ Names[MOV] = "mov" /\ Names[ADD] = "add" /\ Names[SUB] = "sub"
  /\ Names[MUL] = "mul" /\ Names[DIV] = "div"
BY SMT DEF Names, MOV, ADD, SUB, MUL, DIV

LEMMA TakesOperand ==
  ASSUME NEW cmd \in {MOV, ADD, SUB}, NEW dest \in {RAX, RDI}, NEW src \in Octals \cup {INVALID_REG},
         NEW v \in Ints, NEW fromMemory \in BOOLEAN, fromMemory => src \in 0..3,
         cmd = MOV /\ src = INVALID_REG => v >= 0,
         NEW info, Asks(info, cmd, dest, src, v, FALSE, fromMemory),
         NEW R, NEW S, NEW M, NEW X, NEW P,
         Defined(State(R, S, M, X, P), OperandOf(src, v, fromMemory)),
         NEW u, Value(State(R, S, M, X, P), OperandOf(src, v, fromMemory)) = u
  PROVE  Takes(encode_cmd(info), State(R, S, M, X, P), State(With(R, dest, ResultOf(cmd, R[dest], u)), S, M, X, P))
<1> DEFINE m == State(R, S, M, X, P)
           operand == OperandOf(src, v, fromMemory)
           b == encode_cmd(info)
<1>1. dest \in Octals /\ dest # 4
  BY SMT DEF Octals, RAX, RDI
<1>2. v \in Int
  BY ValueRange
<1>3. cmd = MOV /\ src = INVALID_REG => v # -1
  BY <1>2, SMT
<1>4. Right(info) /\ Intended(info) = << Names[cmd], Reg(dest), operand >> /\ info \in Infos(Ints)
  <2>1. /\ info \in Infos(Ints) /\ info.cmd_encode = cmd /\ info.dest_reg = dest /\ info.src_reg = src
        /\ info.immed_val = v /\ info.use_memory4dest = FALSE /\ info.use_memory4src = fromMemory
    BY DEF Asks
  <2>2. Right(info) /\ Intended(info) = << Names[info.cmd_encode], Reg(info.dest_reg),
                          OperandOf(info.src_reg, info.immed_val, info.use_memory4src) >>
    <3> HIDE DEF m, b
    <3> QED
      BY <1>1, <1>3, <2>1, OperandsAsked, Zenon
  <2> QED
    BY <2>1, <2>2, Zenon
<1>5. PICK op : /\ SameOp(op, Names[cmd], operand) /\ op # "bad"
                /\ b \in Seq(Byte) /\ Reads(b, op, Reg(dest), operand)
  BY <1>4, RequestRead
<1> HIDE DEF b
<1>6. LET i(name) == Step(m, Instr(name, Reg(dest), operand, Len(b)))
      IN  /\ i("mov") = State(With(R, dest, u), S, M, X, P)
          /\ i("add") = State(With(R, dest, R[dest] + u), S, M, X, P)
          /\ i("sub") = State(With(R, dest, R[dest] - u), S, M, X, P)
          /\ i("mov32") = State(With(R, dest, LowHalf(u)), S, M, X, P)
  BY <1>1, StepAlu
<1>7. op = Names[cmd] \/ (op = "mov32" /\ cmd = MOV /\ u \in Int /\ u >= 0)
  <2>1. CASE op = Names[cmd]
    BY <2>1
  <2>2. CASE op # Names[cmd]
    <3>1. op = "mov32" /\ Names[cmd] = "mov" /\ operand.kind = "imm"
      BY <1>5, <2>2, Zenon DEF SameOp
    <3>2. "add" # "mov" /\ "sub" # "mov"
      BY SMT
    <3>3. cmd = MOV
      BY <3>1, <3>2, NamesRead
    <3>4. src = INVALID_REG
      BY <3>1, OperandFields, Zenon DEF OperandOf
    <3>5. u = v
      BY <3>4, OperandValues DEF OperandOf
    <3> QED
      BY <1>2, <3>1, <3>3, <3>4, <3>5
  <2> QED
    BY <2>1, <2>2
<1>8. Step(m, Instr(op, Reg(dest), operand, Len(b))) = State(With(R, dest, ResultOf(cmd, R[dest], u)), S, M, X, P)
  <2>1. CASE op = "mov32" /\ cmd = MOV /\ u \in Int /\ u >= 0
    <3>1. LowHalf(u) = u
      BY <2>1, SMT DEF LowHalf
    <3>2. ResultOf(cmd, R[dest], u) = u
      BY <2>1, Zenon DEF ResultOf
    <3> QED
      BY <1>6, <2>1, <3>1, <3>2
  <2>2. CASE cmd = MOV /\ op = Names[cmd]
    <3>1. ResultOf(cmd, R[dest], u) = u
      BY <2>2, Zenon DEF ResultOf
    <3> QED
      BY <1>6, <2>2, <3>1, NamesRead
  <2>3. CASE cmd = ADD /\ op = Names[cmd]
    <3>1. ResultOf(cmd, R[dest], u) = R[dest] + u
      BY <2>3, Distinct, Zenon DEF ResultOf
    <3> QED
      BY <1>6, <2>3, <3>1, NamesRead
  <2>4. CASE cmd = SUB /\ op = Names[cmd]
    <3>1. ResultOf(cmd, R[dest], u) = R[dest] - u
      BY <2>4, Distinct, Zenon DEF ResultOf
    <3> QED
      BY <1>6, <2>4, <3>1, NamesRead
  <2> QED
    BY <1>7, <2>1, <2>2, <2>3, <2>4
<1> QED
  BY <1>5, <1>8, TakesRead DEF b

(* push and pop of a register or of the word it points to, with the prefix *)
(* of a high one.                                                          *)
RegPush(h, d) == HighPrefix(h) \o << \h50 + d >>
RegPop(h, d)  == HighPrefix(h) \o << \h58 + d >>
MemPush(h, d) == HighPrefix(h) \o << \hFF, \h30 + d >>
MemPop(h, d)  == HighPrefix(h) \o << \h8F, d >>

LEMMA TakesForms ==
  ASSUME NEW h \in {0, 8}, NEW d \in 0..3, NEW q, q = d + h, NEW R, NEW S, NEW M, NEW X, NEW P
  PROVE  LET m == State(R, S, M, X, P)
         IN  /\ Takes(RegPush(h, d), m, State(R, Append(S, R[q]), M, X, P))
             /\ S # << >> =>
                  Takes(RegPop(h, d), m, State(With(R, q, Last(S)), Front(S), M, X, P))
             /\ R[q] \in DOMAIN M =>
                  Takes(MemPush(h, d), m, State(R, Append(S, M[R[q]]), M, X, P))
             /\ R[q] \in DOMAIN M /\ S # << >> =>
                  Takes(MemPop(h, d), m, State(R, Front(S), Overwrite(M, R[q], Last(S)), X, P))
<1> DEFINE m == State(R, S, M, X, P)
           a == HighPrefix(h) \o << \h50 + d >>
           b == HighPrefix(h) \o << \h58 + d >>
           c == HighPrefix(h) \o << \hFF, \h30 + d >>
           e == HighPrefix(h) \o << \h8F, d >>
<1>1. d \in Octal /\ d # 4 /\ d # 5
  BY SMT DEF Octal
<1>2. a \in Seq(Byte) /\ b \in Seq(Byte) /\ c \in Seq(Byte) /\ e \in Seq(Byte)
  <2>1. << \h50 + d >> \in Seq(Byte) /\ << \h58 + d >> \in Seq(Byte)
    BY SMT DEF Byte
  <2>2. << \hFF, \h30 + d >> \in Seq(Byte) /\ << \h8F, d >> \in Seq(Byte)
    BY SMT DEF Byte
  <2> QED
    BY <2>1, <2>2, PrefixedBytes, ZenonT(40)
<1>3. Reads(a, "push", NoOperand, Reg(q)) /\ Reads(b, "pop", Reg(q), NoOperand)
  BY <1>1, RegFormRead
<1>4. Reads(c, "push", NoOperand, Mem(q)) /\ Reads(e, "pop", Mem(q), NoOperand)
  BY <1>1, MemoryFormRead
<1> HIDE DEF a, b, c, e
<1>5. /\ Defined(m, Reg(q)) /\ Value(m, Reg(q)) = R[q]
      /\ R[q] \in DOMAIN M => Defined(m, Mem(q))
      /\ Value(m, Mem(q)) = M[R[q]]
  BY RegisterHeld, MemoryHeld
<1>6. Takes(a, m, State(R, Append(S, R[q]), M, X, P))
  <2>1. Step(m, Instr("push", NoOperand, Reg(q), Len(a))) = State(R, Append(S, R[q]), M, X, P)
    BY <1>5, StepPush
  <2> QED
    BY <1>2, <1>3, <2>1, NotBad, TakesRead
<1>7. ASSUME S # << >>
      PROVE  Takes(b, m, State(With(R, q, Last(S)), Front(S), M, X, P))
  <2>1. Step(m, Instr("pop", Reg(q), NoOperand, Len(b))) = State(With(R, q, Last(S)), Front(S), M, X, P)
    BY <1>7, StepPop
  <2> QED
    BY <1>2, <1>3, <2>1, NotBad, TakesRead
<1>8. ASSUME R[q] \in DOMAIN M
      PROVE  Takes(c, m, State(R, Append(S, M[R[q]]), M, X, P))
  <2>1. Step(m, Instr("push", NoOperand, Mem(q), Len(c))) = State(R, Append(S, M[R[q]]), M, X, P)
    BY <1>5, <1>8, StepPush
  <2> QED
    BY <1>2, <1>4, <2>1, NotBad, TakesRead
<1>9. ASSUME R[q] \in DOMAIN M, S # << >>
      PROVE  Takes(e, m, State(R, Front(S), Overwrite(M, R[q], Last(S)), X, P))
  <2>1. Step(m, Instr("pop", Mem(q), NoOperand, Len(e))) = State(R, Front(S), Overwrite(M, R[q], Last(S)), X, P)
    BY <1>9, StepPop
  <2> QED
    BY <1>2, <1>4, <2>1, NotBad, TakesRead
<1> QED
  BY <1>6, <1>7, <1>8, <1>9 DEF a, b, c, e, RegPush, RegPop, MemPush, MemPop

LEMMA TakesPushed ==
  ASSUME NEW v \in Ints, v >= -127, NEW R, NEW S, NEW M, NEW X, NEW P
  PROVE  Takes(<< IF v <= ASCII_MAX_SYMBOL THEN \h6A ELSE \h68 >> \o NumberBytes(v),
               State(R, S, M, X, P), State(R, Append(S, v), M, X, P))
<1> DEFINE m == State(R, S, M, X, P)
           result == << IF v <= ASCII_MAX_SYMBOL THEN \h6A ELSE \h68 >> \o NumberBytes(v)
<1>1. v \in Int
  BY ValueRange
<1>2. Defined(m, Imm(v)) /\ Value(m, Imm(v)) = v
  BY ImmediateHeld
<1>3. ASSUME NEW b \in Seq(Byte), Reads(b, "push", NoOperand, Imm(v))
      PROVE  Takes(b, m, State(R, Append(S, v), M, X, P))
  <2>1. Step(m, Instr("push", NoOperand, Imm(v), Len(b))) = State(R, Append(S, v), M, X, P)
    BY <1>2, StepPush
  <2> QED
    BY <1>3, <2>1, NotBad, TakesRead
<1> HIDE DEF m
<1>4. result \in Seq(Byte) /\ Reads(result, "push", NoOperand, Imm(v))
  <2>1. CASE v <= 127
    <3>1. get_sizeof_number2write(v) = 1 /\ v <= ASCII_MAX_SYMBOL
      BY <1>1, <2>1, SMT DEF get_sizeof_number2write, ASCII_MAX_SYMBOL
    <3>2. NumberBytes(v) = << v % 256 >>
      BY <3>1, Zenon DEF NumberBytes
    <3>3. Reads(<< \h6A >> \o << v % 256 >>, "push", NoOperand, Imm(v))
      BY <1>1, <2>1, PushByteRead
    <3>4. result = << \h6A >> \o << v % 256 >>
      BY <3>1, <3>2, Zenon
    <3>5. v % 256 \in Byte /\ \h6A \in Byte
      BY <1>1, SMT DEF Byte
    <3>6. << \h6A >> \o << v % 256 >> \in Seq(Byte)
      BY <3>5
    <3> HIDE DEF result
    <3> QED
      BY <3>3, <3>4, <3>6
  <2>2. CASE v > 127
    <3>1. get_sizeof_number2write(v) # 1 /\ ~(v <= ASCII_MAX_SYMBOL)
      BY <1>1, <2>2, SMT DEF get_sizeof_number2write, ASCII_MAX_SYMBOL
    <3>2. NumberBytes(v) = Le32(v)
      BY <3>1, Zenon DEF NumberBytes
    <3>3. Reads(<< \h68 >> \o Le32(v), "push", NoOperand, Imm(v))
      BY PushWordRead
    <3>4. result = << \h68 >> \o Le32(v)
      BY <3>1, <3>2, Zenon
    <3>5. Le32(v) \in Seq(Byte) /\ \h68 \in Byte
      BY <1>1, Le32Read, SMT DEF Word32, Byte
    <3>6. << \h68 >> \o Le32(v) \in Seq(Byte)
      BY <3>5
    <3> HIDE DEF result
    <3> QED
      BY <3>3, <3>4, <3>6
  <2> QED
    BY <1>1, <2>1, <2>2
<1> HIDE DEF result
<1> QED
  BY <1>3, <1>4 DEF result, m

(* add rsp, 8.                                                             *)
LEMMA DropRead ==
  LET b == << \h48, \h83, \hC4, \h08 >>
  IN  b \in Seq(Byte) /\ Reads(b, "add", Reg(4), Imm(8))
<1>1. PICK p : p = \h48
  BY SMT
<1>2. PICK op : op = \h83
  BY SMT
<1>3. PICK m : m = \hC4
  BY SMT
<1>4. PICK e : e = \h08
  BY SMT
<1>5. p \in WideRexBytes /\ p \in Byte /\ op \in Byte /\ m \in Byte /\ e \in Byte
  BY <1>1, <1>2, <1>3, <1>4, SMT DEF WideRexBytes, Byte
<1> DEFINE b == << p, op, m, e >>
<1>6. Begins(b, p, op, m) /\ Len(b) = 4 /\ At(b, 4) = e
  <2>1. Begins(b, p, op, m) /\ Len(b) = 4
    BY <1>5, FourRead
  <2>2. At(b, 4) = e
    BY <2>1, SMT DEF At
  <2> QED
    BY <2>1, <2>2
<1> HIDE DEF b
<1>7. b \in Seq(Byte) /\ b[1] = p /\ At(b, 2) = op /\ At(b, 3) = m
  BY <1>6, SMT DEF Begins
<1>8. Decode(b) = DecodeAt(b, 2) /\ RexW(b)
  BY <1>5, <1>6, <1>7, PrefixedRead, SMT
<1>9. RegField(m) = 0 /\ ModField(m) = 3 /\ RmField(m) = 4
  BY <1>3, SMT DEF RegField, ModField, RmField
<1>10. DecodeAt(b, 2) = Instr("add", RmOf(b, At(b, 3)), Imm(Signed8(b, 4)), 4)
  BY <1>2, <1>7, <1>8, <1>9, ImmedOpcodesRead, SMT
<1>11. Signed8(b, 4) = 8
  BY <1>4, <1>6, SMT DEF Signed8
<1>12. RexB(b) = 0
  BY <1>1, <1>6, <1>7, RexRead, SMT DEF HighRm, RexBytes
<1>13. RmOf(b, m) = Reg(4)
  BY <1>9, <1>12, SMT DEF RmOf
<1>14. b \in Seq(Byte) /\ Reads(b, "add", Reg(4), Imm(8))
  BY <1>6, <1>7, <1>8, <1>10, <1>11, <1>13, Zenon DEF Reads
<1> QED
  BY <1>1, <1>2, <1>3, <1>4, <1>14, SMT DEF b

LEMMA TakesDrop ==
  ASSUME NEW R, NEW S, S # << >>, NEW M, NEW X, NEW P
  PROVE  Takes(<< \h48, \h83, \hC4, \h08 >>, State(R, S, M, X, P), State(R, Front(S), M, X, P))
<1> DEFINE b == << \h48, \h83, \hC4, \h08 >>
<1>1. b \in Seq(Byte) /\ Reads(b, "add", Reg(4), Imm(8))
  BY DropRead
<1>2. "add" # "bad"
  BY SMT
<1> HIDE DEF b
<1>3. Step(State(R, S, M, X, P), Instr("add", Reg(4), Imm(8), Len(b))) = State(R, Front(S), M, X, P)
  BY StepDrops
<1>4. Takes(b, State(R, S, M, X, P), State(R, Front(S), M, X, P))
  BY <1>1, <1>2, <1>3, TakesRead
<1> QED
  BY <1>4 DEF b

(* mul and div of rdi.                                                     *)
LEMMA UnaryAsked ==
  ASSUME NEW cmd \in {MUL, DIV}
  PROVE  LET info == RegInfo(cmd, RDI, INVALID_REG)
         IN  info \in Infos(Ints) /\ Right(info) /\ Intended(info) = << Names[cmd], Reg(RDI), NoOperand >>
<1> DEFINE info == RegInfo(cmd, RDI, INVALID_REG)
<1>1. cmd \notin {PUSH, POP, CALL, RET} /\ cmd \notin {MOV, ADD, SUB}
      /\ cmd \in {MOV, ADD, SUB, MUL, DIV, PUSH, POP, CALL, RET}
  BY Distinct, Zenon
<1>2. RDI \in Octals /\ RDI # INVALID_REG
  BY OctalNames, OctalRegisters
<1>3. Asks(info, cmd, RDI, INVALID_REG, 0, FALSE, FALSE)
  BY <1>1, <1>2, AsksRegs
<1> HIDE DEF info
<1>4. /\ info \in Infos(Ints) /\ info.cmd_encode = cmd /\ info.dest_reg = RDI /\ info.src_reg = INVALID_REG
      /\ info.use_memory4dest = FALSE /\ info.use_memory4src = FALSE
  BY <1>3 DEF Asks
<1>5. ~HasSrc(info)
  BY <1>4, Zenon DEF HasSrc
<1>6. Right(info)
  BY <1>4, <1>5, UnaryRight, Zenon
<1>7. Intended(info) = << Names[info.cmd_encode], TheRm(info.dest_reg, info.use_memory4dest \/ info.use_memory4src), NoOperand >>
  BY <1>1, <1>4, Zenon DEF Intended
<1>8. TheRm(info.dest_reg, info.use_memory4dest \/ info.use_memory4src) = Reg(RDI)
  <2>1. TheRm(RDI, FALSE) = Reg(RDI)
    BY <1>2, LowOperands
  <2> QED
    BY <1>4, <2>1, Zenon DEF TheRm
<1>9. Intended(info) = << Names[cmd], Reg(RDI), NoOperand >>
  BY <1>4, <1>7, <1>8, Zenon
<1> QED
  BY <1>4, <1>6, <1>9 DEF info

LEMMA SameUnary ==
  ASSUME NEW op, NEW w \in {"mul", "div"}, NEW src, SameOp(op, w, src)
  PROVE  op = w
<1>1. w # "mov"
  BY SMT
<1> QED
  BY <1>1, Zenon DEF SameOp

LEMMA TakesMul ==
  ASSUME NEW R, NEW S, NEW M, NEW X, NEW P
  PROVE  Takes(encode_cmd(RegInfo(MUL, RDI, INVALID_REG)), State(R, S, M, X, P),
               State(With(With(R, rAX, R[rAX] * R[RDI]), rDX, 0), S, M, X, P))
<1> DEFINE info == RegInfo(MUL, RDI, INVALID_REG)
           m == State(R, S, M, X, P)
           n == State(With(With(R, rAX, R[rAX] * R[RDI]), rDX, 0), S, M, X, P)
<1>1. info \in Infos(Ints) /\ Right(info) /\ Intended(info) = << "mul", Reg(RDI), NoOperand >>
  BY UnaryAsked, NamesRead
<1> HIDE DEF info
<1>2. PICK op : /\ SameOp(op, "mul", NoOperand) /\ op # "bad"
                /\ encode_cmd(info) \in Seq(Byte) /\ Reads(encode_cmd(info), op, Reg(RDI), NoOperand)
  BY <1>1, RequestRead
<1>3. op = "mul"
  BY <1>2, SameUnary
<1>4. Step(m, Instr("mul", Reg(RDI), NoOperand, Len(encode_cmd(info)))) = n
  BY StepMul
<1> HIDE DEF m, n
<1>5. Takes(encode_cmd(info), m, n)
  BY <1>2, <1>3, <1>4, TakesRead
<1> QED
  BY <1>5 DEF info, m, n

LEMMA TakesDiv ==
  ASSUME NEW R, NEW S, NEW M, NEW X, NEW P, R[rDX] = 0, R[RDI] > 0
  PROVE  \E r : Takes(encode_cmd(RegInfo(DIV, RDI, INVALID_REG)), State(R, S, M, X, P),
                      State(With(With(R, rAX, R[rAX] \div R[RDI]), rDX, r), S, M, X, P))
<1> DEFINE info == RegInfo(DIV, RDI, INVALID_REG)
           m == State(R, S, M, X, P)
           n(r) == State(With(With(R, rAX, R[rAX] \div R[RDI]), rDX, r), S, M, X, P)
<1>1. info \in Infos(Ints) /\ Right(info) /\ Intended(info) = << "div", Reg(RDI), NoOperand >>
  BY UnaryAsked, NamesRead
<1> HIDE DEF info
<1>2. PICK op : /\ SameOp(op, "div", NoOperand) /\ op # "bad"
                /\ encode_cmd(info) \in Seq(Byte) /\ Reads(encode_cmd(info), op, Reg(RDI), NoOperand)
  BY <1>1, RequestRead
<1>3. op = "div"
  BY <1>2, SameUnary
<1>4. PICK r : Step(m, Instr("div", Reg(RDI), NoOperand, Len(encode_cmd(info)))) = n(r)
  BY StepDiv
<1> HIDE DEF m, n
<1>5. Takes(encode_cmd(info), m, n(r))
  BY <1>2, <1>3, <1>4, TakesRead
<1> QED
  BY <1>5 DEF info, m, n

(* The three instructions of a square root.                                *)
LEMMA PartRead ==
  ASSUME NEW p \in SqrtParts
  PROVE  p[1] \in Seq(Byte) /\ p[2] # "bad" /\ Reads(p[1], p[2], NoOperand, NoOperand)
<1>1. p[1] \in Seq(Byte) /\ Len(p[1]) \in {4, 5} /\ IsPart(p)
  BY SqrtBytes
<1>2. StartsWith(p[1], p[1])
  BY <1>1, SMT DEF StartsWith
<1>3. Decode(p[1]) = Instr(p[2], NoOperand, NoOperand, Len(p[1]))
  BY <1>2, DecodePart
<1>4. p[2] # "bad"
  BY <1>1, SMT DEF IsPart, ToDouble, Root, FromDouble
<1> QED
  BY <1>1, <1>3, <1>4 DEF Reads

LEMMA TakesParts ==
  ASSUME NEW R, NEW S, NEW M, NEW X, NEW P
  PROVE  LET m == State(R, S, M, X, P)
         IN  /\ Takes(ToDouble[1], m, State(R, S, M, R[rAX], P))
             /\ X >= 0 => Takes(Root[1], m, State(R, S, M, Isqrt(X), P))
             /\ Takes(FromDouble[1], m, State(With(R, rAX, X), S, M, X, P))
<1> DEFINE m == State(R, S, M, X, P)
<1>1. ToDouble \in SqrtParts /\ Root \in SqrtParts /\ FromDouble \in SqrtParts
  BY SMT DEF SqrtParts, ToDouble, Root, FromDouble
<1>2. ToDouble[2] = "cvtsi2sd" /\ Root[2] = "sqrtsd" /\ FromDouble[2] = "cvttsd2si"
  BY SMT DEF ToDouble, Root, FromDouble
<1>3. ASSUME NEW p \in SqrtParts, NEW n, Step(m, Instr(p[2], NoOperand, NoOperand, Len(p[1]))) = n
      PROVE  Takes(p[1], m, n)
  BY <1>3, PartRead, TakesRead
<1>4. \A len : /\ Step(m, Instr("cvtsi2sd", NoOperand, NoOperand, len)) = State(R, S, M, R[rAX], P)
               /\ X >= 0 =>
                    Step(m, Instr("sqrtsd", NoOperand, NoOperand, len)) = State(R, S, M, Isqrt(X), P)
               /\ Step(m, Instr("cvttsd2si", NoOperand, NoOperand, len)) = State(With(R, rAX, X), S, M, X, P)
  BY StepRoot
<1> HIDE DEF m
<1>5. Takes(ToDouble[1], m, State(R, S, M, R[rAX], P))
  BY <1>1, <1>2, <1>3, <1>4
<1>6. X >= 0 => Takes(Root[1], m, State(R, S, M, Isqrt(X), P))
  BY <1>1, <1>2, <1>3, <1>4
<1>7. Takes(FromDouble[1], m, State(With(R, rAX, X), S, M, X, P))
  BY <1>1, <1>2, <1>3, <1>4
<1> QED
  BY <1>5, <1>6, <1>7 DEF m

LEMMA TakesCall ==
  ASSUME NEW v \in Ints, NEW R, NEW S, NEW M, NEW X, NEW P
  PROVE  Takes(encode_cmd(ImmedInfo(CALL, INVALID_REG, v)), State(R, S, M, X, P),
               State(AfterCall(R), S, M, X, Append(P, R[rDI])))
<1> DEFINE c == encode_cmd(ImmedInfo(CALL, INVALID_REG, v))
           i == Instr("call", NoOperand, Imm(v), 5)
<1>1. IsInstr(c) /\ Decode(c) = i
  BY CallRead
<1>2. Step(State(R, S, M, X, P), i) = State(AfterCall(R), S, M, X, Append(P, R[rDI]))
  BY StepCall
<1> HIDE DEF c, i
<1>3. Takes(c, State(R, S, M, X, P), State(AfterCall(R), S, M, X, Append(P, R[rDI])))
  BY <1>1, <1>2, DoesInstr, NotNothing, Zenon DEF Takes
<1> QED
  BY <1>3 DEF c

(* Code that leaves the machine as it is.                                  *)
LEMMA TakesIdle ==
  ASSUME NEW b, IsInstr(b), NEW op \in {"cmp", "nop", "jmp", "jb", "jbe", "ja", "jae", "je", "jne"},
         NEW dst, NEW src, NEW len, Decode(b) = Instr(op, dst, src, len), NEW m
  PROVE  Takes(b, m, m)
<1>1. Step(m, Instr(op, dst, src, len)) = m
  BY StepIdle
<1> QED
  BY <1>1, DoesInstr, NotNothing, Zenon DEF Takes

LEMMA TakesJmp ==
  ASSUME NEW v \in Ints, NEW m
  PROVE  Takes(<< \hE9 >> \o Le32(v), m, m)
<1>1. PICK op : op = \hE9
  BY SMT
<1>2. op \in Opcodes
  BY <1>1, SMT DEF Opcodes, Byte
<1> DEFINE b == << op >> \o Le32(v)
<1>3. Starts(b, 0, op) /\ Len(b) = 5
  BY <1>2, OpcodeAndWord
<1>4. IsInstr(b)
  BY <1>1, JmpInstr, Zenon DEF Other
<1> HIDE DEF b
<1>5. Decode(b) = DecodeAt(b, 1) /\ At(b, 1) = op
  BY <1>2, <1>3, AloneRead
<1>6. DecodeAt(b, 1) = Instr("jmp", NoOperand, Imm(Signed32(b, 2)), 5)
  BY <1>1, <1>5, SMT DEF DecodeAt
<1>7. "jmp" \in {"cmp", "nop", "jmp", "jb", "jbe", "ja", "jae", "je", "jne"}
  BY SMT
<1>8. Takes(b, m, m)
  BY <1>4, <1>5, <1>6, <1>7, TakesIdle
<1> QED
  BY <1>1, <1>8, Zenon DEF b

LEMMA TakesConditional ==
  ASSUME NEW c \in Int, \h82 <= c, c <= \h87, NEW v \in Ints, NEW m
  PROVE  Takes(<< \h0F, c >> \o Le32(v), m, m)
<1>1. PICK op : op = \h0F
  BY SMT
<1>2. op \in Opcodes
  BY <1>1, SMT DEF Opcodes, Byte
<1> DEFINE s == << op, c >>
           b == s \o Le32(v)
<1>3. s \in Seq(Byte) /\ Len(s) = 2 /\ s[1] = op /\ s[2] = c
  BY <1>1, SMT DEF Byte
<1>4. IsInstr(b)
  <2>1. << \h0F, c >> \o Le32(v) = b
    BY <1>1, Zenon
  <2>2. IsInstr(<< \h0F, c >> \o Le32(v))
    BY ConditionalInstr DEF Other
  <2> QED
    BY <2>1, <2>2, Zenon
<1> HIDE DEF s
<1>5. WordBehind(s, v, b)
  BY <1>3, ImmedRead, Zenon
<1> HIDE DEF b
<1>6. b \in Seq(Byte) /\ Len(b) = 6 /\ b[1] = op /\ At(b, 2) = c
  BY <1>3, <1>5, SMT DEF WordBehind
<1>7. Starts(b, 0, op)
  BY <1>6, SMT DEF Starts, OpcodePlace
<1>8. Decode(b) = DecodeAt(b, 1) /\ At(b, 1) = op
  BY <1>2, <1>7, AloneRead
<1>9. c \in \h80..\h8F /\ c % 16 \in 2..7
  BY SMT
<1>10. DecodeAt(b, 1) = Instr(ConditionNames[c % 16], NoOperand, Imm(Signed32(b, 3)), 6)
  BY <1>1, <1>6, <1>8, <1>9, SMTT(30) DEF DecodeAt
<1>11. ConditionNames[c % 16] \in {"cmp", "nop", "jmp", "jb", "jbe", "ja", "jae", "je", "jne"}
  BY <1>9, SMT DEF ConditionNames
<1>12. Takes(b, m, m)
  BY <1>4, <1>8, <1>10, <1>11, TakesIdle
<1> QED
  BY <1>1, <1>12, Zenon DEF b, s

LEMMA TakesCompare ==
  ASSUME NEW m
  PROVE  Takes(<< \h48, \h39, \hD1 >>, m, m)
<1>1. PICK p : p = \h48
  BY SMT
<1>2. PICK op : op = \h39
  BY SMT
<1>3. PICK e : e = \hD1
  BY SMT
<1>4. p \in WideRexBytes /\ p \in Byte /\ op \in Byte /\ e \in Byte
  BY <1>1, <1>2, <1>3, SMT DEF WideRexBytes, Byte
<1> DEFINE b == << p, op, e >>
<1>5. b \in Seq(Byte) /\ Len(b) = 3 /\ b[1] = p /\ At(b, 2) = op
  BY <1>4, ThreeRead
<1>6. IsInstr(b)
  BY <1>1, <1>2, <1>3, CmpInstr, Zenon DEF Other
<1> HIDE DEF b
<1>7. Decode(b) = DecodeAt(b, 2) /\ RexW(b)
  BY <1>4, <1>5, PrefixedRead, SMT
<1>8. PICK rm : RmOf(b, At(b, 3)) = rm
  BY Zenon
<1>9. PICK reg : Reg(RegField(At(b, 3)) + RexR(b)) = reg
  BY Zenon
<1>10. At(b, 2) = \h39
  BY <1>2, <1>5
<1>11. DecodeAt(b, 2) = Instr("cmp", rm, reg, 3)
  BY <1>7, <1>8, <1>9, <1>10, CmpRead
<1>12. "cmp" \in {"cmp", "nop", "jmp", "jb", "jbe", "ja", "jae", "je", "jne"}
  BY SMT
<1>13. Takes(b, m, m)
  BY <1>6, <1>7, <1>11, <1>12, TakesIdle
<1> QED
  BY <1>1, <1>2, <1>3, <1>13, Zenon DEF b

LEMMA DoesOne ==
  ASSUME NEW c, NEW m, NEW n, Takes(c, m, n)
  PROVE  Does(c, m, n)
BY Zenon DEF Takes

LEMMA TakesBoth ==
  ASSUME NEW a, NEW c, NEW m, NEW n, NEW p, Does(a, m, n), Takes(c, n, p)
  PROVE  Does(a \o c, m, p)
BY DoesBoth, Zenon DEF Takes

-----------------------------------------------------------------------------
(* What the code of one token does.                                        *)

LEMMA PrintDoes ==
  ASSUME NEW R, NEW S, S # << >>, NEW M, NEW X, NEW P,
         NEW space, PrintDecimal - (space + JMP_LENGTH) \in Ints, rDI \in DOMAIN R
  PROVE  Does(encode_print(space), State(R, S, M, X, P),
              State(AfterCall(With(R, rDI, Last(S))), Front(S), M, X, Append(P, Last(S))))
<1> DEFINE v == PrintDecimal - (space + JMP_LENGTH)
           c == encode_cmd(ImmedInfo(CALL, INVALID_REG, v))
           Q == With(R, rDI, Last(S))
<1>1. rDI = RDI /\ RDI \in Octals
  BY OctalNames DEF rDI, RDI
<1>2. encode_print(space) = PopReg(RDI) \o c
  BY Zenon DEF encode_print
<1>3. Takes(PopReg(RDI), State(R, S, M, X, P), State(Q, Front(S), M, X, P))
  BY <1>1, TakesPushPop
<1>4. Q[rDI] = Last(S)
  BY WithRead
<1> HIDE DEF Q
<1>5. Takes(c, State(Q, Front(S), M, X, P), State(AfterCall(Q), Front(S), M, X, Append(P, Last(S))))
  BY <1>4, TakesCall
<1> HIDE DEF c
<1>6. Does(PopReg(RDI) \o c, State(R, S, M, X, P), State(AfterCall(Q), Front(S), M, X, Append(P, Last(S))))
  BY <1>3, <1>5, DoesOne, TakesBoth
<1> QED
  BY <1>2, <1>6 DEF Q

LEMMA SqrtCode ==
  encode_sqrt = PopReg(RAX) \o ToDouble[1] \o Root[1] \o FromDouble[1] \o PushReg(RAX)
<1> DEFINE a == << \hF2, \h48, \h0F, \h2A, \hC0 >>
           b == << \hF2, \h0F, \h51, \hC0 >>
           c == << \hF2, \h48, \h0F, \h2C, \hC0 >>
<1>1. ToDouble[1] = a /\ Root[1] = b /\ FromDouble[1] = c
  BY SMT DEF ToDouble, Root, FromDouble
<1>2. encode_sqrt = PopReg(RAX) \o a \o b \o c \o PushReg(RAX)
  BY DEF encode_sqrt
<1> HIDE DEF a, b, c
<1> QED
  BY <1>1, <1>2

(* The code c leaves a machine with this stack, memory and output, and with *)
(* the registers R but for the lost ones.                                  *)
Leaves(c, m, R, lost, S, M, P) ==
  \E Q, y : Does(c, m, State(Q, S, M, y, P)) /\ \A r \in DOMAIN R : r \notin lost => Q[r] = R[r]

LEMMA SqrtDoes ==
  ASSUME NEW R, NEW S, S # << >>, NEW M, NEW X, NEW P, rAX \in DOMAIN R, Last(S) >= 0
  PROVE  Leaves(encode_sqrt, State(R, S, M, X, P), R, {rAX}, Append(Front(S), Isqrt(Last(S))), M, P)
<1> DEFINE v == Last(S)
           F == Front(S)
           root == Isqrt(v)
           A == With(R, rAX, v)
           B == With(A, rAX, root)
<1>1. rAX = RAX /\ RAX \in Octals
  BY OctalNames DEF rAX, RAX
<1>2. Takes(PopReg(RAX), State(R, S, M, X, P), State(A, F, M, X, P))
  BY <1>1, TakesPushPop
<1>3. A[rAX] = v /\ DOMAIN A = DOMAIN R /\ \A r \in DOMAIN R : r # rAX => A[r] = R[r]
  BY WithRead
<1>4. B[rAX] = root /\ \A r \in DOMAIN A : r # rAX => B[r] = A[r]
  BY <1>3, WithRead
<1> HIDE DEF root, F, A
<1>5. Takes(ToDouble[1], State(A, F, M, X, P), State(A, F, M, v, P))
  BY <1>3, TakesParts
<1>6. Takes(Root[1], State(A, F, M, v, P), State(A, F, M, root, P))
  BY TakesParts DEF root
<1>7. Takes(FromDouble[1], State(A, F, M, root, P), State(B, F, M, root, P))
  BY TakesParts
<1>8. Takes(PushReg(RAX), State(B, F, M, root, P), State(B, Append(F, root), M, root, P))
  <2> HIDE DEF B
  <2> QED
    BY <1>1, <1>4, TakesPushPop
<1> HIDE DEF B, v
<1>9. Does(PopReg(RAX) \o ToDouble[1] \o Root[1] \o FromDouble[1] \o PushReg(RAX),
           State(R, S, M, X, P), State(B, Append(F, root), M, root, P))
  <2>1. Does(PopReg(RAX) \o ToDouble[1], State(R, S, M, X, P), State(A, F, M, v, P))
    BY <1>2, <1>5, DoesOne, TakesBoth
  <2>2. Does(PopReg(RAX) \o ToDouble[1] \o Root[1], State(R, S, M, X, P), State(A, F, M, root, P))
    BY <1>6, <2>1, TakesBoth
  <2>3. Does(PopReg(RAX) \o ToDouble[1] \o Root[1] \o FromDouble[1], State(R, S, M, X, P), State(B, F, M, root, P))
    BY <1>7, <2>2, TakesBoth
  <2> QED
    BY <1>8, <2>3, TakesBoth
<1>10. Does(encode_sqrt, State(R, S, M, X, P), State(B, Append(F, root), M, root, P))
  BY <1>9, SqrtCode
<1>11. \A r \in DOMAIN R : r \notin {rAX} => B[r] = R[r]
  BY <1>3, <1>4
<1>12. Leaves(encode_sqrt, State(R, S, M, X, P), R, {rAX}, Append(F, root), M, P)
  BY <1>10, <1>11, Zenon DEF Leaves
<1> QED
  BY <1>12 DEF root, F, v

-----------------------------------------------------------------------------
(* The stack.                                                              *)

LEMMA StackFacts ==
  ASSUME NEW T, NEW s \in Seq(T), NEW x \in T
  PROVE  /\ Front(Append(s, x)) = s /\ Last(Append(s, x)) = x /\ Append(s, x) # << >>
         /\ Append(s, x) \in Seq(T)
         /\ Len(s) >= 1 => s # << >> /\ Front(s) \in Seq(T) /\ Last(s) \in T
         /\ Len(s) >= 2 => Front(s) # << >> /\ Last(Front(s)) = s[Len(s) - 1] /\ s[Len(s) - 1] \in T
<1>1. Last(Append(s, x)) = x /\ Append(s, x) # << >> /\ Append(s, x) \in Seq(T) /\ Len(Append(s, x)) = Len(s) + 1
  BY SMT DEF Last
<1>2. Front(Append(s, x)) = s
  <2> DEFINE a == Append(s, x)
  <2>1. a \in Seq(T) /\ Len(a) = Len(s) + 1 /\ Len(s) \in Nat /\ \A k \in 1 .. Len(s) : a[k] = s[k]
    BY SMT
  <2> HIDE DEF a
  <2>2. Front(a) = SubSeq(a, 1, Len(s))
    BY <2>1, SMT DEF Front
  <2> DEFINE f == SubSeq(a, 1, Len(s))
  <2>3. f \in Seq(T) /\ Len(f) = Len(s) /\ \A k \in 1 .. Len(s) : f[k] = a[k]
    BY <2>1, SMT
  <2> HIDE DEF f
  <2>4. f = s
    BY <2>1, <2>3, SMT
  <2> QED
    BY <2>2, <2>4 DEF a, f
<1>3. ASSUME Len(s) >= 1
      PROVE  s # << >> /\ Front(s) \in Seq(T) /\ Last(s) \in T /\ Len(Front(s)) = Len(s) - 1
             /\ \A k \in 1 .. Len(s) - 1 : Front(s)[k] = s[k]
  <2>1. s # << >> /\ Last(s) \in T
    BY <1>3, SMT DEF Last
  <2> DEFINE n == Len(s) - 1
             f == SubSeq(s, 1, n)
  <2>2. n \in Nat /\ n <= Len(s)
    BY <1>3, SMT
  <2> HIDE DEF n
  <2>3. f \in Seq(T) /\ Len(f) = n /\ \A k \in 1 .. n : f[k] = s[k]
    BY <2>2, SMT
  <2>4. Front(s) = f
    BY Zenon DEF Front, n
  <2> HIDE DEF f
  <2> QED
    BY <2>1, <2>3, <2>4 DEF n
<1>4. ASSUME Len(s) >= 2
      PROVE  Front(s) # << >> /\ Last(Front(s)) = s[Len(s) - 1] /\ s[Len(s) - 1] \in T
  <2> DEFINE f == Front(s)
  <2>1. f \in Seq(T) /\ Len(f) = Len(s) - 1 /\ \A k \in 1 .. Len(s) - 1 : f[k] = s[k]
    BY <1>3, <1>4, SMT
  <2> HIDE DEF f
  <2>2. f # << >> /\ Last(f) = s[Len(s) - 1] /\ s[Len(s) - 1] \in T
    BY <1>4, <2>1, SMT DEF Last
  <2> QED
    BY <2>2 DEF f
<1> QED
  BY <1>1, <1>2, <1>3, <1>4

LEMMA CompareDoes ==
  ASSUME NEW R, NEW S \in Seq(Int), Len(S) >= 2, NEW M, NEW X, NEW P, RCX \in DOMAIN R, RDX \in DOMAIN R
  PROVE  \E Q : /\ Does(encode_cmp, State(R, S, M, X, P), State(Q, Front(Front(S)), M, X, P))
                /\ \A r \in DOMAIN R : r \notin {RCX, RDX} => Q[r] = R[r]
<1> DEFINE F == Front(S)
           A == With(R, RCX, Last(S))
           B == With(A, RDX, Last(F))
<1>1. RCX \in Octals /\ RDX \in Octals
  BY OctalNames
<1>2. S # << >> /\ F # << >>
  <2>1. 0 \in Int /\ Len(S) >= 1
    BY SMT
  <2> QED
    BY <2>1, StackFacts
<1>3. DOMAIN A = DOMAIN R /\ \A r \in DOMAIN R : r # RCX => A[r] = R[r]
  BY WithRead
<1> HIDE DEF A, F
<1>4. \A r \in DOMAIN R : r # RDX => B[r] = A[r]
  BY <1>3, WithRead
<1>5. Takes(PopReg(RCX), State(R, S, M, X, P), State(A, F, M, X, P))
  BY <1>1, <1>2, TakesPushPop DEF A, F
<1>6. Takes(PopReg(RDX), State(A, F, M, X, P), State(B, Front(F), M, X, P))
  BY <1>1, <1>2, TakesPushPop
<1>7. Takes(<< \h48, \h39, \hD1 >>, State(B, Front(F), M, X, P), State(B, Front(F), M, X, P))
  BY TakesCompare
<1> HIDE DEF B
<1>8. Does(PopReg(RCX) \o PopReg(RDX), State(R, S, M, X, P), State(B, Front(F), M, X, P))
  BY <1>5, <1>6, DoesOne, TakesBoth
<1>9. Does(encode_cmp, State(R, S, M, X, P), State(B, Front(F), M, X, P))
  BY <1>7, <1>8, TakesBoth DEF encode_cmp
<1> QED
  BY <1>3, <1>4, <1>9 DEF F

LEMMA ConditionalDoes ==
  ASSUME NEW R, NEW S \in Seq(Int), Len(S) >= 2, NEW M, NEW X, NEW P, RCX \in DOMAIN R, RDX \in DOMAIN R,
         NEW token, token.my_cmd \in CondJmpCmds, token.offset \in Ints
  PROVE  Leaves(encode_cmp \o pre_encode_conditional_jmp(token), State(R, S, M, X, P), R, {RCX, RDX},
                Front(Front(S)), M, P)
<1> DEFINE c == ConditionCode(token.my_cmd)
<1>1. c \in Int /\ \h82 <= c /\ c <= \h87
  BY CodeOfCondition
<1>2. pre_encode_conditional_jmp(token) = << \h0F, c >> \o Le32(token.offset)
  BY DEF pre_encode_conditional_jmp
<1> HIDE DEF c
<1>3. PICK Q : /\ Does(encode_cmp, State(R, S, M, X, P), State(Q, Front(Front(S)), M, X, P))
               /\ \A r \in DOMAIN R : r \notin {RCX, RDX} => Q[r] = R[r]
  BY CompareDoes
<1> DEFINE n == State(Q, Front(Front(S)), M, X, P)
<1>4. Takes(<< \h0F, c >> \o Le32(token.offset), n, n)
  BY <1>1, TakesConditional
<1> DEFINE j == << \h0F, c >> \o Le32(token.offset)
<1>5. Does(encode_cmp \o j, State(R, S, M, X, P), n)
  <2> HIDE DEF j
  <2> QED
    BY <1>3, <1>4, TakesBoth DEF j
<1>6. Leaves(encode_cmp \o j, State(R, S, M, X, P), R, {RCX, RDX}, Front(Front(S)), M, P)
  <2> HIDE DEF j
  <2> QED
    BY <1>3, <1>5, Zenon DEF Leaves
<1> QED
  BY <1>2, <1>6

-----------------------------------------------------------------------------
(* What the guest CPU does, command by command.                            *)

LEMMA GuestArms ==
  ASSUME NEW m, NEW t, NEW operand, operand = GuestOperand(t), NEW c, c = t.my_cmd
  PROVE  /\ c = CMD_MY_PUSH => GuestStep(m, t) = IF Defined(m, operand) THEN Pushed(m, Value(m, operand))
                                                                       ELSE Broken(m)
         /\ c = CMD_MY_POP /\ t.delete_stack_elem =>
              GuestStep(m, t) = IF Len(m.stack) >= 1 THEN Popped(m) ELSE Broken(m)
         /\ c = CMD_MY_POP /\ ~t.delete_stack_elem =>
              GuestStep(m, t) = IF Len(m.stack) >= 1 /\ Defined(m, operand)
                                THEN GuestStore(Popped(m), operand, Last(m.stack)) ELSE Broken(m)
         /\ c = CMD_MY_OUT =>
              GuestStep(m, t) = IF Len(m.stack) >= 1 THEN Printed(Popped(m), Last(m.stack)) ELSE Broken(m)
         /\ c \in CondJmpCmds =>
              GuestStep(m, t) = IF Len(m.stack) >= 2 THEN Popped(Popped(m)) ELSE Broken(m)
         /\ c \in {CMD_MY_JMP, CMD_MY_LABEL} => GuestStep(m, t) = m
<1>1. /\ c \in CondJmpCmds => c \notin MathCmds \cup {CMD_MY_PUSH, CMD_MY_POP, CMD_MY_OUT, CMD_MY_IN, CMD_MY_SQRT, CMD_MY_JMP, CMD_MY_LABEL}
      /\ c \in {CMD_MY_PUSH, CMD_MY_POP, CMD_MY_OUT, CMD_MY_JMP, CMD_MY_LABEL} =>
           c \notin MathCmds \cup CondJmpCmds \cup {CMD_MY_IN, CMD_MY_SQRT}
      /\ CMD_MY_PUSH \notin {CMD_MY_POP, CMD_MY_OUT, CMD_MY_JMP, CMD_MY_LABEL}
      /\ CMD_MY_POP \notin {CMD_MY_OUT, CMD_MY_JMP, CMD_MY_LABEL}
      /\ CMD_MY_OUT \notin {CMD_MY_JMP, CMD_MY_LABEL}
  BY SMT DEF MathCmds, CondJmpCmds, CMD_MY_PUSH, CMD_MY_POP, CMD_MY_OUT, CMD_MY_IN, CMD_MY_SQRT, CMD_MY_JMP, CMD_MY_LABEL,
    CMD_MY_ADD, CMD_MY_SUB, CMD_MY_MUL, CMD_MY_DIV, CMD_MY_JB, CMD_MY_JBE, CMD_MY_JA, CMD_MY_JAE, CMD_MY_JE, CMD_MY_JNE
<1>2. c = CMD_MY_PUSH => GuestStep(m, t) = IF Defined(m, operand) THEN Pushed(m, Value(m, operand)) ELSE Broken(m)
  BY <1>1, Zenon DEF GuestStep
<1>3. c = CMD_MY_POP /\ t.delete_stack_elem =>
        GuestStep(m, t) = IF Len(m.stack) >= 1 THEN Popped(m) ELSE Broken(m)
  BY <1>1, Zenon DEF GuestStep
<1>4. c = CMD_MY_POP /\ ~t.delete_stack_elem =>
              GuestStep(m, t) = IF Len(m.stack) >= 1 /\ Defined(m, operand)
                                THEN GuestStore(Popped(m), operand, Last(m.stack)) ELSE Broken(m)
  BY <1>1, Zenon DEF GuestStep
<1>5. c = CMD_MY_OUT =>
        GuestStep(m, t) = IF Len(m.stack) >= 1 THEN Printed(Popped(m), Last(m.stack)) ELSE Broken(m)
  BY <1>1, Zenon DEF GuestStep
<1>6. c \in CondJmpCmds =>
              GuestStep(m, t) = IF Len(m.stack) >= 2 THEN Popped(Popped(m)) ELSE Broken(m)
  BY <1>1, Zenon DEF GuestStep
<1>7. c \in {CMD_MY_JMP, CMD_MY_LABEL} => GuestStep(m, t) = m
  BY <1>1, Zenon DEF GuestStep
<1> QED
  BY <1>2, <1>3, <1>4, <1>5, <1>6, <1>7

(* The results of a math command and of a square root.                     *)
Calculated(m, v) == [m EXCEPT !.stack = Append(Front(Front(@)), v)]
Rooted(m)        == [m EXCEPT !.stack = Append(Front(@), Isqrt(Last(@)))]

LEMMA GuestResults ==
  ASSUME NEW m, NEW t, NEW c, c = t.my_cmd
  PROVE  /\ c \in MathCmds =>
              GuestStep(m, t) =
                IF Len(m.stack) >= 2 /\ (c = CMD_MY_DIV => Last(m.stack) > 0 /\ m.stack[Len(m.stack) - 1] >= 0)
                THEN Calculated(m, GuestMath(c, m.stack[Len(m.stack) - 1], Last(m.stack))) ELSE Broken(m)
         /\ c = CMD_MY_SQRT =>
              GuestStep(m, t) = IF Len(m.stack) >= 1 /\ Last(m.stack) >= 0 THEN Rooted(m) ELSE Broken(m)
<1>1. /\ c \in MathCmds => c \notin CondJmpCmds \cup {CMD_MY_PUSH, CMD_MY_POP, CMD_MY_OUT, CMD_MY_IN, CMD_MY_SQRT, CMD_MY_JMP, CMD_MY_LABEL}
      /\ CMD_MY_SQRT \notin MathCmds \cup CondJmpCmds \cup {CMD_MY_PUSH, CMD_MY_POP, CMD_MY_OUT, CMD_MY_IN, CMD_MY_JMP, CMD_MY_LABEL}
  BY SMT DEF MathCmds, CondJmpCmds, CMD_MY_PUSH, CMD_MY_POP, CMD_MY_OUT, CMD_MY_IN, CMD_MY_SQRT, CMD_MY_JMP, CMD_MY_LABEL,
    CMD_MY_ADD, CMD_MY_SUB, CMD_MY_MUL, CMD_MY_DIV, CMD_MY_JB, CMD_MY_JBE, CMD_MY_JA, CMD_MY_JAE, CMD_MY_JE, CMD_MY_JNE
<1>2. c \in MathCmds =>
              GuestStep(m, t) =
                IF Len(m.stack) >= 2 /\ (c = CMD_MY_DIV => Last(m.stack) > 0 /\ m.stack[Len(m.stack) - 1] >= 0)
                THEN Calculated(m, GuestMath(c, m.stack[Len(m.stack) - 1], Last(m.stack))) ELSE Broken(m)
  BY <1>1, Zenon DEF GuestStep, Calculated
<1>3. c = CMD_MY_SQRT =>
              GuestStep(m, t) = IF Len(m.stack) >= 1 /\ Last(m.stack) >= 0 THEN Rooted(m) ELSE Broken(m)
  BY <1>1, Zenon DEF GuestStep, Rooted
<1> QED
  BY <1>2, <1>3

LEMMA CalculatedState ==
  ASSUME NEW R, NEW S, NEW M, NEW X, NEW P, NEW v
  PROVE  /\ Calculated(State(R, S, M, X, P), v) = State(R, Append(Front(Front(S)), v), M, X, P)
         /\ v = Isqrt(Last(S)) => Rooted(State(R, S, M, X, P)) = State(R, Append(Front(S), v), M, X, P)
<1>1. PICK b : b = FALSE
  BY Zenon
<1>2. Calculated(StateOf(R, S, M, X, P, b), v) = StateOf(R, Append(Front(Front(S)), v), M, X, P, b)
  BY SMT DEF StateOf, Calculated
<1>3. v = Isqrt(Last(S)) => Rooted(StateOf(R, S, M, X, P, b)) = StateOf(R, Append(Front(S), v), M, X, P, b)
  BY SMT DEF StateOf, Rooted
<1> QED
  BY <1>1, <1>2, <1>3, Zenon DEF State

LEMMA GuestStoreState ==
  ASSUME NEW R, NEW S, NEW M, NEW X, NEW P, NEW r, NEW v
  PROVE  /\ GuestStore(State(R, S, M, X, P), Reg(r), v) = State(With(R, r, v), S, M, X, P)
         /\ GuestStore(State(R, S, M, X, P), Mem(r), v) = State(R, S, With(M, R[r], v), X, P)
<1>1. PICK b : b = FALSE
  BY Zenon
<1> DEFINE m == StateOf(R, S, M, X, P, b)
<1>2. m.regs = R /\ m.mem = M
  BY SMT DEF StateOf
<1>3. [m EXCEPT !.regs[r] = v] = StateOf([R EXCEPT ![r] = v], S, M, X, P, b)
  BY SMT DEF StateOf
<1>4. \A a : [m EXCEPT !.mem[a] = v] = StateOf(R, S, [M EXCEPT ![a] = v], X, P, b)
  BY SMT DEF StateOf
<1> HIDE DEF m
<1>5. GuestStore(m, Reg(r), v) = [m EXCEPT !.regs[r] = v]
  BY OperandFields, Zenon DEF GuestStore
<1>6. GuestStore(m, Mem(r), v) = [m EXCEPT !.mem[m.regs[r]] = v]
  BY OperandFields, Zenon DEF GuestStore
<1>7. GuestStore(m, Mem(r), v) = StateOf(R, S, With(M, R[r], v), X, P, b)
  BY <1>2, <1>4, <1>6, Zenon DEF With
<1>8. GuestStore(m, Reg(r), v) = StateOf(With(R, r, v), S, M, X, P, b)
  BY <1>3, <1>5, Zenon DEF With
<1> QED
  BY <1>1, <1>7, <1>8, Zenon DEF State, m

(* A machine that failed, and that a push or a math command finds failed.  *)
Failed(m) == \E R, S, M, X, P, b : b = TRUE /\ m = StateOf(R, S, M, X, P, b)

LEMMA FailedBad ==
  ASSUME NEW m, Failed(m)
  PROVE  m.bad
<1>1. PICK R, S, M, X, P, b : b = TRUE /\ m = StateOf(R, S, M, X, P, b)
  BY DEF Failed
<1>2. StateOf(R, S, M, X, P, b).bad = b
  BY SMT DEF StateOf
<1> QED
  BY <1>1, <1>2, Zenon

LEMMA BrokenFailed ==
  ASSUME NEW R, NEW S, NEW M, NEW X, NEW P, NEW b
  PROVE  Failed(Broken(StateOf(R, S, M, X, P, b)))
<1>1. PICK c : c = TRUE
  BY Zenon
<1>2. [StateOf(R, S, M, X, P, b) EXCEPT !.bad = c] = StateOf(R, S, M, X, P, c)
  BY SMT DEF StateOf
<1>3. Broken(StateOf(R, S, M, X, P, b)) = StateOf(R, S, M, X, P, c)
  BY <1>1, <1>2, Zenon DEF Broken
<1> QED
  BY <1>1, <1>3, Zenon DEF Failed

LEMMA StateBreaks ==
  ASSUME NEW R, NEW S, NEW M, NEW X, NEW P
  PROVE  Failed(Broken(State(R, S, M, X, P)))
BY BrokenFailed DEF State

LEMMA StackReplaced ==
  ASSUME NEW R, NEW S, NEW M, NEW X, NEW P, NEW b, NEW v
  PROVE  /\ Pushed(StateOf(R, S, M, X, P, b), v) = StateOf(R, Append(S, v), M, X, P, b)
         /\ Calculated(StateOf(R, S, M, X, P, b), v) = StateOf(R, Append(Front(Front(S)), v), M, X, P, b)
<1>1. Pushed(StateOf(R, S, M, X, P, b), v) = StateOf(R, Append(S, v), M, X, P, b)
  BY SMT DEF StateOf, Pushed
<1>2. Calculated(StateOf(R, S, M, X, P, b), v) = StateOf(R, Append(Front(Front(S)), v), M, X, P, b)
  BY SMT DEF StateOf, Calculated
<1> QED
  BY <1>1, <1>2

LEMMA FailedStays ==
  ASSUME NEW m, Failed(m), NEW t, t.my_cmd \in MathCmds \cup {CMD_MY_PUSH}
  PROVE  Failed(GuestStep(m, t))
<1>1. PICK R, S, M, X, P, b : b = TRUE /\ m = StateOf(R, S, M, X, P, b)
  BY DEF Failed
<1>2. Failed(Broken(m))
  BY <1>1, BrokenFailed
<1>3. ASSUME NEW v PROVE Failed(Pushed(m, v))
  <2>1. Pushed(StateOf(R, S, M, X, P, b), v) = StateOf(R, Append(S, v), M, X, P, b)
    BY StackReplaced
  <2> QED
    BY <1>1, <2>1, Zenon DEF Failed
<1>4. ASSUME NEW v PROVE Failed(Calculated(m, v))
  <2>1. Calculated(StateOf(R, S, M, X, P, b), v) = StateOf(R, Append(Front(Front(S)), v), M, X, P, b)
    BY StackReplaced
  <2> QED
    BY <1>1, <2>1, Zenon DEF Failed
<1>5. CASE t.my_cmd = CMD_MY_PUSH
  BY <1>2, <1>3, <1>5, GuestArms
<1>6. CASE t.my_cmd \in MathCmds
  BY <1>2, <1>4, <1>6, GuestResults
<1> QED
  BY <1>5, <1>6

(* Words of memory that do not overlap: a store tears none of them.        *)
Apart(M) == \A a, b \in DOMAIN M : a \in Int /\ (b \in a - 7 .. a + 7 => a = b)

LEMMA StoreTearsNothing ==
  ASSUME NEW M, Apart(M), M = [a \in DOMAIN M |-> M[a]], NEW at \in DOMAIN M, NEW v
  PROVE  Overwrite(M, at, v) = With(M, at, v)
<1> DEFINE D == DOMAIN M
           New(a) == IF a = at THEN v ELSE IF a \in at - 7 .. at + 7 THEN Torn ELSE M[a]
           Old(a) == IF a = at THEN v ELSE M[a]
<1>1. ASSUME NEW a \in D PROVE New(a) = Old(a)
  <2>1. a \in at - 7 .. at + 7 => a = at
    BY DEF Apart
  <2> QED
    BY <2>1
<1>2. [a \in D |-> New(a)] = [a \in D |-> Old(a)]
  <2> HIDE DEF New, Old
  <2> QED
    BY <1>1, Zenon
<1>3. Overwrite(M, at, v) = [a \in D |-> New(a)]
  BY Zenon DEF Overwrite
<1>4. With(M, at, v) = [a \in D |-> Old(a)]
  BY SMT DEF With
<1> QED
  BY <1>2, <1>3, <1>4

-----------------------------------------------------------------------------
(* The code and the guest, compared.                                       *)

Alike(m, n, kept) ==
  /\ m.bad = n.bad /\ m.stack = n.stack /\ m.mem = n.mem /\ m.printed = n.printed
  /\ \A r \in kept : m.regs[r] = n.regs[r]

(* Unless the guest fails, the code leaves what a program relies on.       *)
Keeps(c, m, guest, kept) == ~guest.bad => \E n : Does(c, m, n) /\ Alike(n, guest, kept)

LEMMA KeepsFailed ==
  ASSUME NEW c, NEW m, NEW guest, Failed(guest), NEW kept
  PROVE  Keeps(c, m, guest, kept)
BY FailedBad, Zenon DEF Keeps

LEMMA KeepsState ==
  ASSUME NEW c, NEW m, NEW Q, NEW R, NEW S, NEW M, NEW X, NEW Y, NEW P, NEW kept,
         Does(c, m, State(Q, S, M, X, P)), \A r \in kept : Q[r] = R[r]
  PROVE  Keeps(c, m, State(R, S, M, Y, P), kept)
<1> DEFINE n == State(Q, S, M, X, P)
           g == State(R, S, M, Y, P)
<1>1. n.bad = FALSE /\ g.bad = FALSE
  BY StateSound, Zenon
<1>2. n.regs = Q /\ n.stack = S /\ n.mem = M /\ n.printed = P /\ g.regs = R /\ g.stack = S /\ g.mem = M /\ g.printed = P
  BY StateFields, SMT
<1> HIDE DEF n, g
<1>3. Alike(n, g, kept)
  BY <1>1, <1>2, Zenon DEF Alike
<1> QED
  BY <1>3, Zenon DEF Keeps, n, g

LEMMA KeepsLeft ==
  ASSUME NEW c, NEW m, NEW R, NEW lost, NEW S, NEW M, NEW P, NEW Y, NEW kept,
         Leaves(c, m, R, lost, S, M, P), \A r \in kept : r \in DOMAIN R /\ r \notin lost
  PROVE  Keeps(c, m, State(R, S, M, Y, P), kept)
<1>1. PICK Q, y : Does(c, m, State(Q, S, M, y, P)) /\ \A r \in DOMAIN R : r \notin lost => Q[r] = R[r]
  BY Zenon DEF Leaves
<1>2. \A r \in kept : Q[r] = R[r]
  BY <1>1
<1> QED
  BY <1>1, <1>2, KeepsState

LEMMA KeepsSame ==
  ASSUME NEW guest, Keeps(code, start, guest, KeptRegs)
  PROVE  SameAs(guest)
<1> SUFFICES ASSUME ~guest.bad PROVE Observable(AfterCode) = Observable(guest)
  BY DEF SameAs
<1>1. PICK n : Does(code, start, n) /\ Alike(n, guest, KeptRegs)
  BY DEF Keeps
<1>2. AfterCode = n
  BY <1>1, DoesRun DEF AfterCode
<1> DEFINE K == KeptRegs
           A(r) == n.regs[r]
           B(r) == guest.regs[r]
<1>3. \A r \in K : A(r) = B(r)
  BY <1>1 DEF Alike
<1>4. [r \in K |-> A(r)] = [r \in K |-> B(r)]
  <2> HIDE DEF A, B, K
  <2> QED
    BY <1>3, Zenon
<1> QED
  BY <1>1, <1>2, <1>4, Zenon DEF Observable, Alike

-----------------------------------------------------------------------------
(* The guest CPU on the first tokens of a window.                          *)

GuestAt(m, tokens, e, k) == IF k = 0 THEN m ELSE GuestStep(e[k - 1], tokens[k])

GuestTrace(m, tokens, e) == e = [k \in 0 .. Len(tokens) |-> GuestAt(m, tokens, e, k)]

LEMMA RunTokensDef ==
  ASSUME NEW m, NEW tokens
  PROVE  RunTokens(m, tokens) = (CHOOSE e : GuestTrace(m, tokens, e))[Len(tokens)]
BY DEF RunTokens, GuestTrace, GuestAt

LEMMA GuestTraceRead ==
  ASSUME NEW m, NEW tokens, NEW e, GuestTrace(m, tokens, e), NEW k \in 0 .. Len(tokens)
  PROVE  e[k] = GuestAt(m, tokens, e, k)
<1> DEFINE At1(j) == GuestAt(m, tokens, e, j)
           D == 0 .. Len(tokens)
<1>1. e = [j \in D |-> At1(j)]
  BY Zenon DEF GuestTrace
<1> HIDE DEF At1
<1>2. e[k] = At1(k)
  BY <1>1, Zenon
<1> QED
  BY <1>2 DEF At1

LEMMA RunThree ==
  ASSUME NEW m, NEW tokens, Len(tokens) \in 1 .. 3, NEW a, NEW b, NEW c,
         a = GuestStep(m, tokens[1]),
         Len(tokens) >= 2 => b = GuestStep(a, tokens[2]),
         Len(tokens) >= 3 => c = GuestStep(b, tokens[3])
  PROVE  RunTokens(m, tokens) = IF Len(tokens) = 1 THEN a ELSE IF Len(tokens) = 2 THEN b ELSE c
<1> DEFINE n == Len(tokens)
           Ran(k) == IF k = 0 THEN m ELSE IF k = 1 THEN a ELSE IF k = 2 THEN b ELSE c
           e == [k \in 0 .. n |-> Ran(k)]
           f == CHOOSE g : GuestTrace(m, tokens, g)
<1> HIDE DEF n
<1>1. n \in 1 .. 3 /\ (n >= 2 => b = GuestStep(a, tokens[2])) /\ (n >= 3 => c = GuestStep(b, tokens[3]))
  BY DEF n
<1>2. GuestTrace(m, tokens, e)
  <2> DEFINE After1(k) == GuestAt(m, tokens, e, k)
  <2>1. ASSUME NEW k \in 0 .. n PROVE Ran(k) = After1(k)
    <3>1. \A j \in 0 .. n : e[j] = Ran(j)
      BY Zenon
    <3> HIDE DEF e
    <3>2. CASE k = 0
      BY <3>2, Zenon DEF GuestAt
    <3>3. CASE k = 1
      <4>1. e[k - 1] = m /\ k # 0
        BY <1>1, <3>1, <3>3, SMT
      <4> QED
        BY <3>3, <4>1, Zenon DEF GuestAt
    <3>4. CASE k = 2
      <4>1. e[k - 1] = a /\ k # 0 /\ k # 1 /\ n >= 2
        BY <1>1, <3>1, <3>4, SMT
      <4> QED
        BY <1>1, <3>4, <4>1, Zenon DEF GuestAt
    <3>5. CASE k = 3
      <4>1. e[k - 1] = b /\ k # 0 /\ k # 1 /\ k # 2 /\ n >= 3
        BY <1>1, <3>1, <3>5, SMT
      <4> QED
        BY <1>1, <3>5, <4>1, Zenon DEF GuestAt
    <3>6. k = 0 \/ k = 1 \/ k = 2 \/ k = 3
      BY <1>1, SMT
    <3> QED
      BY <3>2, <3>3, <3>4, <3>5, <3>6
  <2> HIDE DEF After1
  <2>2. [k \in 0 .. n |-> Ran(k)] = [k \in 0 .. n |-> After1(k)]
    <3> HIDE DEF Ran
    <3> QED
      BY <2>1, Zenon
  <2>3. e = [k \in 0 .. n |-> After1(k)]
    BY <2>2
  <2> HIDE DEF e
  <2> QED
    BY <2>3 DEF After1, GuestTrace, n
<1> HIDE DEF e
<1>3. GuestTrace(m, tokens, f)
  BY <1>2, Zenon
<1> HIDE DEF f
<1>4. \A k \in 0 .. n : f[k] = GuestAt(m, tokens, f, k)
  BY <1>3, GuestTraceRead DEF n
<1>5. f[0] = m
  <2>1. 0 \in 0 .. n
    BY <1>1, SMT
  <2> QED
    BY <1>4, <2>1, Zenon DEF GuestAt
<1>6. f[1] = a
  <2>1. 1 \in 0 .. n /\ 1 # 0 /\ 1 - 1 = 0
    BY <1>1, SMT
  <2> QED
    BY <1>4, <1>5, <2>1 DEF GuestAt
<1>7. n >= 2 => f[2] = b
  <2>1. n >= 2 => 2 \in 0 .. n /\ 2 # 0 /\ 2 - 1 = 1
    BY <1>1, SMT
  <2> QED
    BY <1>1, <1>4, <1>6, <2>1 DEF GuestAt
<1>8. n >= 3 => f[3] = c
  <2>1. n >= 3 => 3 \in 0 .. n /\ 3 # 0 /\ 3 - 1 = 2 /\ n >= 2
    BY <1>1, SMT
  <2> QED
    BY <1>1, <1>4, <1>7, <2>1 DEF GuestAt
<1>9. RunTokens(m, tokens) = f[n]
  BY RunTokensDef DEF f, n
<1>10. f[n] = IF n = 1 THEN a ELSE IF n = 2 THEN b ELSE c
  BY <1>1, <1>6, <1>7, <1>8, SMT
<1> QED
  BY <1>9, <1>10 DEF n

LEMMA TokensAhead ==
  ASSUME NEW n \in 1 .. 3
  PROVE  LET tokens == [k \in 1 .. n |-> look[k - 1]]
         IN  Len(tokens) = n /\ tokens[1] = look[0] /\ (n >= 2 => tokens[2] = look[1]) /\ (n >= 3 => tokens[3] = look[2])
<1> DEFINE tokens == [k \in 1 .. n |-> look[k - 1]]
<1>1. Len(tokens) = n
  BY SMT
<1>2. tokens[1] = look[0] /\ (n >= 2 => tokens[2] = look[1]) /\ (n >= 3 => tokens[3] = look[2])
  BY SMT
<1> QED
  BY <1>1, <1>2

LEMMA AfterTokensAre ==
  ASSUME skip \in 0 .. 3
  PROVE  LET a == GuestStep(start, look[0])
             b == GuestStep(a, look[1])
         IN  AfterTokens = IF skip \in {0, 1} THEN a ELSE IF skip = 2 THEN b ELSE GuestStep(b, look[2])
<1> DEFINE n == IF skip = 0 THEN 1 ELSE skip
           tokens == [k \in 1 .. n |-> look[k - 1]]
           a == GuestStep(start, look[0])
           b == GuestStep(a, look[1])
           c == GuestStep(b, look[2])
<1>1. n \in 1 .. 3 /\ (n = 1 <=> skip \in {0, 1}) /\ (n = 2 <=> skip = 2)
  BY SMT
<1>2. AfterTokens = RunTokens(start, tokens)
  BY DEF AfterTokens
<1> HIDE DEF n
<1>3. /\ Len(tokens) = n /\ tokens[1] = look[0] /\ (n >= 2 => tokens[2] = look[1])
      /\ (n >= 3 => tokens[3] = look[2])
  BY <1>1, TokensAhead
<1> HIDE DEF tokens
<1>4. /\ Len(tokens) \in 1 .. 3 /\ a = GuestStep(start, tokens[1])
      /\ (Len(tokens) >= 2 => b = GuestStep(a, tokens[2])) /\ (Len(tokens) >= 3 => c = GuestStep(b, tokens[3]))
  BY <1>1, <1>3, Zenon
<1> HIDE DEF a, b, c
<1>5. RunTokens(start, tokens) = IF Len(tokens) = 1 THEN a ELSE IF Len(tokens) = 2 THEN b ELSE c
  BY <1>4, RunThree
<1>6. AfterTokens = IF skip \in {0, 1} THEN a ELSE IF skip = 2 THEN b ELSE c
  BY <1>1, <1>2, <1>3, <1>5
<1> QED
  BY <1>6 DEF a, b, c

-----------------------------------------------------------------------------
(* The shapes of the tokens of a window.                                   *)

Commands == MathCmds \cup {CMD_MY_OUT, CMD_MY_IN, CMD_MY_SQRT, CMD_MY_LABEL, CMD_MY_JMP, CMD_MY_JB, CMD_MY_JNE}

Literal(t) == t.my_cmd = CMD_MY_PUSH /\ t.use_immed /\ t.reg = INVALID_REG /\ t.mode = MODE_NONE
Moves(t) ==
  /\ t.my_cmd \in {CMD_MY_PUSH, CMD_MY_POP} /\ ~t.use_immed /\ ~t.delete_stack_elem
  /\ t.mode \in AddressingModes /\ t.reg \in 0..3 /\ t.use_r8plus_regs \in BOOLEAN
Drops(t)    == t.my_cmd = CMD_MY_POP /\ ~t.use_immed /\ t.delete_stack_elem /\ t.mode = MODE_NONE
Commands1(t) == t.my_cmd \in Commands /\ ~t.use_immed
Shaped(t)   == Literal(t) \/ Moves(t) \/ Drops(t) \/ Commands1(t)

LEMMA ArgMoves ==
  ASSUME NEW cmd \in {CMD_MY_PUSH, CMD_MY_POP}, NEW mode \in AddressingModes, NEW reg \in 0..3, NEW high \in BOOLEAN
  PROVE  Moves(Arg(cmd, mode, reg, high))
<1> DEFINE t == Arg(cmd, mode, reg, high)
<1>1. /\ t.my_cmd = cmd /\ t.reg = reg /\ t.mode = mode /\ t.use_r8plus_regs = high
      /\ t.use_immed = FALSE /\ t.delete_stack_elem = FALSE
  BY SMT DEF Arg, ZeroToken, TokenOf
<1> HIDE DEF t
<1> QED
  BY <1>1, Zenon DEF Moves, t

LEMMA AlphabetShaped ==
  ASSUME NEW t \in Alphabet
  PROVE  Shaped(t)
<1>1. CASE t \in { PushImmed(v) : v \in Immediates }
  <2>1. PICK v \in Immediates : t = PushImmed(v)
    BY <1>1
  <2>2. /\ PushImmed(v).my_cmd = CMD_MY_PUSH /\ PushImmed(v).use_immed
        /\ PushImmed(v).reg = INVALID_REG /\ PushImmed(v).mode = MODE_NONE
    BY SMT DEF PushImmed, ZeroToken, TokenOf
  <2> QED
    BY <2>1, <2>2 DEF Shaped, Literal
<1>2. CASE t \in RegArgs(CMD_MY_PUSH) \cup RegArgs(CMD_MY_POP)
  <2>1. RAX..RBX = 0..3
    BY SMT DEF RAX, RBX
  <2>2. PlainRegs \subseteq 0..3 /\ HighRegs \subseteq 0..3
    BY <2>1, RegsAssumption
  <2>3. PICK cmd \in {CMD_MY_PUSH, CMD_MY_POP} : t \in RegArgs(cmd)
    BY <1>2, Zenon
  <2>4. \/ \E a \in AddressingModes \X PlainRegs : t = Arg(cmd, a[1], a[2], FALSE)
        \/ \E a \in AddressingModes \X HighRegs : t = Arg(cmd, a[1], a[2], TRUE)
    BY <2>3 DEF RegArgs
  <2> QED
    BY <2>2, <2>4, ArgMoves DEF Shaped
<1>3. CASE t = DropTop
  <2>1. DropTop.my_cmd = CMD_MY_POP /\ ~DropTop.use_immed /\ DropTop.delete_stack_elem /\ DropTop.mode = MODE_NONE
    BY SMT DEF DropTop, ZeroToken, TokenOf
  <2> QED
    BY <1>3, <2>1 DEF Shaped, Drops
<1>4. CASE t \in { Plain(cmd) : cmd \in MathCmds \cup {CMD_MY_OUT, CMD_MY_IN, CMD_MY_SQRT, CMD_MY_LABEL} }
  <2>1. PICK cmd \in Commands : t = Plain(cmd)
    BY <1>4 DEF Commands
  <2>2. Plain(cmd).my_cmd = cmd /\ ~Plain(cmd).use_immed
    BY SMT DEF Plain, ZeroToken, TokenOf
  <2> QED
    BY <2>1, <2>2 DEF Shaped, Commands1
<1>5. CASE t \in { Jump(cmd) : cmd \in {CMD_MY_JMP, CMD_MY_JB, CMD_MY_JNE} }
  <2>1. PICK cmd \in Commands : t = Jump(cmd)
    BY <1>5 DEF Commands
  <2>2. Jump(cmd).my_cmd = cmd /\ ~Jump(cmd).use_immed
    BY SMT DEF Jump, ZeroToken, TokenOf
  <2> QED
    BY <2>1, <2>2 DEF Shaped, Commands1
<1> QED
  BY <1>1, <1>2, <1>3, <1>4, <1>5 DEF Alphabet

(* A window is three tokens of the alphabet, or the memory access block    *)
(* around two of them.                                                     *)
LEMMA LooksShaped ==
  ASSUME NEW w \in Looks
  PROVE  /\ Shaped(w[0]) /\ Shaped(w[1]) /\ Shaped(w[2])
         /\ IsMemoryAccess(w) => w[4].my_cmd \in {CMD_MY_PUSH, CMD_MY_POP} /\ w[4] \in AtRcx
<1>1. CASE w \in { Ahead(<< t[1], t[2], t[3], ZeroToken, ZeroToken >>) :
                     t \in Alphabet \X Alphabet \X Alphabet }
  <2>1. PICK t \in Alphabet \X Alphabet \X Alphabet :
          w = Ahead(<< t[1], t[2], t[3], ZeroToken, ZeroToken >>)
    BY <1>1
  <2>2. Shaped(t[1]) /\ Shaped(t[2]) /\ Shaped(t[3])
    BY AlphabetShaped
  <2>3. w[0] = t[1] /\ w[1] = t[2] /\ w[2] = t[3] /\ w[4] = ZeroToken
    BY <2>1, SMT DEF Ahead
  <2>4. ZeroToken.my_cmd \notin {CMD_MY_PUSH, CMD_MY_POP}
    BY SMT DEF ZeroToken, TokenOf, CMD_MY_PUSH, CMD_MY_POP
  <2>5. ~IsMemoryAccess(w)
    BY <2>3, <2>4, SMT DEF IsMemoryAccess
  <2> QED
    BY <2>2, <2>3, <2>5
<1>2. CASE w \in { Ahead(<< PushRbx, t[1], t[2], PopRcx, t[3] >>) :
                     t \in Alphabet \X Alphabet \X AtRcx }
  <2>1. PICK t \in Alphabet \X Alphabet \X AtRcx :
          w = Ahead(<< PushRbx, t[1], t[2], PopRcx, t[3] >>)
    BY <1>2
  <2>2. Shaped(t[1]) /\ Shaped(t[2])
    BY AlphabetShaped
  <2>3. Shaped(PushRbx)
    BY OctalNames, ArgMoves DEF PushRbx, Shaped, AddressingModes
  <2>4. w[0] = PushRbx /\ w[1] = t[1] /\ w[2] = t[2] /\ w[4] = t[3] /\ t[3] \in AtRcx
    BY <2>1, SMT DEF Ahead
  <2>5. IsMemoryAccess(w) => w[4].my_cmd \in {CMD_MY_PUSH, CMD_MY_POP}
    BY SMT DEF IsMemoryAccess
  <2> QED
    BY <2>2, <2>3, <2>4, <2>5
<1> QED
  BY <1>1, <1>2 DEF Looks

LEMMA OperandOfToken ==
  ASSUME NEW t, NEW q, q = IF t.use_r8plus_regs THEN t.reg + 8 ELSE t.reg
  PROVE  /\ GuestReg(t) = Reg(q)
         /\ t.use_immed => GuestOperand(t) = Imm(t.immed)
         /\ ~t.use_immed /\ t.mode = MODE_REG_ADDRESS => GuestOperand(t) = Mem(q)
         /\ ~t.use_immed /\ t.mode # MODE_REG_ADDRESS => GuestOperand(t) = Reg(q)
<1>1. GuestReg(t) = Reg(q)
  BY DEF GuestReg
<1>2. GuestReg(t).reg = q
  BY <1>1, OperandFields
<1> QED
  BY <1>1, <1>2, Zenon DEF GuestOperand

-----------------------------------------------------------------------------
(* A single token.                                                         *)

(* A state has values in the sixteen registers, on the stack and in words  *)
(* of memory that do not overlap.                                          *)
Usable(R, S, M) ==
  R \in [0..15 -> Int] /\ S \in Seq(Int) /\ M \in [DOMAIN M -> Int] /\ Apart(M)

LEMMA PushImmedKeeps ==
  ASSUME NEW R, NEW S, NEW M, NEW X, NEW P, NEW kept,
         NEW t, Known(t), Literal(t), t.immed >= -127
  PROVE  Keeps(encode_token2push_pop(t), State(R, S, M, X, P), GuestStep(State(R, S, M, X, P), t), kept)
<1> DEFINE m == State(R, S, M, X, P)
           v == t.immed
           n == State(R, Append(S, v), M, X, P)
<1>1. v \in Ints /\ t.use_immed /\ t.my_cmd = CMD_MY_PUSH
  BY DEF Known, Literal
<1>2. encode_token2push_pop(t) = << IF v <= ASCII_MAX_SYMBOL THEN \h6A ELSE \h68 >> \o NumberBytes(v)
  BY <1>1, Zenon DEF encode_token2push_pop
<1>3. GuestOperand(t) = Imm(v)
  BY <1>1, OperandOfToken
<1> HIDE DEF v
<1>4. Takes(encode_token2push_pop(t), m, n)
  BY <1>1, <1>2, TakesPushed DEF v
<1>5. GuestStep(m, t) = n
  <2>1. Defined(m, Imm(v)) /\ Value(m, Imm(v)) = v
    BY ImmediateHeld
  <2>2. Pushed(m, v) = n
    BY PushedState
  <2> HIDE DEF m, n
  <2> QED
    BY <1>1, <1>3, <2>1, <2>2, GuestArms
<1> QED
  BY <1>4, <1>5, DoesOne, KeepsState

LEMMA MovesCode ==
  ASSUME NEW t, Moves(t), NEW h, h = (IF t.use_r8plus_regs THEN 8 ELSE 0), NEW d, d = t.reg
  PROVE  LET code1 == encode_token2push_pop(t)
             isPush == t.my_cmd = CMD_MY_PUSH
             at == t.mode = MODE_REG_ADDRESS
         IN  /\ at /\ isPush => code1 = MemPush(h, d)
             /\ at /\ ~isPush => code1 = MemPop(h, d)
             /\ ~at /\ isPush => code1 = RegPush(h, d)
             /\ ~at /\ ~isPush => code1 = RegPop(h, d)
<1>1. R8PlusPrefix(t) = HighPrefix(h)
  <2>1. CASE t.use_r8plus_regs
    BY <2>1, SMT DEF R8PlusPrefix, HighPrefix
  <2>2. CASE ~t.use_r8plus_regs
    BY <2>2, SMT DEF R8PlusPrefix, HighPrefix
  <2> QED
    BY <2>1, <2>2
<1>2. MODE_REG_ADDRESS # MODE_8_BYTE_IN_ADDRESS /\ MODE_NONE \notin {MODE_REG_ADDRESS, MODE_8_BYTE_IN_ADDRESS}
  BY SMT DEF MODE_REG_ADDRESS, MODE_8_BYTE_IN_ADDRESS, MODE_NONE
<1>3. ~t.use_immed /\ t.mode \in AddressingModes
  BY DEF Moves
<1>4. CASE t.mode = MODE_REG_ADDRESS
  <2>1. encode_token2push_pop(t) =
          R8PlusPrefix(t) \o IF t.my_cmd = CMD_MY_PUSH THEN << \hFF, \h30 + t.reg >> ELSE << \h8F, t.reg >>
    BY <1>2, <1>3, <1>4, Zenon DEF encode_token2push_pop
  <2> QED
    BY <1>1, <1>4, <2>1, Zenon DEF MemPush, MemPop
<1>5. CASE t.mode = MODE_8_BYTE_IN_ADDRESS
  <2>1. encode_token2push_pop(t) =
          R8PlusPrefix(t) \o << (IF t.my_cmd = CMD_MY_PUSH THEN \h50 ELSE \h58) + t.reg >>
    BY <1>2, <1>3, <1>5, Zenon DEF encode_token2push_pop
  <2>2. CASE t.my_cmd = CMD_MY_PUSH
    <3>1. encode_token2push_pop(t) = R8PlusPrefix(t) \o << \h50 + t.reg >>
      BY <2>1, <2>2, Zenon
    <3> QED
      BY <1>1, <1>2, <1>5, <2>2, <3>1, Zenon DEF RegPush
  <2>3. CASE t.my_cmd # CMD_MY_PUSH
    <3>1. encode_token2push_pop(t) = R8PlusPrefix(t) \o << \h58 + t.reg >>
      BY <2>1, <2>3, Zenon
    <3> QED
      BY <1>1, <1>2, <1>5, <2>3, <3>1, Zenon DEF RegPop
  <2> QED
    BY <2>2, <2>3
<1> QED
  BY <1>3, <1>4, <1>5 DEF AddressingModes

LEMMA MovesKeepsAt ==
  ASSUME NEW R, NEW S, NEW M, Usable(R, S, M), NEW X, NEW P, NEW kept, NEW t, Moves(t),
         NEW h \in {0, 8}, h = (IF t.use_r8plus_regs THEN 8 ELSE 0), NEW d \in 0..3, d = t.reg,
         NEW q, q = d + h, q = IF t.use_r8plus_regs THEN t.reg + 8 ELSE t.reg,
         NEW m, m = State(R, S, M, X, P), NEW g, g = GuestStep(m, t)
  PROVE  Keeps(encode_token2push_pop(t), m, g, kept)
<1> DEFINE c == encode_token2push_pop(t)
<1>2. ~t.use_immed /\ ~t.delete_stack_elem /\ t.my_cmd \in {CMD_MY_PUSH, CMD_MY_POP} /\ CMD_MY_PUSH # CMD_MY_POP
  <2>1. CMD_MY_PUSH # CMD_MY_POP
    BY SMT DEF CMD_MY_PUSH, CMD_MY_POP
  <2> QED
    BY <2>1 DEF Moves
<1>3. m.stack = S
  BY StateFields, SMT
<1>4. Len(S) >= 1 => S # << >>
  BY SMT DEF Usable
<1>5. g = Broken(m) => Keeps(c, m, g, kept)
  BY StateBreaks, KeepsFailed
<1>6. /\ Defined(m, Reg(q)) /\ Value(m, Reg(q)) = R[q]
      /\ R[q] \in DOMAIN M <=> Defined(m, Mem(q))
      /\ Value(m, Mem(q)) = M[R[q]]
  BY RegisterHeld, MemoryHeld
<1>7. /\ t.mode = MODE_REG_ADDRESS => GuestOperand(t) = Mem(q)
      /\ t.mode # MODE_REG_ADDRESS => GuestOperand(t) = Reg(q)
  BY <1>2, OperandOfToken
<1>8. t.my_cmd = CMD_MY_PUSH =>
        g = IF Defined(m, GuestOperand(t)) THEN Pushed(m, Value(m, GuestOperand(t))) ELSE Broken(m)
  BY GuestArms
<1>9. t.my_cmd = CMD_MY_POP =>
        g = IF Len(S) >= 1 /\ Defined(m, GuestOperand(t))
            THEN GuestStore(Popped(m), GuestOperand(t), Last(S)) ELSE Broken(m)
  BY <1>2, <1>3, GuestArms
<1>10. Popped(m) = State(R, Front(S), M, X, P)
  BY PoppedState
<1>11. CASE t.my_cmd = CMD_MY_PUSH /\ t.mode = MODE_REG_ADDRESS
  <2>1. c = MemPush(h, d)
    BY <1>11, MovesCode
  <2>2. CASE R[q] \in DOMAIN M
    <3>1. g = State(R, Append(S, M[R[q]]), M, X, P)
      BY <1>6, <1>7, <1>8, <1>11, <2>2, PushedState
    <3>2. Takes(MemPush(h, d), State(R, S, M, X, P), State(R, Append(S, M[R[q]]), M, X, P))
      BY <2>2, TakesForms
    <3>3. Does(c, m, g)
      BY <2>1, <3>1, <3>2, DoesOne
    <3> QED
      BY <3>1, <3>3, KeepsState
  <2>3. CASE R[q] \notin DOMAIN M
    BY <1>5, <1>6, <1>7, <1>8, <1>11, <2>3
  <2> QED
    BY <2>2, <2>3
<1>12. CASE t.my_cmd = CMD_MY_PUSH /\ t.mode # MODE_REG_ADDRESS
  <2>1. c = RegPush(h, d)
    BY <1>12, MovesCode
  <2>2. g = State(R, Append(S, R[q]), M, X, P)
    BY <1>6, <1>7, <1>8, <1>12, PushedState
  <2>3. Takes(RegPush(h, d), State(R, S, M, X, P), State(R, Append(S, R[q]), M, X, P))
    BY TakesForms
  <2>4. Does(c, m, g)
    BY <2>1, <2>2, <2>3, DoesOne
  <2> QED
    BY <2>2, <2>4, KeepsState
<1>13. CASE t.my_cmd = CMD_MY_POP /\ t.mode = MODE_REG_ADDRESS
  <2>1. c = MemPop(h, d)
    BY <1>2, <1>13, MovesCode
  <2>2. CASE R[q] \in DOMAIN M /\ Len(S) >= 1
    <3>1. g = GuestStore(State(R, Front(S), M, X, P), Mem(q), Last(S))
      BY <1>6, <1>7, <1>9, <1>10, <1>13, <2>2
    <3>2. g = State(R, Front(S), With(M, R[q], Last(S)), X, P)
      BY <3>1, GuestStoreState
    <3>3. Overwrite(M, R[q], Last(S)) = With(M, R[q], Last(S))
      <4>1. Apart(M) /\ M = [a \in DOMAIN M |-> M[a]]
        BY DEF Usable
      <4> QED
        BY <2>2, <4>1, StoreTearsNothing
    <3>4. Takes(MemPop(h, d), State(R, S, M, X, P), State(R, Front(S), Overwrite(M, R[q], Last(S)), X, P))
      BY <1>4, <2>2, TakesForms
    <3>5. Does(c, m, g)
      BY <2>1, <3>2, <3>3, <3>4, DoesOne
    <3> QED
      BY <3>2, <3>5, KeepsState
  <2>3. CASE ~(R[q] \in DOMAIN M /\ Len(S) >= 1)
    BY <1>5, <1>6, <1>7, <1>9, <1>13, <2>3
  <2> QED
    BY <2>2, <2>3
<1>14. CASE t.my_cmd = CMD_MY_POP /\ t.mode # MODE_REG_ADDRESS
  <2>1. c = RegPop(h, d)
    BY <1>2, <1>14, MovesCode
  <2>2. CASE Len(S) >= 1
    <3>1. g = GuestStore(State(R, Front(S), M, X, P), Reg(q), Last(S))
      BY <1>6, <1>7, <1>9, <1>10, <1>14, <2>2
    <3>2. g = State(With(R, q, Last(S)), Front(S), M, X, P)
      BY <3>1, GuestStoreState
    <3>3. Takes(RegPop(h, d), State(R, S, M, X, P), State(With(R, q, Last(S)), Front(S), M, X, P))
      BY <1>4, <2>2, TakesForms
    <3>4. Does(c, m, g)
      BY <2>1, <3>2, <3>3, DoesOne
    <3> QED
      BY <3>2, <3>4, KeepsState
  <2>3. CASE ~(Len(S) >= 1)
    BY <1>5, <1>9, <1>14, <2>3
  <2> QED
    BY <2>2, <2>3
<1> QED
  BY <1>2, <1>11, <1>12, <1>13, <1>14

LEMMA MovesKeeps ==
  ASSUME NEW R, NEW S, NEW M, Usable(R, S, M), NEW X, NEW P, NEW kept, NEW t, Moves(t)
  PROVE  Keeps(encode_token2push_pop(t), State(R, S, M, X, P), GuestStep(State(R, S, M, X, P), t), kept)
<1> DEFINE h == IF t.use_r8plus_regs THEN 8 ELSE 0
           d == t.reg
           q == d + h
<1>1. h \in {0, 8} /\ d \in 0..3 /\ q = IF t.use_r8plus_regs THEN t.reg + 8 ELSE t.reg
  BY SMT DEF Moves
<1>2. h = (IF t.use_r8plus_regs THEN 8 ELSE 0) /\ d = t.reg /\ q = d + h
  OBVIOUS
<1> HIDE DEF h, d, q
<1> QED
  BY <1>1, <1>2, MovesKeepsAt

LEMMA CommandArms ==
  ASSUME NEW t, NEW space, NEW c, c = t.my_cmd
  PROVE  /\ c \in {CMD_MY_PUSH, CMD_MY_POP} => x86_cmd_ctor(t, space) = encode_token2push_pop(t)
         /\ c = CMD_MY_OUT => x86_cmd_ctor(t, space) = encode_print(space)
         /\ c = CMD_MY_SQRT => x86_cmd_ctor(t, space) = encode_sqrt
         /\ c = CMD_MY_JMP => x86_cmd_ctor(t, space) = pre_encode_jmp(t)
         /\ c \in CondJmpCmds => x86_cmd_ctor(t, space) = encode_cmp \o pre_encode_conditional_jmp(t)
<1>1. /\ c \in {CMD_MY_PUSH, CMD_MY_POP} =>
           c \notin CondJmpCmds \cup {CMD_MY_OUT, CMD_MY_IN, CMD_MY_RET, CMD_MY_SQRT, CMD_MY_CALL, CMD_MY_JMP}
      /\ c = CMD_MY_SQRT => c \notin {CMD_MY_OUT, CMD_MY_IN, CMD_MY_RET, CMD_MY_CALL, CMD_MY_JMP, CMD_MY_PUSH, CMD_MY_POP}
                              \cup CondJmpCmds
      /\ c = CMD_MY_OUT => c \notin {CMD_MY_SQRT, CMD_MY_IN, CMD_MY_RET, CMD_MY_CALL, CMD_MY_JMP, CMD_MY_PUSH, CMD_MY_POP}
                              \cup CondJmpCmds
      /\ c = CMD_MY_JMP => c \notin {CMD_MY_OUT, CMD_MY_IN, CMD_MY_RET, CMD_MY_CALL, CMD_MY_SQRT, CMD_MY_PUSH, CMD_MY_POP}
                              \cup CondJmpCmds
      /\ c \in CondJmpCmds =>
           c \notin {CMD_MY_OUT, CMD_MY_IN, CMD_MY_RET, CMD_MY_CALL, CMD_MY_SQRT, CMD_MY_JMP, CMD_MY_PUSH, CMD_MY_POP}
  BY SMT DEF CondJmpCmds, CMD_MY_JB, CMD_MY_JBE, CMD_MY_JA, CMD_MY_JAE, CMD_MY_JE, CMD_MY_JNE,
    CMD_MY_OUT, CMD_MY_IN, CMD_MY_RET, CMD_MY_SQRT, CMD_MY_CALL, CMD_MY_JMP, CMD_MY_PUSH, CMD_MY_POP
<1>2. c \in {CMD_MY_PUSH, CMD_MY_POP} => x86_cmd_ctor(t, space) = encode_token2push_pop(t)
  BY <1>1, Zenon DEF x86_cmd_ctor
<1>3. c = CMD_MY_OUT => x86_cmd_ctor(t, space) = encode_print(space)
  BY <1>1, Zenon DEF x86_cmd_ctor
<1>4. c = CMD_MY_SQRT => x86_cmd_ctor(t, space) = encode_sqrt
  BY <1>1, Zenon DEF x86_cmd_ctor
<1>5. c = CMD_MY_JMP => x86_cmd_ctor(t, space) = pre_encode_jmp(t)
  BY <1>1, Zenon DEF x86_cmd_ctor
<1>6. c \in CondJmpCmds => x86_cmd_ctor(t, space) = encode_cmp \o pre_encode_conditional_jmp(t)
  BY <1>1, Zenon DEF x86_cmd_ctor
<1> QED
  BY <1>2, <1>3, <1>4, <1>5, <1>6

LEMMA DropKeeps ==
  ASSUME NEW R, NEW S, NEW M, Usable(R, S, M), NEW X, NEW P, NEW kept, NEW t, Drops(t)
  PROVE  Keeps(encode_token2push_pop(t), State(R, S, M, X, P), GuestStep(State(R, S, M, X, P), t), kept)
<1> DEFINE m == State(R, S, M, X, P)
           g == GuestStep(m, t)
<1>1. /\ t.my_cmd = CMD_MY_POP /\ ~t.use_immed /\ t.mode = MODE_NONE /\ t.delete_stack_elem
  BY DEF Drops
<1>2. MODE_NONE \notin {MODE_REG_ADDRESS, MODE_8_BYTE_IN_ADDRESS}
  BY SMT DEF MODE_REG_ADDRESS, MODE_8_BYTE_IN_ADDRESS, MODE_NONE
<1>3. encode_token2push_pop(t) = << \h48, \h83, \hC4, \h08 >>
  BY <1>1, <1>2, Zenon DEF encode_token2push_pop
<1>4. m.stack = S
  BY StateFields, SMT
<1>5. g = IF Len(m.stack) >= 1 THEN Popped(m) ELSE Broken(m)
  BY <1>1, GuestArms
<1>6. CASE Len(S) >= 1
  <2>1. S # << >>
    BY <1>6, SMT
  <2>2. g = State(R, Front(S), M, X, P)
    BY <1>4, <1>5, <1>6, PoppedState
  <2>3. Does(encode_token2push_pop(t), m, State(R, Front(S), M, X, P))
    BY <1>3, <2>1, TakesDrop, DoesOne
  <2> QED
    BY <2>2, <2>3, KeepsState
<1>7. CASE ~(Len(S) >= 1)
  BY <1>4, <1>5, <1>7, StateBreaks, KeepsFailed
<1> QED
  BY <1>6, <1>7

LEMMA OutKeeps ==
  ASSUME NEW R, NEW S, NEW M, Usable(R, S, M), NEW X, NEW P,
         NEW space, PrintDecimal - (space + JMP_LENGTH) \in Ints,
         NEW t, t.my_cmd = CMD_MY_OUT
  PROVE  Keeps(encode_print(space), State(R, S, M, X, P), GuestStep(State(R, S, M, X, P), t), {RBX} \cup 12..15)
<1> DEFINE m == State(R, S, M, X, P)
           g == GuestStep(m, t)
           kept == {RBX} \cup 12..15
           A == With(R, rDI, Last(S))
           Q == AfterCall(A)
<1>1. m.stack = S
  BY StateFields, SMT
<1>2. g = IF Len(m.stack) >= 1 THEN Printed(Popped(m), Last(m.stack)) ELSE Broken(m)
  BY GuestArms
<1>3. DOMAIN R = 0..15 /\ rDI \in 0..15
  BY SMT DEF Usable, rDI
<1>4. CASE Len(S) >= 1
  <2>1. S # << >>
    BY <1>4, SMT
  <2>2. g = State(R, Front(S), M, X, Append(P, Last(S)))
    BY <1>1, <1>2, <1>4, PoppedState, PushedState
  <2>3. Does(encode_print(space), m, State(Q, Front(S), M, X, Append(P, Last(S))))
    BY <1>3, <2>1, PrintDoes
  <2>4. ASSUME NEW r \in kept PROVE Q[r] = R[r]
    <3>1. r \in 0..15 /\ r # rDI /\ r \notin CallerSaved
      BY SMT DEF rDI, rAX, rDX, RBX, CallerSaved
    <3>2. DOMAIN A = DOMAIN R /\ A[r] = R[r]
      <4>1. rDI \in DOMAIN R /\ r \in DOMAIN R
        BY <1>3, <3>1
      <4> QED
        BY <3>1, <4>1, WithRead
    <3> HIDE DEF A
    <3>3. AfterCall(A)[r] = A[r]
      BY <1>3, <3>1, <3>2, Zenon DEF AfterCall
    <3> QED
      BY <3>2, <3>3
  <2> HIDE DEF A, Q, kept
  <2> QED
    BY <2>2, <2>3, <2>4, KeepsState DEF kept
<1>5. CASE ~(Len(S) >= 1)
  BY <1>1, <1>2, <1>5, StateBreaks, KeepsFailed
<1> QED
  BY <1>4, <1>5

LEMMA SqrtKeeps ==
  ASSUME NEW R, NEW S, NEW M, Usable(R, S, M), NEW X, NEW P,
         NEW t, t.my_cmd = CMD_MY_SQRT
  PROVE  Keeps(encode_sqrt, State(R, S, M, X, P), GuestStep(State(R, S, M, X, P), t), {RBX} \cup 8..15)
<1> DEFINE m == State(R, S, M, X, P)
           g == GuestStep(m, t)
           kept == {RBX} \cup 8..15
<1>1. m.stack = S
  BY StateFields, SMT
<1>2. g = IF Len(m.stack) >= 1 /\ Last(m.stack) >= 0 THEN Rooted(m) ELSE Broken(m)
  BY GuestResults
<1>3. DOMAIN R = 0..15 /\ rAX \in 0..15
  BY SMT DEF Usable, rAX
<1>4. CASE Len(S) >= 1 /\ Last(S) >= 0
  <2>1. S # << >>
    BY <1>4, SMT
  <2>2. g = State(R, Append(Front(S), Isqrt(Last(S))), M, X, P)
    BY <1>1, <1>2, <1>4, CalculatedState
  <2>3. Leaves(encode_sqrt, m, R, {rAX}, Append(Front(S), Isqrt(Last(S))), M, P)
    BY <1>3, <1>4, <2>1, SqrtDoes
  <2>4. \A r \in kept : r \in DOMAIN R /\ r \notin {rAX}
    BY <1>3, SMT DEF rAX, RBX
  <2> HIDE DEF kept
  <2>5. Keeps(encode_sqrt, m, g, kept)
    BY <2>2, <2>3, <2>4, KeepsLeft
  <2> QED
    BY <2>5 DEF kept
<1>5. CASE ~(Len(S) >= 1 /\ Last(S) >= 0)
  BY <1>1, <1>2, <1>5, StateBreaks, KeepsFailed
<1> QED
  BY <1>4, <1>5

LEMMA ConditionalKeeps ==
  ASSUME NEW R, NEW S, NEW M, Usable(R, S, M), NEW X, NEW P,
         NEW t, t.my_cmd \in CondJmpCmds, t.offset \in Ints
  PROVE  Keeps(encode_cmp \o pre_encode_conditional_jmp(t), State(R, S, M, X, P),
               GuestStep(State(R, S, M, X, P), t), {RBX} \cup 8..15)
<1> DEFINE m == State(R, S, M, X, P)
           g == GuestStep(m, t)
           kept == {RBX} \cup 8..15
           F == Front(Front(S))
           c == encode_cmp \o pre_encode_conditional_jmp(t)
<1>1. m.stack = S
  BY StateFields, SMT
<1>2. g = IF Len(m.stack) >= 2 THEN Popped(Popped(m)) ELSE Broken(m)
  BY GuestArms
<1>3. DOMAIN R = 0..15 /\ RCX \in 0..15 /\ RDX \in 0..15 /\ S \in Seq(Int)
  BY SMT DEF Usable, RCX, RDX
<1>4. CASE Len(S) >= 2
  <2>1. g = State(R, F, M, X, P)
    BY <1>1, <1>2, <1>4, PoppedState
  <2>2. Leaves(c, m, R, {RCX, RDX}, F, M, P)
    BY <1>3, <1>4, ConditionalDoes
  <2>3. \A r \in kept : r \in DOMAIN R /\ r \notin {RCX, RDX}
    BY <1>3, SMT DEF RCX, RDX, RBX
  <2> HIDE DEF kept, F, c
  <2>4. Keeps(c, m, g, kept)
    BY <2>1, <2>2, <2>3, KeepsLeft
  <2> QED
    BY <2>4 DEF kept, c
<1>5. CASE ~(Len(S) >= 2)
  BY <1>1, <1>2, <1>5, StateBreaks, KeepsFailed
<1> QED
  BY <1>4, <1>5

LEMMA IdleKeeps ==
  ASSUME NEW R, NEW S, NEW M, NEW X, NEW P, NEW kept,
         NEW t, t.my_cmd \in {CMD_MY_JMP, CMD_MY_LABEL}, t.offset \in Ints
  PROVE  /\ Keeps(pre_encode_jmp(t), State(R, S, M, X, P), GuestStep(State(R, S, M, X, P), t), kept)
         /\ Keeps(<< >>, State(R, S, M, X, P), GuestStep(State(R, S, M, X, P), t), kept)
<1> DEFINE m == State(R, S, M, X, P)
<1>1. GuestStep(m, t) = m
  BY GuestArms
<1>2. Does(pre_encode_jmp(t), m, m)
  BY TakesJmp, DoesOne DEF pre_encode_jmp
<1>3. Does(<< >>, m, m)
  BY DoesNothing
<1> QED
  BY <1>1, <1>2, <1>3, KeepsState

LEMMA StartState ==
  ASSUME start \in Machines
  PROVE  \E R, S, M : Usable(R, S, M) /\ start = State(R, S, M, 0, << >>)
<1> DEFINE R == start.regs
           S == start.stack
           M == start.mem
<1>1. /\ start = Machine(R, S, M) /\ R \in [0..15 -> Int] /\ S \in Seq(Int) /\ M \in [DOMAIN M -> Int]
      /\ \A a, b \in DOMAIN M : a \in Int /\ (b \in a - 7 .. a + 7 => a = b)
  BY MachinesAssumption, Zenon DEF IsMachine
<1> HIDE DEF R, S, M
<1>2. start = State(R, S, M, 0, << >>)
  BY <1>1, MachineState
<1>3. Usable(R, S, M)
  BY <1>1, Zenon DEF Usable, Apart
<1> QED
  BY <1>2, <1>3, Zenon

LEMMA NoFold ==
  ASSUME NEW w, convert_tokens2nonstack_logic(w).skip = 0
  PROVE  w[0].my_cmd \notin MathCmds
<1> SUFFICES ASSUME w[0].my_cmd \in MathCmds PROVE FALSE
  OBVIOUS
<1>1. w[0].my_cmd # CMD_MY_PUSH
  BY SMT DEF MathCmds, CMD_MY_PUSH, CMD_MY_ADD, CMD_MY_SUB, CMD_MY_MUL, CMD_MY_DIV
<1>2. ~IsMemoryAccess(w)
  BY <1>1 DEF IsMemoryAccess
<1>3. convert_tokens2nonstack_logic(w) = Fold(1, MathOfStack(w[0]))
  BY <1>1, <1>2, Zenon DEF convert_tokens2nonstack_logic
<1> QED
  BY <1>3, FoldRead

LEMMA CommandKinds ==
  /\ CMD_MY_LABEL \notin {CMD_MY_PUSH, CMD_MY_POP, CMD_MY_OUT, CMD_MY_SQRT, CMD_MY_JMP}
  /\ CMD_MY_LABEL \notin CondJmpCmds /\ CMD_MY_OUT # CMD_MY_LABEL
  /\ CMD_MY_OUT \notin {CMD_MY_PUSH, CMD_MY_POP, CMD_MY_SQRT, CMD_MY_JMP} \cup CondJmpCmds
  /\ {CMD_MY_JB, CMD_MY_JNE} \subseteq CondJmpCmds
BY SMT DEF CondJmpCmds, CMD_MY_JB, CMD_MY_JBE, CMD_MY_JA, CMD_MY_JAE, CMD_MY_JE, CMD_MY_JNE,
  CMD_MY_OUT, CMD_MY_LABEL, CMD_MY_SQRT, CMD_MY_JMP, CMD_MY_PUSH, CMD_MY_POP

LEMMA TokenKeeps ==
  ASSUME NEW R, NEW S, NEW M, Usable(R, S, M), NEW t, Usual(t), Shaped(t),
         t.use_immed => t.immed >= -127, t.my_cmd # CMD_MY_IN, t.my_cmd \notin MathCmds
  PROVE  Keeps(IF t.my_cmd = CMD_MY_LABEL THEN << >> ELSE x86_cmd_ctor(t, Space),
               State(R, S, M, 0, << >>), GuestStep(State(R, S, M, 0, << >>), t),
               {RBX} \cup (IF t.my_cmd = CMD_MY_OUT THEN 12..15 ELSE 8..15))
<1> DEFINE m == State(R, S, M, 0, << >>)
           g == GuestStep(m, t)
           c == t.my_cmd
           bytes == IF c = CMD_MY_LABEL THEN << >> ELSE x86_cmd_ctor(t, Space)
           kept == {RBX} \cup (IF c = CMD_MY_OUT THEN 12..15 ELSE 8..15)
<1>1. Known(t) /\ t.offset \in Ints
  BY DEF Usual, Known
<1>2. c = CMD_MY_OUT => kept = {RBX} \cup 12..15
  OBVIOUS
<1>3. c # CMD_MY_OUT => kept = {RBX} \cup 8..15
  OBVIOUS
<1>4. PrintDecimal - (Space + JMP_LENGTH) \in Ints
  BY AddressesAssumption, Zenon
<1> HIDE DEF m, kept
<1>5. CASE Literal(t)
  <2>1. bytes = encode_token2push_pop(t)
    BY <1>5, CommandKinds, CommandArms DEF Literal
  <2> QED
    BY <1>1, <1>5, <2>1, PushImmedKeeps DEF m, Literal, kept
<1>6. CASE Moves(t)
  <2>1. bytes = encode_token2push_pop(t)
    BY <1>6, CommandKinds, CommandArms DEF Moves
  <2> QED
    BY <1>6, <2>1, MovesKeeps DEF m, kept
<1>7. CASE Drops(t)
  <2>1. bytes = encode_token2push_pop(t)
    BY <1>7, CommandKinds, CommandArms DEF Drops
  <2> QED
    BY <1>7, <2>1, DropKeeps DEF m, kept
<1>8. CASE c = CMD_MY_OUT
  <2>1. bytes = encode_print(Space)
    BY <1>8, CommandKinds, CommandArms
  <2> QED
    BY <1>2, <1>4, <1>8, <2>1, OutKeeps DEF m, kept
<1>9. CASE c = CMD_MY_SQRT
  <2>1. bytes = encode_sqrt
    BY <1>9, CommandKinds, CommandArms
  <2> QED
    BY <1>3, <1>9, <2>1, CommandKinds, SqrtKeeps DEF m, kept
<1>10. CASE c = CMD_MY_JMP
  <2>1. bytes = pre_encode_jmp(t)
    BY <1>10, CommandKinds, CommandArms
  <2> QED
    BY <1>1, <1>10, <2>1, IdleKeeps DEF m, kept
<1>11. CASE c = CMD_MY_LABEL
  BY <1>1, <1>11, IdleKeeps DEF m, kept
<1>12. CASE c \in {CMD_MY_JB, CMD_MY_JNE}
  <2>1. bytes = encode_cmp \o pre_encode_conditional_jmp(t) /\ c \in CondJmpCmds
    BY <1>12, CommandKinds, CommandArms
  <2>2. Keeps(encode_cmp \o pre_encode_conditional_jmp(t), m, g, {RBX} \cup 8..15)
    BY <1>1, <2>1, ConditionalKeeps DEF m
  <2>3. c # CMD_MY_OUT
    BY <2>1, CommandKinds
  <2> QED
    BY <1>3, <2>1, <2>2, <2>3 DEF m, kept
<1>13. c \in MathCmds \/ c = CMD_MY_IN \/ Literal(t) \/ Moves(t) \/ Drops(t) \/ c = CMD_MY_OUT \/ c = CMD_MY_SQRT
         \/ c = CMD_MY_JMP \/ c = CMD_MY_LABEL \/ c \in {CMD_MY_JB, CMD_MY_JNE}
  BY DEF Shaped, Commands1, Commands
<1> QED
  BY <1>5, <1>6, <1>7, <1>8, <1>9, <1>10, <1>11, <1>12, <1>13 DEF m, kept

(* The inductive invariant: where the window starts, and what was written  *)
(* for the token no fold took.                                             *)
TokenRunInv ==
  /\ TokenInv
  /\ start \in Machines
  /\ translated => skip = convert_tokens2nonstack_logic(look).skip

LEMMA TokenRunStep ==
  ASSUME TokenRunInv, Translate
  PROVE  TokenRunInv'
<1>1. TokenInv'
  BY TokenStep DEF TokenRunInv
<1>2. look' = look /\ start' = start /\ skip' = convert_tokens2nonstack_logic(look).skip
  BY DEF Translate
<1> QED
  BY <1>1, <1>2 DEF TokenRunInv

LEMMA TokenRuns ==
  ASSUME TokenRunInv
  PROVE  TokensKeepStackLogic
<1> DEFINE t == look[0]
<1> SUFFICES ASSUME translated, skip = 0, SoundToken
             PROVE  SameAs(AfterTokens)
  BY Zenon DEF TokensKeepStackLogic
<1>1. Usual(t) /\ Shaped(t)
  <2>1. 0 \in 0..4
    BY SMT
  <2> QED
    BY <2>1, LooksUsual, LooksShaped DEF TokenRunInv, TokenInv
<1>2. (t.use_immed => t.immed >= -127) /\ t.my_cmd # CMD_MY_IN
  BY DEF SoundToken, PushedWhole
<1>3. t.my_cmd \notin MathCmds
  BY NoFold DEF TokenRunInv
<1>4. code = IF t.my_cmd = CMD_MY_LABEL THEN << >> ELSE x86_cmd_ctor(t, Space)
  BY DEF TokenRunInv, TokenInv
<1>5. AfterTokens = GuestStep(start, t)
  <2>1. skip \in 0 .. 3 /\ skip \in {0, 1}
    BY SMT
  <2> QED
    BY <2>1, AfterTokensAre
<1>6. KeptRegs = {RBX} \cup (IF t.my_cmd = CMD_MY_OUT THEN 12..15 ELSE 8..15)
  BY DEF KeptRegs
<1>7. PICK R, S, M : Usable(R, S, M) /\ start = State(R, S, M, 0, << >>)
  BY StartState DEF TokenRunInv
<1> HIDE DEF t
<1>8. Keeps(code, start, GuestStep(start, t), KeptRegs)
  BY <1>1, <1>2, <1>3, <1>4, <1>6, <1>7, TokenKeeps
<1> QED
  BY <1>5, <1>8, KeepsSame

(* Of a single token the code does to the stack, the data memory, the      *)
(* output and the registers the guest keeps what the guest command does,   *)
(* for every immediate from -127 on, every register and addressing mode,   *)
(* and whatever state the token is reached in; in, which takes a value off *)
(* the stack where it should leave one, is excepted (x86_cmd_ctor,         *)
(* encode_token2push_pop, encode_sqrt, encode_print, encode_cmp).          *)
THEOREM TokensRun == Spec => []TokensKeepStackLogic
<1>1. Init => TokenRunInv
  BY DEF Init, TokenRunInv, TokenInv
<1>2. TokenRunInv /\ [Translate]_vars => TokenRunInv'
  <2>1. CASE Translate
    BY <2>1, TokenRunStep
  <2>2. CASE UNCHANGED vars
    BY <2>2 DEF vars, TokenRunInv, TokenInv
  <2> QED
    BY <2>1, <2>2
<1>3. TokenRunInv => TokensKeepStackLogic
  BY TokenRuns
<1> QED
  BY <1>1, <1>2, <1>3, PTL DEF Spec

-----------------------------------------------------------------------------
(* The pieces of a fold.                                                   *)

LEMMA LeavesThen ==
  ASSUME NEW cmd, NEW rest, NEW m, NEW n, NEW R, NEW lost, NEW S, NEW M, NEW P,
         Takes(cmd, m, n), Leaves(rest, n, R, lost, S, M, P)
  PROVE  Leaves(Then(cmd, rest), m, R, lost, S, M, P)
<1>1. PICK Q, y : Does(rest, n, State(Q, S, M, y, P)) /\ \A r \in DOMAIN R : r \notin lost => Q[r] = R[r]
  BY Zenon DEF Leaves
<1>2. Does(Then(cmd, rest), m, State(Q, S, M, y, P))
  BY <1>1, DoesThen, Zenon DEF Takes
<1> QED
  BY <1>1, <1>2, Zenon DEF Leaves

(* A math command leaves its result in rax, and may lose rdx.              *)
Applies(b, Q, v, T, M, X, P) ==
  \E N : /\ Takes(b, State(Q, T, M, X, P), State(N, T, M, X, P)) /\ N[RAX] = v
         /\ \A r \in DOMAIN Q : r \notin {RAX, RDX} => N[r] = Q[r]

LEMMA AppliedIsPushed ==
  ASSUME NEW b, NEW Q, NEW v, NEW T, NEW M, NEW X, NEW P, Applies(b, Q, v, T, M, X, P),
         NEW R, DOMAIN Q = DOMAIN R, \A r \in DOMAIN R : r \notin {RAX, RDX, RDI} => Q[r] = R[r]
  PROVE  Leaves(Then(b, PushReg(RAX)), State(Q, T, M, X, P), R, {RAX, RDX, RDI}, Append(T, v), M, P)
<1>1. PICK N : /\ Takes(b, State(Q, T, M, X, P), State(N, T, M, X, P)) /\ N[RAX] = v
               /\ \A r \in DOMAIN Q : r \notin {RAX, RDX} => N[r] = Q[r]
  BY Zenon DEF Applies
<1>2. Takes(PushReg(RAX), State(N, T, M, X, P), State(N, Append(T, v), M, X, P))
  BY <1>1, OctalNames, TakesPushPop
<1>3. Does(Then(b, PushReg(RAX)), State(Q, T, M, X, P), State(N, Append(T, v), M, X, P))
  BY <1>1, <1>2, TakesThen
<1>4. \A r \in DOMAIN R : r \notin {RAX, RDX, RDI} => N[r] = R[r]
  BY <1>1
<1> QED
  BY <1>3, <1>4, Zenon DEF Leaves

LEMMA MathCommands ==
  ASSUME NEW math, NEW c, c = math.my_cmd, NEW cmd, cmd = get_cmd_from_token(math), NEW a, NEW v
  PROVE  /\ c = CMD_MY_ADD => cmd = ADD /\ GuestMath(c, a, v) = a + v
         /\ c = CMD_MY_SUB => cmd = SUB /\ GuestMath(c, a, v) = a - v
         /\ c = CMD_MY_MUL => cmd = MUL /\ GuestMath(c, a, v) = a * v
         /\ c = CMD_MY_DIV => cmd = DIV /\ GuestMath(c, a, v) = a \div v
<1>1. /\ CMD_MY_ADD # CMD_MY_SUB /\ CMD_MY_ADD # CMD_MY_MUL /\ CMD_MY_ADD # CMD_MY_DIV
      /\ CMD_MY_SUB # CMD_MY_MUL /\ CMD_MY_SUB # CMD_MY_DIV /\ CMD_MY_MUL # CMD_MY_DIV
  BY SMT DEF CMD_MY_ADD, CMD_MY_SUB, CMD_MY_MUL, CMD_MY_DIV
<1>2. ASSUME c = CMD_MY_ADD PROVE cmd = ADD /\ GuestMath(c, a, v) = a + v
  BY <1>1, <1>2, Zenon DEF get_cmd_from_token, GuestMath
<1>3. ASSUME c = CMD_MY_SUB PROVE cmd = SUB /\ GuestMath(c, a, v) = a - v
  BY <1>1, <1>3, Zenon DEF get_cmd_from_token, GuestMath
<1>4. ASSUME c = CMD_MY_MUL PROVE cmd = MUL /\ GuestMath(c, a, v) = a * v
  BY <1>1, <1>4, Zenon DEF get_cmd_from_token, GuestMath
<1>5. ASSUME c = CMD_MY_DIV PROVE cmd = DIV /\ GuestMath(c, a, v) = a \div v
  BY <1>1, <1>5, Zenon DEF get_cmd_from_token, GuestMath
<1> QED
  BY <1>2, <1>3, <1>4, <1>5

(* add or sub of an operand to rax.                                        *)
LEMMA OperandApplies ==
  ASSUME NEW math, AddOrSub(math), NEW src \in Octals \cup {INVALID_REG}, NEW v \in Ints,
         NEW info, Asks(info, get_cmd_from_token(math), RAX, src, v, FALSE, FALSE),
         NEW Q, RAX \in DOMAIN Q, NEW T, NEW M, NEW X, NEW P, NEW u,
         Value(State(Q, T, M, X, P), OperandOf(src, v, FALSE)) = u
  PROVE  Applies(encode_cmd(info), Q, GuestMath(math.my_cmd, Q[RAX], u), T, M, X, P)
<1> DEFINE cmd == get_cmd_from_token(math)
           a == Q[RAX]
           N == With(Q, RAX, ResultOf(cmd, a, u))
           o == OperandOf(src, v, FALSE)
<1>1. cmd \in {ADD, SUB} /\ ResultOf(cmd, a, u) = GuestMath(math.my_cmd, a, u)
  <2>0. /\ math.my_cmd = CMD_MY_ADD => cmd = ADD /\ GuestMath(math.my_cmd, a, u) = a + u
        /\ math.my_cmd = CMD_MY_SUB => cmd = SUB /\ GuestMath(math.my_cmd, a, u) = a - u
    <3> HIDE DEF a
    <3> QED
      BY MathCommands
  <2> HIDE DEF cmd, a
  <2>1. CASE math.my_cmd = CMD_MY_ADD
    BY <2>0, <2>1, Distinct, Zenon DEF ResultOf
  <2>2. CASE math.my_cmd = CMD_MY_SUB
    BY <2>0, <2>2, Distinct, Zenon DEF ResultOf
  <2> QED
    BY <2>1, <2>2 DEF AddOrSub
<1>2. cmd \in {MOV, ADD, SUB} /\ cmd # MOV
  BY <1>1, Distinct, Zenon
<1>3. Defined(State(Q, T, M, X, P), o)
  BY OperandValues DEF OperandOf
<1> HIDE DEF cmd, o
<1>4. Takes(encode_cmd(info), State(Q, T, M, X, P), State(With(Q, RAX, ResultOf(cmd, Q[RAX], u)), T, M, X, P))
  BY <1>2, <1>3, TakesOperand DEF cmd, o
<1>5. N[RAX] = ResultOf(cmd, a, u) /\ \A r \in DOMAIN Q : r \notin {RAX, RDX} => N[r] = Q[r]
  BY WithRead
<1> HIDE DEF N
<1> QED
  BY <1>1, <1>4, <1>5, Zenon DEF Applies, N

(* Any math command on rax and rdi.                                        *)
LEMMA RegistersApply ==
  ASSUME NEW math, math.my_cmd \in MathCmds, NEW Q, DOMAIN Q = 0..15,
         math.my_cmd = CMD_MY_DIV => Q[rDX] = 0 /\ Q[RDI] > 0, NEW T, NEW M, NEW X, NEW P,
         NEW cmd, cmd = get_cmd_from_token(math)
  PROVE  Applies(encode_cmd(IF cmd \in {MUL, DIV} THEN RegInfo(cmd, RDI, INVALID_REG) ELSE RegInfo(cmd, RAX, RDI)),
                 Q, GuestMath(math.my_cmd, Q[RAX], Q[RDI]), T, M, X, P)
<1> DEFINE c == math.my_cmd
           v == GuestMath(c, Q[RAX], Q[RDI])
<1>1. rAX = RAX /\ rDX = RDX /\ RAX \in DOMAIN Q /\ RDX \in DOMAIN Q /\ RAX # RDX
  BY SMT DEF rAX, rDX, RAX, RDX
<1>2. CASE AddOrSub(math)
  <2>1. cmd \notin {MUL, DIV} /\ cmd \in {MOV, ADD, SUB, MUL, DIV, PUSH, POP, CALL, RET} /\ cmd \notin {PUSH, POP}
    BY <1>2, MathCommands, Distinct, Zenon DEF AddOrSub
  <2>2. Asks(RegInfo(cmd, RAX, RDI), cmd, RAX, RDI, 0, FALSE, FALSE)
    BY <2>1, OctalNames, AsksRegs
  <2>3. RDI # INVALID_REG
    BY OctalNames, OctalRegisters
  <2>6. OperandOf(RDI, 0, FALSE) = Reg(RDI)
    BY <2>3, Zenon DEF OperandOf
  <2>4. Value(State(Q, T, M, X, P), OperandOf(RDI, 0, FALSE)) = Q[RDI]
    <3>1. Value(State(Q, T, M, X, P), Reg(RDI)) = Q[RDI]
      BY RegisterHeld
    <3> QED
      BY <2>6, <3>1, Zenon
  <2> DEFINE info == RegInfo(cmd, RAX, RDI)
  <2> HIDE DEF info
  <2>5. Applies(encode_cmd(info), Q, v, T, M, X, P)
    BY <1>1, <1>2, <2>2, <2>4, OctalNames, ZeroIsInt, OperandApplies DEF info
  <2> QED
    BY <2>1, <2>5 DEF info
<1>3. ASSUME NEW N, NEW y, N = With(With(Q, rAX, v), rDX, y)
      PROVE  N[RAX] = v /\ \A r \in DOMAIN Q : r \notin {RAX, RDX} => N[r] = Q[r]
  <2> DEFINE A == With(Q, RAX, v)
  <2> HIDE DEF v
  <2>1. DOMAIN A = DOMAIN Q /\ A[RAX] = v /\ \A r \in DOMAIN Q : r # RAX => A[r] = Q[r]
    <3>1. RAX \in DOMAIN Q
      BY <1>1
    <3> HIDE <1>1
    <3> QED
      BY <3>1, WithRead
  <2>2. N = With(A, RDX, y)
    BY <1>1, <1>3
  <2> HIDE DEF A
  <2>3. \A r \in DOMAIN A : r # RDX => N[r] = A[r]
    BY <1>1, <2>1, <2>2, WithRead
  <2> QED
    BY <1>1, <2>1, <2>3
<1>4. CASE c = CMD_MY_MUL
  <2>1. cmd = MUL /\ v = Q[rAX] * Q[RDI]
    BY <1>1, <1>4, MathCommands
  <2> DEFINE N == With(With(Q, rAX, v), rDX, 0)
  <2>2. Takes(encode_cmd(RegInfo(MUL, RDI, INVALID_REG)), State(Q, T, M, X, P), State(N, T, M, X, P))
    BY <2>1, TakesMul
  <2>3. N[RAX] = v /\ \A r \in DOMAIN Q : r \notin {RAX, RDX} => N[r] = Q[r]
    BY <1>3
  <2> HIDE DEF N, v
  <2>4. Applies(encode_cmd(RegInfo(MUL, RDI, INVALID_REG)), Q, v, T, M, X, P)
    BY <2>2, <2>3, Zenon DEF Applies
  <2> QED
    BY <2>1, <2>4 DEF v
<1>5. CASE c = CMD_MY_DIV
  <2>1. cmd = DIV /\ v = Q[rAX] \div Q[RDI]
    BY <1>1, <1>5, MathCommands
  <2> DEFINE N(y) == With(With(Q, rAX, v), rDX, y)
  <2>2. PICK y : Takes(encode_cmd(RegInfo(DIV, RDI, INVALID_REG)), State(Q, T, M, X, P), State(N(y), T, M, X, P))
    BY <1>5, <2>1, TakesDiv
  <2>3. N(y)[RAX] = v /\ \A r \in DOMAIN Q : r \notin {RAX, RDX} => N(y)[r] = Q[r]
    BY <1>3
  <2> HIDE DEF N, v
  <2>4. Applies(encode_cmd(RegInfo(DIV, RDI, INVALID_REG)), Q, v, T, M, X, P)
    BY <2>2, <2>3, Zenon DEF Applies
  <2> QED
    BY <2>1, <2>4 DEF v
<1> QED
  BY <1>2, <1>4, <1>5 DEF MathCmds, AddOrSub

LEMMA GuestCalculates ==
  ASSUME NEW R, NEW S, NEW M, NEW X, NEW P, NEW t, NEW c, c = t.my_cmd, c \in MathCmds,
         NEW g, g = GuestStep(State(R, S, M, X, P), t)
  PROVE  \/ Failed(g)
         \/ /\ Len(S) >= 2 /\ (c = CMD_MY_DIV => Last(S) > 0)
            /\ g = State(R, Append(Front(Front(S)), GuestMath(c, S[Len(S) - 1], Last(S))), M, X, P)
<1> DEFINE m == State(R, S, M, X, P)
           v == GuestMath(c, S[Len(S) - 1], Last(S))
           fits == Len(S) >= 2 /\ (c = CMD_MY_DIV => Last(S) > 0 /\ S[Len(S) - 1] >= 0)
<1>1. m.stack = S
  BY StateFields, SMT
<1>2. Calculated(m, v) = State(R, Append(Front(Front(S)), v), M, X, P)
  BY CalculatedState
<1>3. Failed(Broken(m))
  BY StateBreaks
<1> HIDE DEF m
<1>4. g = IF Len(m.stack) >= 2 /\ (c = CMD_MY_DIV => Last(m.stack) > 0 /\ m.stack[Len(m.stack) - 1] >= 0)
          THEN Calculated(m, GuestMath(c, m.stack[Len(m.stack) - 1], Last(m.stack))) ELSE Broken(m)
  BY GuestResults DEF m
<1>5. g = IF fits THEN Calculated(m, v) ELSE Broken(m)
  BY <1>1, <1>4, Zenon
<1> HIDE DEF v
<1>6. CASE fits
  BY <1>2, <1>5, <1>6 DEF v
<1>7. CASE ~fits
  <2> HIDE DEF fits
  <2> QED
    BY <1>3, <1>5, <1>7
<1> QED
  BY <1>6, <1>7

(* A math command on a value just pushed.                                  *)
AfterTop(R, U, u, M, X, P, t) == GuestStep(State(R, Append(U, u), M, X, P), t)

Values(U, u) == U \in Seq(Int) /\ u \in Int

LEMMA TopPushed ==
  ASSUME NEW U, NEW u, Values(U, u)
  PROVE  Front(Append(U, u)) = U /\ Last(Append(U, u)) = u /\ Append(U, u) \in Seq(Int)
<1> PICK Z : Z = Int
  BY Zenon
<1>1. U \in Seq(Z) /\ u \in Z
  BY DEF Values
<1>2. Front(Append(U, u)) = U /\ Last(Append(U, u)) = u /\ Append(U, u) \in Seq(Z)
  BY <1>1, StackFacts, ZenonT(60)
<1> QED
  BY <1>2

LEMMA GuestAppliesTop ==
  ASSUME NEW R, NEW U, NEW u, Values(U, u), NEW M, NEW X, NEW P,
         NEW t, t.my_cmd \in MathCmds, ~Failed(AfterTop(R, U, u, M, X, P, t))
  PROVE  /\ Len(U) >= 1 /\ U # << >>
         /\ AfterTop(R, U, u, M, X, P, t) = State(R, Append(Front(U), GuestMath(t.my_cmd, Last(U), u)), M, X, P)
<1> DEFINE s == Append(U, u)
           c == t.my_cmd
           g == GuestStep(State(R, Append(U, u), M, X, P), t)
<1> PICK Z : Z = Int
  BY Zenon
<1>1. Front(s) = U /\ Last(s) = u /\ s \in Seq(Z)
  BY TopPushed, Zenon
<1>2. Len(s) = Len(U) + 1 /\ Len(U) \in Nat
  BY SMT DEF Values
<1> HIDE DEF s
<1>3. Len(s) >= 2 => Last(Front(s)) = s[Len(s) - 1]
  BY <1>1, StackFacts
<1>4. ~Failed(g) /\ g = GuestStep(State(R, s, M, X, P), t)
  BY DEF AfterTop, s
<1> HIDE DEF g
<1>5. Len(s) >= 2 /\ g = State(R, Append(Front(Front(s)), GuestMath(c, s[Len(s) - 1], Last(s))), M, X, P)
  BY <1>4, GuestCalculates
<1>6. s[Len(s) - 1] = Last(U)
  BY <1>1, <1>3, <1>5
<1>7. Len(U) >= 1 /\ U # << >>
  BY <1>2, <1>5, SMT
<1>8. g = State(R, Append(Front(U), GuestMath(c, Last(U), u)), M, X, P)
  BY <1>1, <1>5, <1>6
<1> QED
  BY <1>7, <1>8, Zenon DEF AfterTop, g

(* Registers no fold keeps a guest value in.                               *)
Scratch == {RAX, RDX, RDI}

-----------------------------------------------------------------------------
(* A math command whose operands both come off the stack.                  *)

LEMMA MathKeeps ==
  ASSUME NEW R, NEW S, NEW M, Usable(R, S, M), NEW X, NEW P, NEW math, math.my_cmd \in MathCmds,
         math.my_cmd = CMD_MY_DIV => R[rDX] = 0,
         NEW kept, \A r \in kept : r \in DOMAIN R /\ r \notin Scratch
  PROVE  Keeps(MathOfStack(math), State(R, S, M, X, P), GuestStep(State(R, S, M, X, P), math), kept)
<1> DEFINE m == State(R, S, M, X, P)
           g == GuestStep(m, math)
           c == math.my_cmd
           cmd == get_cmd_from_token(math)
           op == encode_cmd(IF cmd \in {MUL, DIV} THEN RegInfo(cmd, RDI, INVALID_REG) ELSE RegInfo(cmd, RAX, RDI))
           F == Front(S)
           A == With(R, RDI, Last(S))
           B == With(A, RAX, Last(F))
           T == Front(F)
           v == GuestMath(c, Last(F), Last(S))
<1>1. CASE Failed(g)
  BY <1>1, KeepsFailed
<1>2. CASE ~Failed(g)
  <2>1. /\ Len(S) >= 2 /\ (c = CMD_MY_DIV => Last(S) > 0)
        /\ g = State(R, Append(T, GuestMath(c, S[Len(S) - 1], Last(S))), M, X, P)
    BY <1>2, GuestCalculates
  <2>2. S \in Seq(Int) /\ 0 \in Int /\ Len(S) >= 1 /\ DOMAIN R = 0..15
    BY <2>1, SMT DEF Usable
  <2>3. S # << >> /\ F # << >> /\ Last(F) = S[Len(S) - 1]
    BY <2>1, <2>2, StackFacts
  <2>4. g = State(R, Append(T, v), M, X, P)
    BY <2>1, <2>3
  <2>5. /\ RAX \in 0..15 /\ RDI \in 0..15 /\ RDX \in 0..15 /\ rDX = RDX
        /\ RAX # RDI /\ RDX # RDI /\ RDX # RAX
    BY SMT DEF RAX, RDI, RDX, rDX
  <2>6. DOMAIN A = 0..15 /\ A[RDI] = Last(S) /\ \A r \in 0..15 : r # RDI => A[r] = R[r]
    <3> DEFINE x == Last(S)
    <3> HIDE DEF x
    <3>1. A = With(R, RDI, x) /\ DOMAIN R = 0..15 /\ RDI \in 0..15
      BY <2>2, <2>5 DEF x
    <3> HIDE DEF A
    <3>2. DOMAIN A = 0..15 /\ A[RDI] = x /\ \A r \in 0..15 : r # RDI => A[r] = R[r]
      BY <3>1, SMT DEF With
    <3> QED
      BY <3>2 DEF x
  <2>7. Takes(PopReg(RDI), m, State(A, F, M, X, P))
    BY <2>3, OctalNames, TakesPushPop
  <2> HIDE DEF A
  <2>8. DOMAIN B = 0..15 /\ B[RAX] = Last(F) /\ \A r \in 0..15 : r # RAX => B[r] = A[r]
    <3> DEFINE x == Last(F)
    <3> HIDE DEF x
    <3>1. B = With(A, RAX, x) /\ DOMAIN A = 0..15 /\ RAX \in 0..15
      BY <2>5, <2>6 DEF x
    <3> HIDE DEF B
    <3>2. DOMAIN B = 0..15 /\ B[RAX] = x /\ \A r \in 0..15 : r # RAX => B[r] = A[r]
      BY <3>1, SMT DEF With
    <3> QED
      BY <3>2 DEF x
  <2>9. Takes(PopReg(RAX), State(A, F, M, X, P), State(B, T, M, X, P))
    BY <2>3, OctalNames, TakesPushPop
  <2> HIDE DEF B, T, F
  <2>10. B[RDI] = Last(S) /\ B[rDX] = R[rDX] /\ B[RAX] = Last(F)
    BY <2>5, <2>6, <2>8
  <2>11. Applies(op, B, GuestMath(c, B[RAX], B[RDI]), T, M, X, P)
    <3>1. c = CMD_MY_DIV => B[rDX] = 0 /\ B[RDI] > 0
      BY <2>1, <2>10
    <3> QED
      BY <2>8, <3>1, RegistersApply
  <2>12. Applies(op, B, v, T, M, X, P)
    BY <2>10, <2>11
  <2> HIDE DEF op, v
  <2>13. \A r \in DOMAIN R : r \notin {RAX, RDX, RDI} => B[r] = R[r]
    BY <2>2, <2>6, <2>8
  <2>14. Leaves(Then(op, PushReg(RAX)), State(B, T, M, X, P), R, {RAX, RDX, RDI}, Append(T, v), M, P)
    BY <2>2, <2>8, <2>12, <2>13, AppliedIsPushed
  <2>15. Leaves(Then(PopReg(RAX), Then(op, PushReg(RAX))), State(A, F, M, X, P), R, {RAX, RDX, RDI}, Append(T, v), M, P)
    BY <2>9, <2>14, LeavesThen
  <2>16. Leaves(Then(PopReg(RDI), Then(PopReg(RAX), Then(op, PushReg(RAX)))), m, R, {RAX, RDX, RDI}, Append(T, v), M, P)
    BY <2>7, <2>15, LeavesThen
  <2>17. MathOfStack(math) = Then(PopReg(RDI), Then(PopReg(RAX), Then(op, PushReg(RAX))))
    BY DEF MathOfStack, op
  <2>18. \A r \in kept : r \in DOMAIN R /\ r \notin {RAX, RDX, RDI}
    BY DEF Scratch
  <2> HIDE DEF m, g
  <2>19. Keeps(MathOfStack(math), m, State(R, Append(T, v), M, X, P), kept)
    BY <2>16, <2>17, <2>18, KeepsLeft
  <2> QED
    BY <2>4, <2>19, Zenon DEF m, g
<1> QED
  BY <1>1, <1>2

-----------------------------------------------------------------------------
(* The operand of a push that is folded.                                   *)

Held(R, t) == IF t.reg = INVALID_REG THEN t.immed ELSE R[t.reg]

FoldedPush(t) == Known(t) /\ Shaped(t) /\ t.my_cmd = CMD_MY_PUSH /\ Foldable(t)

LEMMA PushShape ==
  ASSUME NEW t, Shaped(t), t.my_cmd = CMD_MY_PUSH
  PROVE  Literal(t) \/ Moves(t)
<1>1. CMD_MY_PUSH \notin Commands /\ CMD_MY_PUSH # CMD_MY_POP
  BY SMT DEF Commands, MathCmds, CMD_MY_PUSH, CMD_MY_POP, CMD_MY_ADD, CMD_MY_SUB, CMD_MY_MUL, CMD_MY_DIV,
    CMD_MY_OUT, CMD_MY_IN, CMD_MY_SQRT, CMD_MY_LABEL, CMD_MY_JMP, CMD_MY_JB, CMD_MY_JNE
<1> QED
  BY <1>1 DEF Shaped, Drops, Commands1

LEMMA ModesDiffer == MODE_NONE # MODE_REG_ADDRESS /\ MODE_8_BYTE_IN_ADDRESS # MODE_REG_ADDRESS
BY SMT DEF MODE_NONE, MODE_REG_ADDRESS, MODE_8_BYTE_IN_ADDRESS

LEMMA FoldedOperand ==
  ASSUME NEW t, FoldedPush(t)
  PROVE  /\ GuestOperand(t) = OperandOf(t.reg, t.immed, FALSE)
         /\ t.reg \in Octals \cup {INVALID_REG} /\ t.immed \in Ints /\ t.reg # RAX
         /\ t.reg # INVALID_REG => t.reg \in 0..15
<1>1. t.reg \in Octals \cup {INVALID_REG} /\ t.immed \in Ints /\ (t.reg # INVALID_REG => t.reg \in 0..15)
  <2>1. t.immed \in Ints
    BY DEF FoldedPush, Known
  <2> QED
    BY <2>1, KnownReg, SMT DEF FoldedPush, Octals
<1>2. CASE Literal(t)
  <2>1. GuestOperand(t) = Imm(t.immed)
    BY <1>2, OperandOfToken DEF Literal
  <2>2. OperandOf(t.reg, t.immed, FALSE) = Imm(t.immed)
    BY <1>2, Zenon DEF OperandOf, Literal
  <2>3. t.reg # RAX
    BY <1>2, OctalNames, OctalRegisters DEF Literal
  <2> QED
    BY <1>1, <2>1, <2>2, <2>3
<1>3. CASE Moves(t)
  <2>1. t.mode = MODE_8_BYTE_IN_ADDRESS /\ ~t.use_r8plus_regs /\ t.reg # RAX /\ ~t.use_immed /\ t.reg \in 0..3
    BY <1>3 DEF FoldedPush, Foldable, Moves
  <2>2. GuestOperand(t) = Reg(t.reg)
    BY <2>1, ModesDiffer, OperandOfToken
  <2>3. t.reg # INVALID_REG
    BY <2>1, SMT DEF INVALID_REG
  <2>4. OperandOf(t.reg, t.immed, FALSE) = Reg(t.reg)
    BY <2>3, Zenon DEF OperandOf
  <2> QED
    BY <1>1, <2>1, <2>2, <2>4
<1> QED
  BY <1>2, <1>3, PushShape DEF FoldedPush

LEMMA HeldIsInt ==
  ASSUME NEW t, FoldedPush(t), NEW R, R \in [0..15 -> Int]
  PROVE  Held(R, t) \in Int
<1>1. t.immed \in Int
  <2>1. t.immed \in Ints
    BY FoldedOperand
  <2>2. Ints \subseteq Int
    BY ValueRange
  <2> QED
    BY <2>1, <2>2
<1>2. t.reg # INVALID_REG => R[t.reg] \in Int
  BY FoldedOperand
<1> QED
  BY <1>1, <1>2 DEF Held

HeldOperand(t) == OperandOf(t.reg, t.immed, FALSE)

LEMMA HeldValue ==
  ASSUME NEW t, FoldedPush(t), NEW R, NEW S, NEW M, NEW X, NEW P
  PROVE  /\ Value(State(R, S, M, X, P), HeldOperand(t)) = Held(R, t)
         /\ GuestStep(State(R, S, M, X, P), t) = State(R, Append(S, Held(R, t)), M, X, P)
<1> DEFINE m == State(R, S, M, X, P)
           o == HeldOperand(t)
           u == Held(R, t)
<1>1. GuestOperand(t) = o /\ t.immed \in Ints /\ (t.reg # INVALID_REG => t.reg \in 0..15)
  BY FoldedOperand DEF HeldOperand
<1>3. Defined(m, o) /\ Value(m, o) = u
  <2>1. CASE t.reg = INVALID_REG
    <3>1. o = Imm(t.immed) /\ u = t.immed
      BY <2>1, Zenon DEF HeldOperand, OperandOf, Held
    <3>2. Defined(m, Imm(t.immed)) /\ Value(m, Imm(t.immed)) = t.immed
      BY ImmediateHeld
    <3> QED
      BY <3>1, <3>2, Zenon
  <2>2. CASE t.reg # INVALID_REG
    <3>1. o = Reg(t.reg) /\ u = R[t.reg]
      BY <2>2, Zenon DEF HeldOperand, OperandOf, Held
    <3>2. Defined(m, Reg(t.reg)) /\ Value(m, Reg(t.reg)) = R[t.reg]
      BY RegisterHeld
    <3> QED
      BY <3>1, <3>2, Zenon
  <2> QED
    BY <2>1, <2>2
<1>4. Pushed(m, u) = State(R, Append(S, u), M, X, P)
  BY PushedState
<1> HIDE DEF m, o, u
<1>5. GuestStep(m, t) = Pushed(m, u)
  BY <1>1, <1>3, GuestArms DEF FoldedPush
<1> QED
  BY <1>3, <1>4, <1>5 DEF m, o, u

LEMMA HeldApart ==
  ASSUME NEW t, FoldedPush(t), NEW R, R \in [0..15 -> Int], NEW v \in Int
  PROVE  Held(With(R, RAX, v), t) = Held(R, t) /\ With(R, RAX, v) \in [0..15 -> Int]
<1>1. t.reg # RAX /\ (t.reg # INVALID_REG => t.reg \in 0..15)
  BY FoldedOperand
<1>2. RAX \in 0..15
  BY SMT DEF RAX
<1>3. With(R, RAX, v) \in [0..15 -> Int] /\ \A r \in 0..15 : r # RAX => With(R, RAX, v)[r] = R[r]
  BY <1>2, SMT DEF With
<1> QED
  BY <1>1, <1>3 DEF Held

(* The operand of a push applied to rax, and the result on the stack.      *)
LEMMA HeldApplied ==
  ASSUME NEW math, AddOrSub(math), NEW t, FoldedPush(t), NEW v \in Ints, v = t.immed,
         NEW R, R \in [0..15 -> Int], NEW a \in Int, NEW T, NEW M, NEW X, NEW P
  PROVE  Leaves(Then(encode_cmd([RegInfo(get_cmd_from_token(math), RAX, t.reg) EXCEPT !.immed_val = v]), PushReg(RAX)),
                State(With(R, RAX, a), T, M, X, P), R, {RAX, RDX, RDI},
                Append(T, GuestMath(math.my_cmd, a, Held(R, t))), M, P)
<1> DEFINE cmd == get_cmd_from_token(math)
           plain == RegInfo(cmd, RAX, t.reg)
           info == [plain EXCEPT !.immed_val = v]
           Q == With(R, RAX, a)
           u == Held(R, t)
<1>1. math.my_cmd \in MathCmds
  BY DEF AddOrSub, MathCmds
<1>2. cmd \in {ADD, SUB, MUL, DIV}
  BY <1>1, MathCmdType
<1>3. t.reg \in Octals \cup {INVALID_REG}
  BY FoldedOperand
<1>4. Asks(info, cmd, RAX, t.reg, v, FALSE, FALSE)
  <2> HIDE DEF cmd
  <2>1. cmd \notin {PUSH, POP} /\ cmd \in {MOV, ADD, SUB, MUL, DIV, PUSH, POP, CALL, RET}
    BY <1>2, Distinct, Zenon
  <2>2. RAX # INVALID_REG
    BY OctalNames, OctalRegisters
  <2>3. Asks(plain, cmd, RAX, t.reg, 0, FALSE, FALSE)
    BY <1>3, <2>1, <2>2, OctalNames, AsksRegs
  <2> QED
    BY <2>3, AsksImmed
<1> HIDE DEF info
<1>5. RAX \in 0..15
  BY SMT DEF RAX
<1>6. DOMAIN Q = 0..15 /\ Q[RAX] = a /\ \A r \in 0..15 : r # RAX => Q[r] = R[r]
  BY <1>5, SMT DEF With
<1>7. Held(Q, t) = u /\ Q \in [0..15 -> Int]
  BY HeldApart
<1> HIDE DEF Q, u
<1>8. Value(State(Q, T, M, X, P), HeldOperand(t)) = Held(Q, t)
  BY HeldValue
<1>9. Value(State(Q, T, M, X, P), OperandOf(t.reg, v, FALSE)) = u
  BY <1>7, <1>8, Zenon DEF HeldOperand
<1>10. RAX \in DOMAIN Q
  BY <1>5, <1>6
<1>11. Applies(encode_cmd(info), Q, GuestMath(math.my_cmd, Q[RAX], u), T, M, X, P)
  BY <1>3, <1>4, <1>9, <1>10, OperandApplies
<1>12. Applies(encode_cmd(info), Q, GuestMath(math.my_cmd, a, u), T, M, X, P)
  BY <1>6, <1>11
<1>13. DOMAIN Q = DOMAIN R /\ \A r \in DOMAIN R : r \notin {RAX, RDX, RDI} => Q[r] = R[r]
  BY <1>6
<1>14. Leaves(Then(encode_cmd(info), PushReg(RAX)), State(Q, T, M, X, P), R, {RAX, RDX, RDI},
              Append(T, GuestMath(math.my_cmd, a, u)), M, P)
  BY <1>12, <1>13, AppliedIsPushed
<1> QED
  BY <1>14 DEF info, Q, u

-----------------------------------------------------------------------------
(* push x; math.                                                           *)

LEMMA PushMathKeeps ==
  ASSUME NEW R, NEW S, NEW M, Usable(R, S, M), NEW X, NEW P, NEW push, FoldedPush(push),
         NEW math, AddOrSub(math), NEW kept, \A r \in kept : r \in DOMAIN R /\ r \notin Scratch
  PROVE  Keeps(PushMath(push, math), State(R, S, M, X, P),
               GuestStep(GuestStep(State(R, S, M, X, P), push), math), kept)
<1> DEFINE m == State(R, S, M, X, P)
           u == Held(R, push)
           g == GuestStep(GuestStep(m, push), math)
           c == math.my_cmd
           op == encode_cmd([RegInfo(get_cmd_from_token(math), RAX, push.reg) EXCEPT !.immed_val = push.immed])
           T == Front(S)
           a == Last(S)
           v == GuestMath(c, a, u)
<1>1. R \in [0..15 -> Int] /\ S \in Seq(Int)
  BY DEF Usable
<1>2. GuestStep(m, push) = State(R, Append(S, u), M, X, P) /\ u \in Int
  <2>1. GuestStep(m, push) = State(R, Append(S, u), M, X, P)
    BY HeldValue
  <2>2. u \in Int
    BY <1>1, HeldIsInt
  <2> QED
    BY <2>1, <2>2
<1>3. c \in MathCmds
  BY DEF AddOrSub, MathCmds
<1>4. CASE Failed(g)
  BY <1>4, KeepsFailed
<1>5. CASE ~Failed(g)
  <2>1. Len(S) >= 1 /\ S # << >> /\ g = State(R, Append(T, v), M, X, P)
    <3> HIDE DEF u
    <3>1. g = AfterTop(R, S, u, M, X, P, math)
      BY <1>2 DEF AfterTop
    <3> HIDE DEF g
    <3>2. ~Failed(AfterTop(R, S, u, M, X, P, math))
      BY <1>5, <3>1
    <3>3. /\ Len(S) >= 1 /\ S # << >>
          /\ AfterTop(R, S, u, M, X, P, math) = State(R, Append(Front(S), GuestMath(math.my_cmd, Last(S), u)), M, X, P)
      <4>1. Values(S, u)
        BY <1>1, <1>2 DEF Values
      <4> QED
        BY <1>3, <3>2, <4>1, GuestAppliesTop
    <3> QED
      BY <3>1, <3>3
  <2>2. a \in Int
    <3>1. 0 \in Int
      BY SMT
    <3> QED
      BY <1>1, <2>1, <3>1, StackFacts
  <2>3. Takes(PopReg(RAX), m, State(With(R, RAX, a), T, M, X, P))
    BY <2>1, OctalNames, TakesPushPop
  <2> HIDE DEF T, a
  <2>4. Leaves(Then(op, PushReg(RAX)), State(With(R, RAX, a), T, M, X, P), R, {RAX, RDX, RDI}, Append(T, v), M, P)
    <3>1. push.immed \in Ints
      BY FoldedOperand
    <3> QED
      BY <1>1, <2>2, <3>1, HeldApplied
  <2> HIDE DEF op, v
  <2>5. Leaves(Then(PopReg(RAX), Then(op, PushReg(RAX))), m, R, {RAX, RDX, RDI}, Append(T, v), M, P)
    BY <2>3, <2>4, LeavesThen
  <2>6. PushMath(push, math) = Then(PopReg(RAX), Then(op, PushReg(RAX)))
    BY DEF PushMath, op
  <2>7. \A r \in kept : r \in DOMAIN R /\ r \notin {RAX, RDX, RDI}
    BY DEF Scratch
  <2> HIDE DEF m, g
  <2>8. Keeps(PushMath(push, math), m, State(R, Append(T, v), M, X, P), kept)
    BY <2>5, <2>6, <2>7, KeepsLeft
  <2> QED
    BY <2>1, <2>8, Zenon DEF m, g
<1> QED
  BY <1>4, <1>5

-----------------------------------------------------------------------------
(* push x; push y; math.                                                   *)

LoadedPush(t) == Known(t) /\ Shaped(t) /\ t.my_cmd = CMD_MY_PUSH /\ Loadable(t)

LEMMA LoadedOperand ==
  ASSUME NEW t, LoadedPush(t)
  PROVE  /\ GuestOperand(t) = OperandOf(t.reg, t.immed, t.mode = MODE_REG_ADDRESS)
         /\ t.reg \in Octals \cup {INVALID_REG} /\ t.immed \in Ints /\ t.reg # RBX
         /\ t.mode = MODE_REG_ADDRESS => t.reg \in 0..3
         /\ t.reg = INVALID_REG => t.immed >= 0
         /\ t.reg # INVALID_REG => t.reg \in 0..15
<1>1. t.reg \in Octals \cup {INVALID_REG} /\ t.immed \in Ints /\ (t.reg # INVALID_REG => t.reg \in 0..15)
  <2>1. t.immed \in Ints
    BY DEF LoadedPush, Known
  <2> QED
    BY <2>1, KnownReg, SMT DEF LoadedPush, Octals
<1>2. PICK at : at = (t.mode = MODE_REG_ADDRESS)
  BY Zenon
<1>3. CASE Literal(t)
  <2>1. GuestOperand(t) = Imm(t.immed)
    BY <1>3, OperandOfToken DEF Literal
  <2>2. OperandOf(t.reg, t.immed, at) = Imm(t.immed)
    BY <1>3, Zenon DEF OperandOf, Literal
  <2>3. t.reg # RBX
    BY <1>3, OctalNames, OctalRegisters DEF Literal
  <2>4. t.mode # MODE_REG_ADDRESS
    BY <1>3, ModesDiffer DEF Literal
  <2>5. t.immed >= 0
    BY <1>3 DEF Literal, LoadedPush, Loadable
  <2> QED
    BY <1>1, <1>2, <2>1, <2>2, <2>3, <2>4, <2>5
<1>4. CASE Moves(t)
  <2>1. ~t.use_r8plus_regs /\ t.reg # RBX /\ ~t.use_immed /\ t.reg \in 0..3
    BY <1>4 DEF LoadedPush, Loadable, Moves
  <2>2. GuestOperand(t) = IF t.mode = MODE_REG_ADDRESS THEN Mem(t.reg) ELSE Reg(t.reg)
    BY <2>1, OperandOfToken
  <2>3. t.reg # INVALID_REG
    BY <2>1, SMT DEF INVALID_REG
  <2>4. OperandOf(t.reg, t.immed, at) = IF at THEN Mem(t.reg) ELSE Reg(t.reg)
    BY <2>3, Zenon DEF OperandOf
  <2>5. GuestOperand(t) = OperandOf(t.reg, t.immed, at)
    BY <1>2, <2>2, <2>4
  <2> QED
    BY <1>1, <1>2, <2>1, <2>3, <2>5, Zenon
<1> QED
  BY <1>3, <1>4, PushShape DEF LoadedPush

LEMMA LoadedValue ==
  ASSUME NEW R, NEW S, NEW M, Usable(R, S, M), NEW X, NEW P, NEW t, LoadedPush(t),
         NEW o, o = GuestOperand(t), NEW m, m = State(R, S, M, X, P), Defined(m, o)
  PROVE  Value(m, o) \in Int
<1>1. /\ o = OperandOf(t.reg, t.immed, t.mode = MODE_REG_ADDRESS) /\ t.immed \in Ints
      /\ t.reg # INVALID_REG => t.reg \in 0..15
  BY LoadedOperand
<1>2. R \in [0..15 -> Int] /\ M \in [DOMAIN M -> Int]
  BY DEF Usable
<1>3. CASE o = Imm(t.immed)
  <2>1. Value(m, Imm(t.immed)) = t.immed
    BY ImmediateHeld
  <2>2. Ints \subseteq Int
    BY ValueRange
  <2> QED
    BY <1>1, <1>3, <2>1, <2>2
<1>4. CASE t.reg # INVALID_REG /\ o = Reg(t.reg)
  <2>1. Value(m, Reg(t.reg)) = R[t.reg]
    BY RegisterHeld
  <2> QED
    BY <1>1, <1>2, <1>4, <2>1
<1>5. CASE t.reg # INVALID_REG /\ o = Mem(t.reg)
  <2>1. (R[t.reg] \in DOMAIN M <=> Defined(m, Mem(t.reg))) /\ Value(m, Mem(t.reg)) = M[R[t.reg]]
    BY MemoryHeld
  <2>2. R[t.reg] \in DOMAIN M
    BY <1>5, <2>1
  <2> QED
    BY <1>2, <1>5, <2>1, <2>2
<1>6. o = Imm(t.immed) \/ (t.reg # INVALID_REG /\ (o = Mem(t.reg) \/ o = Reg(t.reg)))
  BY <1>1, Zenon DEF OperandOf
<1> QED
  BY <1>3, <1>4, <1>5, <1>6

LEMMA LoadTakes ==
  ASSUME NEW R, NEW S, NEW M, NEW X, NEW P, NEW t, LoadedPush(t),
         NEW o, o = GuestOperand(t), Defined(State(R, S, M, X, P), o), NEW x, x = Value(State(R, S, M, X, P), o)
  PROVE  Takes(LoadOperand(t), State(R, S, M, X, P), State(With(R, RAX, x), S, M, X, P))
<1> DEFINE m == State(R, S, M, X, P)
           plain == [RegInfo(MOV, RAX, t.reg) EXCEPT !.immed_val = t.immed]
           fromMemory == t.mode = MODE_REG_ADDRESS
           info == [plain EXCEPT !.use_memory4src = fromMemory]
           src == t.reg
           v == t.immed
<1>1. /\ o = OperandOf(src, v, fromMemory) /\ src \in Octals \cup {INVALID_REG} /\ v \in Ints
      /\ fromMemory => src \in 0..3
      /\ src = INVALID_REG => v >= 0
  BY LoadedOperand
<1>2. MOV \notin {PUSH, POP} /\ MOV \notin {MUL, DIV}
  BY Distinct, Zenon
<1>3. Asks(RegInfo(MOV, RAX, t.reg), MOV, RAX, t.reg, 0, FALSE, FALSE)
  BY <1>1, <1>2, OctalNames, AsksRegs
<1>4. Asks(plain, MOV, RAX, t.reg, t.immed, FALSE, FALSE)
  BY <1>1, <1>3, AsksImmed
<1>5. [RegInfo(MOV, RAX, t.reg) EXCEPT !.immed_val = t.immed, !.use_memory4src = fromMemory] = info
  OBVIOUS
<1>6. fromMemory \in BOOLEAN
  BY Zenon
<1>7. LoadOperand(t) = encode_cmd(info)
  BY <1>5, Zenon DEF LoadOperand
<1> HIDE DEF plain, fromMemory
<1>8. Asks(info, MOV, RAX, t.reg, t.immed, FALSE, fromMemory)
  BY <1>2, <1>4, <1>6, AsksFromMemory
<1> HIDE DEF info, src, v
<1>9. ResultOf(MOV, R[RAX], x) = x
  BY Zenon DEF ResultOf
<1>10. Takes(encode_cmd(info), m, State(With(R, RAX, ResultOf(MOV, R[RAX], x)), S, M, X, P))
  <2>1. Defined(State(R, S, M, X, P), OperandOf(src, v, fromMemory)) /\ Value(State(R, S, M, X, P), OperandOf(src, v, fromMemory)) = x
    BY <1>1
  <2>2. Asks(info, MOV, RAX, src, v, FALSE, fromMemory)
    BY <1>8 DEF src, v
  <2> QED
    BY <1>1, <1>6, <2>1, <2>2, TakesOperand
<1> QED
  BY <1>7, <1>9, <1>10

LEMMA PushAnyMathKeeps ==
  ASSUME NEW R, NEW S, NEW M, Usable(R, S, M), NEW X, NEW P, NEW push, LoadedPush(push),
         NEW any, FoldedPush(any), NEW math, AddOrSub(math),
         NEW kept, \A r \in kept : r \in DOMAIN R /\ r \notin Scratch
  PROVE  Keeps(PushAnyMath(push, any, math), State(R, S, M, X, P),
               GuestStep(GuestStep(GuestStep(State(R, S, M, X, P), push), any), math), kept)
<1> DEFINE m == State(R, S, M, X, P)
           o == GuestOperand(push)
           x == Value(m, o)
           u == Held(R, any)
           g1 == GuestStep(m, push)
           g2 == GuestStep(g1, any)
           g == GuestStep(g2, math)
           c == math.my_cmd
           op == encode_cmd([RegInfo(get_cmd_from_token(math), RAX, any.reg) EXCEPT !.immed_val = any.immed])
           v == GuestMath(c, x, u)
<1>1. R \in [0..15 -> Int] /\ S \in Seq(Int)
  BY DEF Usable
<1>2. c \in MathCmds
  BY DEF AddOrSub, MathCmds
<1>3. push.my_cmd = CMD_MY_PUSH /\ any.my_cmd = CMD_MY_PUSH
  BY DEF LoadedPush, FoldedPush
<1>4. CASE Failed(g)
  BY <1>4, KeepsFailed
<1>5. CASE ~Failed(g)
  <2>1. ~Failed(g1)
    <3> HIDE DEF g1
    <3>1. Failed(g1) => Failed(g2)
      BY <1>3, FailedStays
    <3> HIDE DEF g2
    <3>2. Failed(g2) => Failed(g)
      BY <1>2, FailedStays
    <3> QED
      BY <1>5, <3>1, <3>2
  <2>2. Defined(m, o) /\ g1 = Pushed(m, x)
    <3>1. Failed(Broken(m))
      BY StateBreaks
    <3>2. g1 = IF Defined(m, o) THEN Pushed(m, x) ELSE Broken(m)
      BY <1>3, GuestArms
    <3> HIDE DEF m, o, x, g1
    <3> QED
      BY <2>1, <3>1, <3>2
  <2>3. x \in Int
    BY <2>2, LoadedValue
  <2>4. Takes(LoadOperand(push), m, State(With(R, RAX, x), S, M, X, P))
    BY <2>2, LoadTakes
  <2> HIDE DEF x, o
  <2>5. g1 = State(R, Append(S, x), M, X, P)
    BY <2>2, PushedState
  <2> HIDE DEF g1
  <2>6. u \in Int /\ g2 = State(R, Append(Append(S, x), u), M, X, P)
    <3>1. GuestStep(State(R, Append(S, x), M, X, P), any) = State(R, Append(Append(S, x), u), M, X, P)
      BY HeldValue
    <3>2. u \in Int
      BY <1>1, HeldIsInt
    <3> QED
      BY <2>5, <3>1, <3>2
  <2> HIDE DEF g2, u
  <2>7. g = State(R, Append(S, v), M, X, P)
    <3> DEFINE U == Append(S, x)
    <3>1. Values(U, u) /\ Front(U) = S /\ Last(U) = x
      <4>1. Values(S, x)
        BY <1>1, <2>3 DEF Values
      <4>2. Front(U) = S /\ Last(U) = x /\ U \in Seq(Int)
        BY <4>1, TopPushed
      <4> QED
        BY <2>6, <4>2 DEF Values
    <3>2. g = AfterTop(R, U, u, M, X, P, math)
      BY <2>6 DEF AfterTop
    <3> HIDE DEF g, U
    <3>3. ~Failed(AfterTop(R, U, u, M, X, P, math))
      BY <1>5, <3>2
    <3>4. AfterTop(R, U, u, M, X, P, math) = State(R, Append(Front(U), GuestMath(math.my_cmd, Last(U), u)), M, X, P)
      BY <1>2, <3>1, <3>3, GuestAppliesTop
    <3> QED
      BY <3>1, <3>2, <3>4
  <2>8. Leaves(Then(op, PushReg(RAX)), State(With(R, RAX, x), S, M, X, P), R, {RAX, RDX, RDI}, Append(S, v), M, P)
    <3>1. any.immed \in Ints
      BY FoldedOperand
    <3> QED
      BY <1>1, <2>3, <3>1, HeldApplied DEF u
  <2> HIDE DEF op, v
  <2>9. Leaves(Then(LoadOperand(push), Then(op, PushReg(RAX))), m, R, {RAX, RDX, RDI}, Append(S, v), M, P)
    BY <2>4, <2>8, LeavesThen
  <2>10. PushAnyMath(push, any, math) = Then(LoadOperand(push), Then(op, PushReg(RAX)))
    <3>1. push.reg # RBX
      BY LoadedOperand
    <3> QED
      BY <3>1, Zenon DEF PushAnyMath, op
  <2>11. \A r \in kept : r \in DOMAIN R /\ r \notin {RAX, RDX, RDI}
    BY DEF Scratch
  <2> HIDE DEF m, g
  <2>12. Keeps(PushAnyMath(push, any, math), m, State(R, Append(S, v), M, X, P), kept)
    BY <2>9, <2>10, <2>11, KeepsLeft
  <2> QED
    BY <2>7, <2>12, Zenon DEF m, g, g1, g2
<1> QED
  BY <1>4, <1>5

-----------------------------------------------------------------------------
(* push rbx; push N; add; pop rcx; push or pop [rcx].                      *)

FromTop == [RegInfo(PUSH, INVALID_REG, RCX) EXCEPT !.use_memory4src = TRUE]
ToTop   == [RegInfo(POP, RCX, INVALID_REG) EXCEPT !.use_memory4dest = TRUE]

LEMMA TopAsked ==
  /\ FromTop \in Infos(Ints) /\ Right(FromTop) /\ Intended(FromTop) = << "push", NoOperand, Mem(RCX) >>
  /\ ToTop \in Infos(Ints) /\ Right(ToTop) /\ Intended(ToTop) = << "pop", Mem(RCX), NoOperand >>
<1>1. RCX \in Octals /\ RCX # INVALID_REG /\ ~NeedsMore(RCX)
  BY OctalNames, OctalRegisters
<1>2. TheRm(RCX, TRUE) = Mem(RCX)
  BY <1>1, LowOperands
<1>3. /\ PUSH \notin {MOV, ADD, SUB} /\ PUSH \notin {MUL, DIV} /\ POP \notin {MOV, ADD, SUB} /\ POP \notin {MUL, DIV}
      /\ PUSH \notin {POP, CALL, RET} /\ POP \notin {PUSH, CALL, RET} /\ {PUSH, POP} \subseteq {MOV, ADD, SUB, MUL, DIV, PUSH, POP, CALL, RET}
  BY Distinct, Zenon
<1>4. Asks(FromTop, PUSH, INVALID_REG, RCX, 0, FALSE, TRUE)
  <2>1. Asks(RegInfo(PUSH, INVALID_REG, RCX), PUSH, INVALID_REG, RCX, 0, FALSE, FALSE)
    BY <1>1, <1>3, AsksRegs
  <2> QED
    BY <1>1, <2>1, AsksFromMemory DEF FromTop
<1>5. Asks(ToTop, POP, RCX, INVALID_REG, 0, TRUE, FALSE)
  <2>1. Asks(RegInfo(POP, RCX, INVALID_REG), POP, RCX, INVALID_REG, 0, FALSE, FALSE)
    BY <1>1, <1>3, AsksRegs
  <2> QED
    BY <1>1, <2>1, AsksToMemory DEF ToTop
<1>6. ~HasDest(FromTop) /\ HasSrc(FromTop) /\ HasDest(ToTop) /\ ~HasSrc(ToTop)
  BY <1>1, <1>4, <1>5, Zenon DEF HasDest, HasSrc, Asks
<1>7. Right(FromTop)
  BY <1>1, <1>4, <1>6, PushRegisterRight, Zenon DEF Asks
<1>8. Right(ToTop)
  BY <1>1, <1>5, <1>6, PopRight, Zenon DEF Asks
<1>9. Intended(FromTop) = << "push", NoOperand, TheRm(FromTop.src_reg, FromTop.use_memory4src) >>
  BY <1>3, <1>4, <1>6, Zenon DEF Intended, Asks
<1>10. Intended(ToTop) = << "pop", TheRm(ToTop.dest_reg, ToTop.use_memory4dest), NoOperand >>
  BY <1>3, <1>5, Zenon DEF Intended, Asks
<1> QED
  BY <1>2, <1>4, <1>5, <1>7, <1>8, <1>9, <1>10, Zenon DEF Asks

LEMMA TakesTop ==
  ASSUME NEW R, NEW S, NEW M, R[RCX] \in DOMAIN M, NEW X, NEW P
  PROVE  /\ Takes(encode_cmd(FromTop), State(R, S, M, X, P), State(R, Append(S, M[R[RCX]]), M, X, P))
         /\ S # << >> =>
              Takes(encode_cmd(ToTop), State(R, S, M, X, P),
                    State(R, Front(S), Overwrite(M, R[RCX], Last(S)), X, P))
<1> DEFINE m == State(R, S, M, X, P)
           n == State(R, Append(S, M[R[RCX]]), M, X, P)
           p == State(R, Front(S), Overwrite(M, R[RCX], Last(S)), X, P)
<1>1. "push" # "mov" /\ "pop" # "mov"
  BY SMT
<1>2. PICK push : /\ SameOp(push, "push", Mem(RCX)) /\ push # "bad" /\ encode_cmd(FromTop) \in Seq(Byte)
                  /\ Reads(encode_cmd(FromTop), push, NoOperand, Mem(RCX))
  BY TopAsked, RequestRead
<1>3. PICK pop : /\ SameOp(pop, "pop", NoOperand) /\ pop # "bad" /\ encode_cmd(ToTop) \in Seq(Byte)
                 /\ Reads(encode_cmd(ToTop), pop, Mem(RCX), NoOperand)
  BY TopAsked, RequestRead
<1>4. push = "push" /\ pop = "pop"
  BY <1>1, <1>2, <1>3, Zenon DEF SameOp
<1>5. Defined(m, Mem(RCX)) /\ Value(m, Mem(RCX)) = M[R[RCX]]
  BY MemoryHeld
<1>6. Step(m, Instr("push", NoOperand, Mem(RCX), Len(encode_cmd(FromTop)))) = n
  BY <1>5, StepPush
<1>7. S # << >> => Step(m, Instr("pop", Mem(RCX), NoOperand, Len(encode_cmd(ToTop)))) = p
  BY StepPop
<1> HIDE DEF m, n, p
<1>8. Takes(encode_cmd(FromTop), m, n)
  BY <1>2, <1>4, <1>6, TakesRead
<1>9. S # << >> => Takes(encode_cmd(ToTop), m, p)
  BY <1>3, <1>4, <1>7, TakesRead
<1> QED
  BY <1>8, <1>9 DEF m, n, p

(* The address of the word reaches rcx by way of rdi and the stack.        *)
Addressed(b, R, S, M, X, P, word) ==
  \E Q : /\ Does(b, State(R, S, M, X, P), State(Q, S, M, X, P))
         /\ Q[RCX] = word /\ \A r \in 0..15 : r \notin {RDI, RCX} => Q[r] = R[r]

LEMMA AddressTaken ==
  ASSUME NEW R, DOMAIN R = 0..15, NEW S, NEW M, NEW X, NEW P, NEW i \in Ints, NEW word, word = R[RBX] + i, S \in Seq(Int), word \in Int
  PROVE  Addressed(encode_cmd(RegInfo(MOV, RDI, RBX)) \o encode_cmd(ImmedInfo(ADD, RDI, i)) \o PushReg(RDI) \o PopReg(RCX),
                   R, S, M, X, P, word)
<1> DEFINE base == encode_cmd(RegInfo(MOV, RDI, RBX))
           addition == encode_cmd(ImmedInfo(ADD, RDI, i))
           b == R[RBX]
           A == With(R, RDI, b)
           B == With(A, RDI, word)
           Q == With(B, RCX, word)
           m == State(R, S, M, X, P)
<1>1. RDI \in 0..15 /\ RCX \in 0..15 /\ RDI # RCX
  BY SMT DEF RDI, RCX
<1>2. DOMAIN A = 0..15 /\ A[RDI] = b /\ \A r \in 0..15 : r # RDI => A[r] = R[r]
  BY <1>1, SMT DEF With
<1>3. Takes(base, m, State(A, S, M, X, P))
  <2>1. Asks(RegInfo(MOV, RDI, RBX), MOV, RDI, RBX, 0, FALSE, FALSE)
    <3>1. MOV \notin {MUL, DIV} /\ MOV \notin {PUSH, POP}
      BY Distinct, Zenon
    <3> QED
      BY <3>1, OctalNames, AsksRegs
  <2>2. RBX # INVALID_REG
    BY OctalNames, OctalRegisters
  <2>3. OperandOf(RBX, 0, FALSE) = Reg(RBX)
    BY <2>2, Zenon DEF OperandOf
  <2>4. Defined(m, Reg(RBX)) /\ Value(m, Reg(RBX)) = b
    BY RegisterHeld
  <2>5. ResultOf(MOV, R[RDI], b) = b
    BY Zenon DEF ResultOf
  <2>6. Defined(m, OperandOf(RBX, 0, FALSE)) /\ Value(m, OperandOf(RBX, 0, FALSE)) = b
    BY <2>3, <2>4, Zenon
  <2> DEFINE info == RegInfo(MOV, RDI, RBX)
  <2> HIDE DEF info, b
  <2>7. Takes(encode_cmd(info), m, State(With(R, RDI, ResultOf(MOV, R[RDI], b)), S, M, X, P))
    BY <2>1, <2>2, <2>6, OctalNames, ZeroIsInt, TakesOperand DEF info
  <2> QED
    BY <2>5, <2>7, Zenon DEF info
<1> HIDE DEF A
<1>4. Takes(addition, State(A, S, M, X, P), State(B, S, M, X, P))
  <2>1. Asks(ImmedInfo(ADD, RDI, i), ADD, RDI, INVALID_REG, i, FALSE, FALSE)
    <3>1. ADD \notin {MUL, DIV} /\ ADD \notin {PUSH, POP}
      BY Distinct, Zenon
    <3>2. RDI # INVALID_REG
      BY OctalNames, OctalRegisters
    <3>3. Asks(RegInfo(ADD, RDI, INVALID_REG), ADD, RDI, INVALID_REG, 0, FALSE, FALSE)
      BY <3>1, <3>2, OctalNames, AsksRegs
    <3> QED
      BY <3>3, AsksImmed DEF ImmedInfo
  <2>2. OperandOf(INVALID_REG, i, FALSE) = Imm(i)
    BY Zenon DEF OperandOf
  <2>3. Defined(State(A, S, M, X, P), Imm(i)) /\ Value(State(A, S, M, X, P), Imm(i)) = i
    BY ImmediateHeld
  <2>4. ResultOf(ADD, A[RDI], i) = word
    <3>1. ResultOf(ADD, A[RDI], i) = A[RDI] + i
      BY Distinct, Zenon DEF ResultOf
    <3> QED
      BY <1>2, <3>1
  <2>5. Defined(State(A, S, M, X, P), OperandOf(INVALID_REG, i, FALSE)) /\ Value(State(A, S, M, X, P), OperandOf(INVALID_REG, i, FALSE)) = i
    BY <2>2, <2>3, Zenon
  <2>6. ADD # MOV
    BY Distinct, Zenon
  <2> DEFINE info == ImmedInfo(ADD, RDI, i)
  <2> HIDE DEF info
  <2>7. Takes(encode_cmd(info), State(A, S, M, X, P), State(With(A, RDI, ResultOf(ADD, A[RDI], i)), S, M, X, P))
    BY <2>1, <2>5, <2>6, TakesOperand DEF info
  <2> QED
    BY <2>4, <2>7, Zenon DEF info
<1>5. DOMAIN B = 0..15 /\ B[RDI] = word /\ \A r \in 0..15 : r # RDI => B[r] = R[r]
  BY <1>1, <1>2, SMT DEF With
<1> HIDE DEF B
<1>6. Takes(PushReg(RDI), State(B, S, M, X, P), State(B, Append(S, word), M, X, P))
  BY <1>5, OctalNames, TakesPushPop
<1>7. Takes(PopReg(RCX), State(B, Append(S, word), M, X, P), State(Q, S, M, X, P))
  <2>1. Values(S, word)
    BY DEF Values
  <2>2. Front(Append(S, word)) = S /\ Last(Append(S, word)) = word
    BY <2>1, TopPushed
  <2> DEFINE T == Append(S, word)
  <2>3. T # << >>
    BY SMT
  <2> HIDE DEF T
  <2>4. Takes(PopReg(RCX), State(B, T, M, X, P), State(With(B, RCX, Last(T)), Front(T), M, X, P))
    BY <2>3, OctalNames, TakesPushPop
  <2> QED
    BY <2>2, <2>4 DEF T
<1>8. Q[RCX] = word /\ \A r \in 0..15 : r \notin {RDI, RCX} => Q[r] = R[r]
  <2>1. Q[RCX] = word /\ \A r \in 0..15 : r # RCX => Q[r] = B[r]
    BY <1>1, <1>5, SMT DEF With
  <2> HIDE DEF Q
  <2> QED
    BY <1>5, <2>1
<1> HIDE DEF Q, base, addition, m
<1>9. Does(base, m, State(A, S, M, X, P))
  BY <1>3, DoesOne
<1>10. Does(base \o addition, m, State(B, S, M, X, P))
  BY <1>4, <1>9, TakesBoth
<1>11. Does(base \o addition \o PushReg(RDI), m, State(B, Append(S, word), M, X, P))
  BY <1>6, <1>10, TakesBoth
<1>12. Does(base \o addition \o PushReg(RDI) \o PopReg(RCX), m, State(Q, S, M, X, P))
  BY <1>7, <1>11, TakesBoth
<1> QED
  BY <1>8, <1>12, Zenon DEF base, addition, m, Addressed

LEMMA AtRcxRead ==
  ASSUME NEW t \in AtRcx
  PROVE  /\ t.my_cmd \in {CMD_MY_PUSH, CMD_MY_POP} /\ ~t.use_immed /\ ~t.delete_stack_elem
         /\ GuestOperand(t) = Mem(RCX)
<1>1. PICK cmd \in {CMD_MY_PUSH, CMD_MY_POP} : t = Arg(cmd, MODE_REG_ADDRESS, RCX, FALSE)
  BY DEF AtRcx
<1> DEFINE a == Arg(cmd, MODE_REG_ADDRESS, RCX, FALSE)
<1>2. /\ a.my_cmd = cmd /\ a.reg = RCX /\ a.mode = MODE_REG_ADDRESS /\ a.use_r8plus_regs = FALSE
      /\ a.use_immed = FALSE /\ a.delete_stack_elem = FALSE
  BY SMT DEF Arg, ZeroToken, TokenOf
<1>3. t = a
  BY <1>1
<1> HIDE DEF a
<1>4. ~t.use_immed /\ ~t.delete_stack_elem /\ ~t.use_r8plus_regs /\ t.my_cmd = cmd /\ t.reg = RCX /\ t.mode = MODE_REG_ADDRESS
  BY <1>2, <1>3
<1>5. GuestOperand(t) = Mem(RCX)
  <2>1. RCX = IF t.use_r8plus_regs THEN t.reg + 8 ELSE t.reg
    BY <1>4
  <2> QED
    BY <1>4, <2>1, OperandOfToken
<1> QED
  BY <1>4, <1>5

LEMMA MemoryAccessKeeps ==
  ASSUME NEW R, NEW S, NEW M, Usable(R, S, M), NEW X, NEW P, NEW w, NEW t \in AtRcx, t = w[4],
         NEW i \in Ints, i = MemoryIndent(w), NEW word, word = R[RBX] + i, word \in Int,
         NEW kept, \A r \in kept : r \in 0..15 /\ r \notin {RDI, RCX}
  PROVE  Keeps(find_convert_memory_access(w), State(R, S, M, X, P),
               GuestStep(State(With(R, RCX, word), S, M, X, P), t), kept)
<1> DEFINE m == State(R, S, M, X, P)
           A == With(R, RCX, word)
           n == State(A, S, M, X, P)
           g == GuestStep(n, t)
           c == find_convert_memory_access(w)
           base == encode_cmd(RegInfo(MOV, RDI, RBX)) \o encode_cmd(ImmedInfo(ADD, RDI, i)) \o PushReg(RDI) \o PopReg(RCX)
           access == encode_cmd(IF t.my_cmd = CMD_MY_PUSH THEN FromTop ELSE ToTop)
<1>1. R \in [0..15 -> Int] /\ S \in Seq(Int) /\ DOMAIN R = 0..15
  BY DEF Usable
<1>2. c = base \o access
  BY DEF find_convert_memory_access, FromTop, ToTop
<1>3. A[RCX] = word /\ \A r \in 0..15 : r # RCX => A[r] = R[r]
  <2>1. RCX \in 0..15
    BY SMT DEF RCX
  <2> QED
    BY <1>1, <2>1, SMT DEF With
<1>4. PICK Q : /\ Does(base, m, State(Q, S, M, X, P))
               /\ Q[RCX] = word /\ \A r \in 0..15 : r \notin {RDI, RCX} => Q[r] = R[r]
  <2>1. Addressed(base, R, S, M, X, P, word)
    BY <1>1, AddressTaken
  <2> HIDE DEF base
  <2> QED
    BY <2>1, Zenon DEF Addressed
<1>5. /\ t.my_cmd \in {CMD_MY_PUSH, CMD_MY_POP} /\ ~t.use_immed /\ ~t.delete_stack_elem
      /\ GuestOperand(t) = Mem(RCX)
  BY AtRcxRead
<1>6. CMD_MY_PUSH # CMD_MY_POP
  BY SMT DEF CMD_MY_PUSH, CMD_MY_POP
<1>7. \A r \in kept : Q[r] = A[r]
  BY <1>3, <1>4
<1> HIDE DEF base, A
<1>8. (word \in DOMAIN M <=> Defined(n, Mem(RCX))) /\ Value(n, Mem(RCX)) = M[word]
  <2>1. (A[RCX] \in DOMAIN M <=> Defined(n, Mem(RCX))) /\ Value(n, Mem(RCX)) = M[A[RCX]]
    BY MemoryHeld
  <2> QED
    BY <1>3, <2>1
<1>9. n.stack = S
  BY StateFields, SMT
<1>10. Failed(Broken(n))
  <2>1. Failed(Broken(State(A, S, M, X, P)))
    BY StateBreaks
  <2> QED
    BY <2>1
<1>11. CASE Failed(g)
  BY <1>11, KeepsFailed DEF A
<1>12. CASE ~Failed(g) /\ t.my_cmd = CMD_MY_PUSH
  <2>1. word \in DOMAIN M /\ g = Pushed(n, M[word])
    <3>1. g = IF Defined(n, Mem(RCX)) THEN Pushed(n, Value(n, Mem(RCX))) ELSE Broken(n)
      BY <1>5, <1>12, GuestArms
    <3> HIDE DEF n, g
    <3> QED
      BY <1>8, <1>10, <1>12, <3>1
  <2>2. g = State(A, Append(S, M[word]), M, X, P)
    BY <2>1, PushedState
  <2>3. Takes(access, State(Q, S, M, X, P), State(Q, Append(S, M[word]), M, X, P))
    <3>1. access = encode_cmd(FromTop)
      BY <1>12
    <3>2. Q[RCX] \in DOMAIN M
      BY <1>4, <2>1
    <3>3. Takes(encode_cmd(FromTop), State(Q, S, M, X, P), State(Q, Append(S, M[Q[RCX]]), M, X, P))
      BY <3>2, TakesTop
    <3> QED
      BY <1>4, <3>1, <3>3
  <2> HIDE DEF m, access, c, g
  <2>4. Does(c, m, State(Q, Append(S, M[word]), M, X, P))
    BY <1>2, <1>4, <2>3, TakesBoth
  <2>5. Keeps(c, m, State(A, Append(S, M[word]), M, X, P), kept)
    BY <1>7, <2>4, KeepsState
  <2> QED
    BY <2>2, <2>5, Zenon DEF c, m, g, n, A
<1>13. CASE ~Failed(g) /\ t.my_cmd = CMD_MY_POP
  <2>1. word \in DOMAIN M /\ Len(S) >= 1 /\ g = GuestStore(Popped(n), Mem(RCX), Last(S))
    <3>1. g = IF Len(n.stack) >= 1 /\ Defined(n, Mem(RCX))
              THEN GuestStore(Popped(n), Mem(RCX), Last(n.stack)) ELSE Broken(n)
      BY <1>5, <1>13, GuestArms
    <3> HIDE DEF n, g
    <3> QED
      BY <1>8, <1>9, <1>10, <1>13, <3>1
  <2>2. Popped(n) = State(A, Front(S), M, X, P)
    BY PoppedState
  <2>3. g = State(A, Front(S), With(M, word, Last(S)), X, P)
    <3>1. GuestStore(State(A, Front(S), M, X, P), Mem(RCX), Last(S)) = State(A, Front(S), With(M, A[RCX], Last(S)), X, P)
      BY GuestStoreState
    <3> HIDE DEF g, n
    <3> QED
      BY <1>3, <2>1, <2>2, <3>1
  <2>4. Overwrite(M, word, Last(S)) = With(M, word, Last(S))
    <3>1. Apart(M) /\ M = [a \in DOMAIN M |-> M[a]]
      BY DEF Usable
    <3> QED
      BY <2>1, <3>1, StoreTearsNothing
  <2>5. Takes(access, State(Q, S, M, X, P), State(Q, Front(S), With(M, word, Last(S)), X, P))
    <3>1. access = encode_cmd(ToTop)
      BY <1>6, <1>13
    <3>2. Q[RCX] \in DOMAIN M
      BY <1>4, <2>1
    <3>3. S # << >>
      BY <1>1, <2>1, SMT
    <3>4. Takes(encode_cmd(ToTop), State(Q, S, M, X, P), State(Q, Front(S), Overwrite(M, Q[RCX], Last(S)), X, P))
      BY <3>2, <3>3, TakesTop
    <3> QED
      BY <1>4, <2>4, <3>1, <3>4
  <2> HIDE DEF m, access, c, g
  <2>6. Does(c, m, State(Q, Front(S), With(M, word, Last(S)), X, P))
    BY <1>2, <1>4, <2>5, TakesBoth
  <2>7. Keeps(c, m, State(A, Front(S), With(M, word, Last(S)), X, P), kept)
    BY <1>7, <2>6, KeepsState
  <2> QED
    BY <2>3, <2>7, Zenon DEF c, m, g, n, A
<1> QED
  BY <1>5, <1>11, <1>12, <1>13

-----------------------------------------------------------------------------
(* Every fold keeps the stack logic.                                       *)

(* What a window that a fold took consists of.                             *)
FoldOf(w, fold) ==
  \/ IsMemoryAccess(w) /\ fold.skip = 5 /\ fold.bytes = find_convert_memory_access(w)
  \/ w[0].my_cmd \in MathCmds /\ fold.skip = 1 /\ fold.bytes = MathOfStack(w[0])
  \/ /\ w[0].my_cmd = CMD_MY_PUSH /\ w[1].my_cmd \in MathCmds
     /\ fold.skip = 2 /\ fold.bytes = PushMath(w[0], w[1])
  \/ /\ w[0].my_cmd = CMD_MY_PUSH /\ w[2].my_cmd \in MathCmds
     /\ fold.skip = 3 /\ fold.bytes = PushAnyMath(w[0], w[1], w[2])
  \/ fold.skip = 0

LEMMA FoldShapes ==
  ASSUME NEW w
  PROVE  FoldOf(w, convert_tokens2nonstack_logic(w))
<1> DEFINE A == IsMemoryAccess(w)
           B == w[0].my_cmd \in MathCmds
           P == w[0].my_cmd = CMD_MY_PUSH
           I == w[0].use_immed /\ w[1].use_immed
           C == w[1].my_cmd \in MathCmds
           D == w[2].my_cmd \in MathCmds
           f == convert_tokens2nonstack_logic(w)
<1>1. ~(P /\ B)
  BY SMT DEF MathCmds, CMD_MY_PUSH, CMD_MY_ADD, CMD_MY_SUB, CMD_MY_MUL, CMD_MY_DIV
<1>2. f = CASE A -> Fold(5, find_convert_memory_access(w))
            [] ~A /\ B -> Fold(1, MathOfStack(w[0]))
            [] ~A /\ P /\ ~I /\ C -> Fold(2, PushMath(w[0], w[1]))
            [] ~A /\ P /\ ~I /\ ~C /\ D -> Fold(3, PushAnyMath(w[0], w[1], w[2]))
            [] OTHER -> Fold(0, << >>)
  BY DEF convert_tokens2nonstack_logic
<1>3. ASSUME NEW s, NEW bytes, f = Fold(s, bytes)
      PROVE  f.skip = s /\ f.bytes = bytes
  BY <1>3, FoldRead
<1>4. CASE A
  <2>1. f = Fold(5, find_convert_memory_access(w))
    BY <1>2, <1>4, Zenon
  <2> QED
    BY <1>3, <1>4, <2>1, Zenon DEF FoldOf
<1>5. CASE ~A /\ B
  <2>1. f = Fold(1, MathOfStack(w[0]))
    BY <1>1, <1>2, <1>5, Zenon
  <2> QED
    BY <1>3, <1>5, <2>1, Zenon DEF FoldOf
<1>6. CASE ~A /\ ~B /\ P /\ ~I /\ C
  <2>1. f = Fold(2, PushMath(w[0], w[1]))
    BY <1>2, <1>6, Zenon
  <2> QED
    BY <1>3, <1>6, <2>1, Zenon DEF FoldOf
<1>7. CASE ~A /\ ~B /\ P /\ ~I /\ ~C /\ D
  <2>1. f = Fold(3, PushAnyMath(w[0], w[1], w[2]))
    BY <1>2, <1>7, Zenon
  <2> QED
    BY <1>3, <1>7, <2>1, Zenon DEF FoldOf
<1>8. CASE ~A /\ ~B /\ ~(P /\ ~I /\ (C \/ D))
  <2>1. f = Fold(0, << >>)
    BY <1>2, <1>8, Zenon
  <2> QED
    BY <1>3, <2>1, Zenon DEF FoldOf
<1> QED
  BY <1>4, <1>5, <1>6, <1>7, <1>8

(* The inductive invariant: a fold is written as it was chosen.            *)
FoldRunInv == TokenRunInv /\ (translated /\ skip > 0 => code = convert_tokens2nonstack_logic(look).bytes)

LEMMA FoldRunStep ==
  ASSUME FoldRunInv, Translate
  PROVE  FoldRunInv'
<1> DEFINE fold == convert_tokens2nonstack_logic(look)
<1>1. TokenRunInv'
  BY TokenRunStep DEF FoldRunInv
<1>2. /\ look' = look /\ skip' = fold.skip
      /\ code' = IF fold.skip > 0 THEN fold.bytes
                 ELSE IF look[0].my_cmd = CMD_MY_LABEL THEN << >>
                 ELSE x86_cmd_ctor(look[0], Space)
  BY DEF Translate
<1> HIDE DEF fold
<1>3. skip' > 0 => code' = fold.bytes
  BY <1>2
<1>4. (convert_tokens2nonstack_logic(look).bytes)' = fold.bytes
  BY <1>2 DEF fold
<1> QED
  BY <1>1, <1>3, <1>4 DEF FoldRunInv

LEMMA KeptApart ==
  ASSUME skip > 0
  PROVE  /\ \A r \in KeptRegs : r \in 0..15 /\ r \notin Scratch /\ r \notin {RDI, RCX}
<1>1. skip # 0
  BY SMT
<1>2. KeptRegs = {RBX} \cup 8..15
  BY <1>1 DEF KeptRegs
<1>3. \A r \in {RBX} \cup 8..15 : r \in 0..15 /\ r \notin {RAX, RDX, RDI} /\ r \notin {RDI, RCX}
  BY SMT DEF RAX, RBX, RCX, RDX, RDI
<1> QED
  BY <1>2, <1>3 DEF Scratch

LEMMA Replaced ==
  ASSUME NEW R, NEW S, NEW M, NEW X, NEW P, NEW r, NEW v
  PROVE  [State(R, S, M, X, P) EXCEPT !.regs[r] = v] = State(With(R, r, v), S, M, X, P)
<1>1. PICK b : b = FALSE
  BY Zenon
<1>2. [StateOf(R, S, M, X, P, b) EXCEPT !.regs[r] = v] = StateOf(With(R, r, v), S, M, X, P, b)
  BY SMT DEF StateOf, With
<1> QED
  BY <1>1, <1>2, Zenon DEF State

(* The window of push rbx; push N; add; pop rcx; and push or pop [rcx].    *)
LEMMA AccessRuns ==
  ASSUME look \in Looks, start \in Machines, IsMemoryAccess(look), skip = 5, SoundFold,
         code = find_convert_memory_access(look)
  PROVE  SameAs(AfterMemoryAccess)
<1> DEFINE t == look[4]
           i == MemoryIndent(look)
           v == look[1].immed
<1>1. t \in AtRcx
  BY LooksShaped
<1>2. i = v * 8
  <2>1. look[1].my_cmd = CMD_MY_PUSH /\ look[2].my_cmd = CMD_MY_ADD
    BY SMT DEF SoundFold
  <2>2. CMD_MY_PUSH # CMD_MY_ADD
    BY SMT DEF CMD_MY_PUSH, CMD_MY_ADD
  <2> QED
    BY <2>1, <2>2, Zenon DEF MemoryIndent
<1>3. v * 8 \in Ints /\ v \in Ints
  <2>1. 1 \in 0..4
    BY SMT
  <2>2. Known(look[1])
    BY <2>1, LooksUsual DEF Usual
  <2> QED
    BY <2>2, Zenon DEF Known
<1>4. v \in Int /\ v * 8 \in Int
  <2>1. Ints \subseteq Int
    BY ValueRange
  <2> QED
    BY <1>3, <2>1
<1>5. PICK R, S, M : Usable(R, S, M) /\ start = State(R, S, M, 0, << >>)
  BY StartState
<1> DEFINE word == R[RBX] + i
<1>6. R[RBX] \in Int
  <2>1. RBX \in 0..15
    BY SMT DEF RBX
  <2> QED
    BY <1>5, <2>1 DEF Usable
<1> HIDE DEF v, t
<1>7. word \in Int /\ start.regs[RBX] + 8 * v = word
  <2>1. start.regs = R
    BY <1>5, StateFields, SMT
  <2>2. 8 * v = v * 8
    BY <1>4
  <2> QED
    BY <1>2, <1>4, <1>6, <2>1, <2>2
<1>8. i \in Ints
  BY <1>2, <1>3
<1>9. skip > 0
  BY SMT
<1>10. \A r \in KeptRegs : r \in 0..15 /\ r \notin {RDI, RCX}
  BY <1>9, KeptApart
<1> HIDE DEF i, word
<1>11. AfterMemoryAccess = GuestStep(State(With(R, RCX, word), S, M, 0, << >>), t)
  <2>1. [start EXCEPT !.regs[RCX] = word] = State(With(R, RCX, word), S, M, 0, << >>)
    BY <1>5, Replaced
  <2> QED
    BY <1>7, <2>1, Zenon DEF AfterMemoryAccess, t, v
<1>12. word = R[RBX] + i
  BY DEF word
<1>13. Keeps(code, start, AfterMemoryAccess, KeptRegs)
  BY <1>1, <1>5, <1>7, <1>8, <1>10, <1>11, <1>12, MemoryAccessKeeps DEF t, i
<1> QED
  BY <1>13, KeepsSame

LEMMA FoldRuns ==
  ASSUME FoldRunInv
  PROVE  FoldsKeepStackLogic
<1> DEFINE g == IF skip = 5 THEN AfterMemoryAccess ELSE AfterTokens
           a == GuestStep(start, look[0])
           b == GuestStep(a, look[1])
<1> SUFFICES ASSUME translated, skip > 0, SoundFold
             PROVE  SameAs(g)
  BY Zenon DEF FoldsKeepStackLogic
<1>1. look \in Looks /\ start \in Machines
  BY DEF FoldRunInv, TokenRunInv, TokenInv
<1>2. FoldOf(look, convert_tokens2nonstack_logic(look))
  BY FoldShapes
<1>3. skip = convert_tokens2nonstack_logic(look).skip /\ code = convert_tokens2nonstack_logic(look).bytes
  BY DEF FoldRunInv, TokenRunInv
<1>4. /\ Known(look[0]) /\ Known(look[1]) /\ Known(look[2])
      /\ Shaped(look[0]) /\ Shaped(look[1]) /\ Shaped(look[2])
  <2>1. 0 \in 0..4 /\ 1 \in 0..4 /\ 2 \in 0..4
    BY SMT
  <2> QED
    BY <1>1, <2>1, LooksUsual, LooksShaped DEF Usual
<1>5. PICK R, S, M : Usable(R, S, M) /\ start = State(R, S, M, 0, << >>)
  BY <1>1, StartState
<1>6. DOMAIN R = 0..15 /\ rDX = RDX
  BY <1>5, SMT DEF Usable, rDX, RDX
<1>7. \A r \in KeptRegs : r \in DOMAIN R /\ r \notin Scratch
  BY <1>6, KeptApart
<1>8. CASE IsMemoryAccess(look) /\ skip = 5 /\ code = find_convert_memory_access(look)
  BY <1>1, <1>8, AccessRuns
<1>9. CASE look[0].my_cmd \in MathCmds /\ skip = 1 /\ code = MathOfStack(look[0])
  <2>1. look[0].my_cmd = CMD_MY_DIV => R[rDX] = 0
    <3>1. look[0].my_cmd = CMD_MY_DIV => start.regs[rDX] = 0
      BY <1>9, SMT DEF SoundFold
    <3>2. start.regs = R
      BY <1>5, StateFields, SMT
    <3> QED
      BY <3>1, <3>2
  <2>2. g = a
    <3>1. skip \in 0..3 /\ skip \in {0, 1} /\ skip # 5
      BY <1>9, SMT
    <3> QED
      BY <3>1, AfterTokensAre
  <2>3. Keeps(code, start, a, KeptRegs)
    BY <1>5, <1>7, <1>9, <2>1, MathKeeps
  <2> HIDE DEF a, g
  <2> QED
    BY <2>2, <2>3, KeepsSame
<1>10. CASE /\ look[0].my_cmd = CMD_MY_PUSH /\ look[1].my_cmd \in MathCmds
            /\ skip = 2 /\ code = PushMath(look[0], look[1])
  <2>1. FoldedPush(look[0]) /\ AddOrSub(look[1])
    <3>1. Foldable(look[0]) /\ AddOrSub(look[1])
      BY <1>10, SMT DEF SoundFold
    <3> QED
      BY <1>4, <1>10, <3>1 DEF FoldedPush
  <2>2. g = b
    <3>1. skip \in 0..3 /\ skip \notin {0, 1} /\ skip = 2 /\ skip # 5
      BY <1>10, SMT
    <3> QED
      BY <3>1, AfterTokensAre
  <2>3. Keeps(code, start, b, KeptRegs)
    BY <1>5, <1>7, <1>10, <2>1, PushMathKeeps
  <2> HIDE DEF b, g
  <2> QED
    BY <2>2, <2>3, KeepsSame
<1>11. CASE /\ look[0].my_cmd = CMD_MY_PUSH /\ look[2].my_cmd \in MathCmds
            /\ skip = 3 /\ code = PushAnyMath(look[0], look[1], look[2])
  <2>1. LoadedPush(look[0]) /\ FoldedPush(look[1]) /\ AddOrSub(look[2])
    <3>1. Loadable(look[0]) /\ look[1].my_cmd = CMD_MY_PUSH /\ Foldable(look[1]) /\ AddOrSub(look[2])
      BY <1>11, SMT DEF SoundFold
    <3> QED
      BY <1>4, <1>11, <3>1 DEF FoldedPush, LoadedPush
  <2>2. g = GuestStep(b, look[2])
    <3>1. skip \in 0..3 /\ skip \notin {0, 1} /\ skip # 2 /\ skip # 5
      BY <1>11, SMT
    <3> QED
      BY <3>1, AfterTokensAre
  <2>3. Keeps(code, start, GuestStep(b, look[2]), KeptRegs)
    BY <1>5, <1>7, <1>11, <2>1, PushAnyMathKeeps
  <2> HIDE DEF b, g
  <2> QED
    BY <2>2, <2>3, KeepsSame
<1>12. skip # 0
  BY SMT
<1> HIDE DEF g, a, b
<1> QED
  BY <1>2, <1>3, <1>8, <1>9, <1>10, <1>11, <1>12, Zenon DEF FoldOf

(* Of the windows the folds translate soundly, the code does to the stack, *)
(* the data memory and the registers the guest keeps what the folded       *)
(* tokens do one by one, for every immediate, every register and whatever  *)
(* state the window is reached in (convert_tokens2nonstack_logic,          *)
(* find_convert_memory_access).                                            *)
THEOREM FoldsRun == Spec => []FoldsKeepStackLogic
<1>1. Init => FoldRunInv
  BY DEF Init, FoldRunInv, TokenRunInv, TokenInv
<1>2. FoldRunInv /\ [Translate]_vars => FoldRunInv'
  <2>1. CASE Translate
    BY <2>1, FoldRunStep
  <2>2. CASE UNCHANGED vars
    BY <2>2 DEF vars, FoldRunInv, TokenRunInv, TokenInv
  <2> QED
    BY <2>1, <2>2
<1>3. FoldRunInv => FoldsKeepStackLogic
  BY FoldRuns
<1> QED
  BY <1>1, <1>2, <1>3, PTL DEF Spec
=============================================================================
