-------------------------- MODULE CallStackProofs --------------------------
(***************************************************************************)
(* The return addresses and the guest's words keep apart as long as there  *)
(* is room for both, for a data memory of any size.                        *)
(***************************************************************************)
EXTENDS CallStack, TLAPS

(* Words are numbered from 0.                                              *)
WordsAreNat == Words \subseteq Nat

IInv == TypeOK /\ FramesKept

-----------------------------------------------------------------------------
(* Sequences of calls: one more, one less.                                 *)

LEMMA Longer ==
  ASSUME NEW S, NEW s \in Seq(S), NEW e \in S
  PROVE  /\ Append(s, e) \in Seq(S)
         /\ Len(Append(s, e)) = Len(s) + 1
         /\ Append(s, e)[Len(s) + 1] = e
         /\ \A k \in 1 .. Len(s) : Append(s, e)[k] = s[k]
OBVIOUS

LEMMA Shorter ==
  ASSUME NEW S, NEW s \in Seq(S), s # << >>
  PROVE  /\ AllButLast(s) \in Seq(S)
         /\ Len(AllButLast(s)) = Len(s) - 1
         /\ \A k \in 1 .. Len(s) - 1 : AllButLast(s)[k] = s[k]
<1>1. Len(s) - 1 \in Nat /\ \A k \in 1 .. Len(s) - 1 : s[k] \in S
  OBVIOUS
<1> QED
  BY <1>1 DEF AllButLast

(* Where there is room above a word for some slots there is room above the *)
(* words below it.                                                         *)
LEMMA RoomBelow ==
  ASSUME NEW c \in Nat, NEW h \in Nat, NEW g \in Nat, NEW k \in Nat,
         g <= h, 8 * (h + k) <= c
  PROVE  8 * (g + k) <= c /\ 8 * g <= c - 8 * k
OBVIOUS

(* A store changes its own slot and tears only what is nearer than eight.  *)
LEMMA StoredKeeps ==
  ASSUME NEW at \in Int, NEW a \in DOMAIN mem, NEW v, a \in Int,
         a <= at - 8 \/ at + 8 <= a
  PROVE  Stored(at, v)[a] = mem[a]
BY DEF Stored

LEMMA StoredThere ==
  ASSUME NEW at \in DOMAIN mem, NEW v
  PROVE  Stored(at, v)[at] = v
BY DEF Stored

LEMMA StoredType ==
  ASSUME TypeOK, NEW at \in Int, NEW v \in Cell
  PROVE  Stored(at, v) \in [Slots -> Cell]
<1>1. Torn \in Cell
  BY DEF Cell
<1>2. DOMAIN mem = Slots /\ \A a \in Slots : mem[a] \in Cell
  BY DEF TypeOK
<1> QED
  BY <1>1, <1>2 DEF Stored

LEMMA UsedType ==
  ASSUME TypeOK, NEW w \in Nat
  PROVE  Used(w) \in Nat /\ Used(w) >= high /\ Used(w) >= w + 1
BY DEF TypeOK, Used

-----------------------------------------------------------------------------

LEMMA InitIInv == Init => IInv
<1> SUFFICES ASSUME Init PROVE IInv
  OBVIOUS
<1>1. Len(calls) = 0 /\ calls \in Seq(Addresses)
  BY DEF Init
<1>2. TypeOK
  BY <1>1 DEF Init, TypeOK, Cell
<1> QED
  BY <1>1, <1>2 DEF IInv, FramesKept

LEMMA CallIInv ==
  ASSUME IInv, NEW ret \in Addresses, Call(ret)
  PROVE  IInv'
<1> DEFINE n == Len(calls)
<1>1. /\ capacity \in Nat /\ high \in Nat /\ calls \in Seq(Addresses) /\ n \in Nat
      /\ top = capacity - 8 - 8 * n /\ DOMAIN mem = Slots
  BY DEF IInv, TypeOK
<1>2. /\ top \in Slots /\ mem' = Stored(top, ret) /\ top' = top - 8
      /\ calls' = Append(calls, ret) /\ capacity' = capacity /\ high' = high
  BY DEF Call
<1>3. /\ calls' \in Seq(Addresses) /\ Len(calls') = n + 1
      /\ calls'[n + 1] = ret /\ \A k \in 1 .. n : calls'[k] = calls[k]
  BY <1>1, <1>2, Longer
<1>4. TypeOK'
  <2>1. top \in Int /\ ret \in Cell
    BY <1>1 DEF Cell
  <2>2. mem' \in [Slots -> Cell]
    BY <1>2, <2>1, StoredType DEF IInv
  <2>3. top' = capacity' - 8 - 8 * Len(calls')
    BY <1>1, <1>2, <1>3
  <2> QED
    BY <1>1, <1>2, <1>3, <2>2, <2>3 DEF TypeOK, Slots, Cell
<1>5. ASSUME NEW k \in 1 .. Len(calls'), 8 * (high + k) <= capacity
      PROVE  mem'[capacity - 8 * k] = calls'[k]
  <2>1. CASE k = n + 1
    <3>1. capacity - 8 * k = top
      BY <1>1, <2>1
    <3> QED
      BY <1>1, <1>2, <1>3, <2>1, <3>1, StoredThere
  <2>2. CASE k # n + 1
    <3>1. k \in 1 .. n
      BY <1>1, <1>3, <2>2
    <3>2. /\ capacity - 8 * k \in Slots /\ top + 8 <= capacity - 8 * k
          /\ top \in Int /\ capacity - 8 * k \in Int
      BY <1>1, <1>5, <3>1 DEF Slots
    <3>3. mem'[capacity - 8 * k] = mem[capacity - 8 * k]
      BY <1>1, <1>2, <3>2, StoredKeeps
    <3> QED
      BY <1>1, <1>3, <1>5, <3>1, <3>3 DEF IInv, FramesKept
  <2> QED
    BY <2>1, <2>2
<1> QED
  BY <1>2, <1>4, <1>5 DEF IInv, FramesKept

LEMMA RetIInv == IInv /\ Ret => IInv'
<1> SUFFICES ASSUME IInv, Ret PROVE IInv'
  OBVIOUS
<1> DEFINE n == Len(calls)
<1>1. /\ capacity \in Nat /\ high \in Nat /\ calls \in Seq(Addresses) /\ n \in Nat
      /\ top = capacity - 8 - 8 * n
  BY DEF IInv, TypeOK
<1>2. /\ calls # << >> /\ calls' = AllButLast(calls) /\ top' = top + 8
      /\ capacity' = capacity /\ mem' = mem /\ high' = high
  BY DEF Ret
<1>3. /\ calls' \in Seq(Addresses) /\ Len(calls') = n - 1
      /\ \A k \in 1 .. n - 1 : calls'[k] = calls[k]
  BY <1>1, <1>2, Shorter
<1>4. top' = capacity' - 8 - 8 * Len(calls')
  BY <1>1, <1>2, <1>3
<1>5. TypeOK'
  BY <1>1, <1>2, <1>3, <1>4 DEF IInv, TypeOK, Slots, Cell
<1>6. \A k \in 1 .. Len(calls') : k \in 1 .. n /\ calls'[k] = calls[k]
  BY <1>1, <1>3
<1> QED
  BY <1>2, <1>5, <1>6 DEF IInv, FramesKept

LEMMA ReadIInv ==
  ASSUME IInv, NEW w \in Nat, Read(w)
  PROVE  IInv'
<1>1. /\ high' = Used(w) /\ capacity' = capacity /\ mem' = mem /\ top' = top /\ calls' = calls
  BY DEF Read
<1>2. /\ high \in Nat /\ high' \in Nat /\ high' >= high
      /\ capacity \in Nat /\ Len(calls) \in Nat
  BY <1>1, UsedType DEF IInv, TypeOK
<1>3. TypeOK'
  BY <1>1, <1>2 DEF IInv, TypeOK, Slots, Cell
<1>4. ASSUME NEW k \in 1 .. Len(calls), 8 * (high' + k) <= capacity
      PROVE  8 * (high + k) <= capacity
  <2>1. k \in Nat
    BY <1>2
  <2> QED
    BY <1>2, <1>4, <2>1, RoomBelow
<1> QED
  BY <1>1, <1>3, <1>4 DEF IInv, FramesKept

LEMMA WriteIInv ==
  ASSUME IInv, NEW w \in Nat, NEW v \in Values, Write(w, v)
  PROVE  IInv'
<1>1. /\ high' = Used(w) /\ capacity' = capacity /\ top' = top /\ calls' = calls
      /\ mem' = Stored(8 * w, v)
  BY DEF Write
<1>2. /\ high \in Nat /\ high' \in Nat /\ high' >= high /\ high' >= w + 1
      /\ capacity \in Nat /\ Len(calls) \in Nat /\ DOMAIN mem = Slots
  BY <1>1, UsedType DEF IInv, TypeOK
<1>3. TypeOK'
  <2>1. 8 * w \in Int /\ v \in Cell
    BY DEF Cell
  <2>2. mem' \in [Slots -> Cell]
    BY <1>1, <2>1, StoredType DEF IInv
  <2> QED
    BY <1>1, <1>2, <2>2 DEF IInv, TypeOK, Slots, Cell
<1>4. ASSUME NEW k \in 1 .. Len(calls), 8 * (high' + k) <= capacity
      PROVE  mem'[capacity - 8 * k] = calls[k]
  <2> k \in Nat /\ w + 1 \in Nat
    BY <1>2
  <2>1. 8 * (high + k) <= capacity /\ 8 * (w + 1) <= capacity - 8 * k
    BY <1>2, <1>4, RoomBelow
  <2>2. capacity - 8 * k \in Slots /\ capacity - 8 * k \in Int /\ 8 * w \in Int
    BY <1>2, <2>1 DEF Slots
  <2>3. mem'[capacity - 8 * k] = mem[capacity - 8 * k]
    BY <1>1, <1>2, <2>1, <2>2, StoredKeeps
  <2> QED
    BY <2>1, <2>3 DEF IInv, FramesKept
<1> QED
  BY <1>1, <1>3, <1>4 DEF IInv, FramesKept

LEMMA NextIInv == ASSUME WordsAreNat PROVE IInv /\ [Next]_vars => IInv'
<1> SUFFICES ASSUME IInv, [Next]_vars PROVE IInv'
  OBVIOUS
<1>1. ASSUME NEW ret \in Addresses, Call(ret) PROVE IInv'
  BY <1>1, CallIInv
<1>2. CASE Ret
  BY <1>2, RetIInv
<1>3. ASSUME NEW w \in Words, Read(w) PROVE IInv'
  BY <1>3, ReadIInv DEF WordsAreNat
<1>4. ASSUME NEW w \in Words, NEW v \in Values, Write(w, v) PROVE IInv'
  BY <1>4, WriteIInv DEF WordsAreNat
<1>5. CASE UNCHANGED vars
  BY <1>5 DEF vars, IInv, TypeOK, FramesKept, Slots, Cell
<1> QED
  BY <1>1, <1>2, <1>3, <1>4, <1>5 DEF Next

-----------------------------------------------------------------------------
(* Hazard: the stack pointer of the calls drifts.  r15 always points below *)
(* as many slots as there are calls under way.                             *)
THEOREM TypeCorrect == ASSUME WordsAreNat PROVE Spec => []TypeOK
<1>1. IInv => TypeOK
  BY DEF IInv
<1> QED
  BY <1>1, InitIInv, NextIInv, PTL DEF Spec

(* The return address of every call under way that has all the used words  *)
(* below it is in its slot, for a data memory of any size.                 *)
THEOREM ReturnAddressesKept == ASSUME WordsAreNat PROVE Spec => []FramesKept
<1>1. IInv => FramesKept
  BY DEF IInv
<1> QED
  BY <1>1, InitIInv, NextIInv, PTL DEF Spec

(* Calls and returns leave every word that is below the call stack.        *)
THEOREM WordsKept == ASSUME WordsAreNat PROVE Spec => CallsKeepWords
<1> DEFINE Keeps == calls' # calls =>
             \A w \in Words : 8 * (w + 1 + Len(calls')) <= capacity => mem'[8 * w] = mem[8 * w]
<1>1. ASSUME IInv, [Next]_vars PROVE [Keeps]_vars
  <2>1. SUFFICES ASSUME calls' # calls, NEW w \in Words, 8 * (w + 1 + Len(calls')) <= capacity
                 PROVE  mem'[8 * w] = mem[8 * w]
    OBVIOUS
  <2>2. w \in Nat
    BY DEF WordsAreNat
  <2>3. ASSUME NEW ret \in Addresses, Call(ret) PROVE mem'[8 * w] = mem[8 * w]
    <3>1. /\ capacity \in Nat /\ calls \in Seq(Addresses) /\ Len(calls) \in Nat
          /\ top = capacity - 8 - 8 * Len(calls) /\ DOMAIN mem = Slots
      BY <1>1 DEF IInv, TypeOK
    <3>2. calls' = Append(calls, ret) /\ mem' = Stored(top, ret)
      BY <2>3 DEF Call
    <3>3. Len(calls') = Len(calls) + 1
      BY <3>1, <3>2, Longer
    <3>4. 8 * w \in Slots /\ 8 * w <= top - 8
      BY <2>1, <2>2, <3>1, <3>3 DEF Slots
    <3> QED
      BY <3>1, <3>2, <3>4, StoredKeeps DEF Slots
  <2>4. CASE Ret
    BY <2>4 DEF Ret
  <2>5. ASSUME NEW u \in Words, Read(u) PROVE FALSE
    BY <2>1, <2>5 DEF Read
  <2>6. ASSUME NEW u \in Words, NEW v \in Values, Write(u, v) PROVE FALSE
    BY <2>1, <2>6 DEF Write
  <2>7. CASE UNCHANGED vars
    BY <2>1, <2>7 DEF vars
  <2> QED
    BY <1>1, <2>3, <2>4, <2>5, <2>6, <2>7 DEF Next
<1> QED
  BY <1>1, InitIInv, NextIInv, PTL DEF Spec, CallsKeepWords

(* With room for the words and the calls every return finds the address    *)
(* its call stored.                                                        *)
THEOREM ReturnsFindTheirCall == ASSUME WordsAreNat PROVE Spec => ReturnsHome
<1> DEFINE Home == Ret /\ 8 * (high + Len(calls)) <= capacity => mem[top'] = calls[Len(calls)]
<1>1. ASSUME IInv PROVE [Home]_vars
  <2>1. SUFFICES ASSUME Ret, 8 * (high + Len(calls)) <= capacity
                 PROVE  mem[top'] = calls[Len(calls)]
    OBVIOUS
  <2>2. /\ capacity \in Nat /\ calls \in Seq(Addresses) /\ Len(calls) \in Nat
        /\ top = capacity - 8 - 8 * Len(calls)
    BY <1>1 DEF IInv, TypeOK
  <2>3. calls # << >> /\ top' = top + 8
    BY <2>1 DEF Ret
  <2>4. Len(calls) \in 1 .. Len(calls) /\ top' = capacity - 8 * Len(calls)
    BY <2>2, <2>3
  <2> QED
    BY <1>1, <2>1, <2>4 DEF IInv, FramesKept
<1> QED
  BY <1>1, InitIInv, NextIInv, PTL DEF Spec, ReturnsHome
=============================================================================
