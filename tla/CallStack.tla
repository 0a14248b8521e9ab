----------------------------- MODULE CallStack -----------------------------
(***************************************************************************)
(* The data memory as the generated code uses it.  The return addresses of *)
(* the guest's calls grow down from its end, below r15; the guest's words  *)
(* grow up from its start, above rbx.  Neither side looks at the other.    *)
(*                                                                         *)
(* An address here counts bytes from the start of the memory, and its      *)
(* value in mem is that of the eight bytes from there on.                  *)
(***************************************************************************)
EXTENDS Integers, Sequences

CONSTANTS
  Addresses,   \* return addresses
  Values,      \* what the guest stores
  Words,       \* the numbers of the guest's words, a part of Nat
  Torn         \* the value of eight bytes some of which were overwritten

VARIABLES
  capacity,    \* exec_memory_capacity
  mem,
  top,         \* r15
  calls,       \* history: the return addresses of the calls under way
  high         \* history: the words from this one on were never used

vars == << capacity, mem, top, calls, high >>

Slots == 0 .. capacity - 8

(* mov r15, end of the data memory - 8.                                    *)
Init ==
  /\ capacity \in Nat
  /\ mem \in [Slots -> Values]
  /\ top = capacity - 8
  /\ calls = << >>
  /\ high = 0

Stored(at, v) ==
  [a \in DOMAIN mem |-> IF a = at THEN v
                        ELSE IF at - 8 < a /\ a < at + 8 THEN Torn ELSE mem[a]]

(* mov [r15], ret; sub r15, 8; jmp                                         *)
Call(ret) ==
  /\ calls' = Append(calls, ret)
  /\ top \in Slots
  /\ mem' = Stored(top, ret)
  /\ top' = top - 8
  /\ UNCHANGED << capacity, high >>

AllButLast(s) == [k \in 1 .. Len(s) - 1 |-> s[k]]

(* add r15, 8; push [r15]; ret                                             *)
Ret ==
  /\ calls # << >>
  /\ calls' = AllButLast(calls)
  /\ top' = top + 8
  /\ UNCHANGED << capacity, mem, high >>

Used(w) == IF w < high THEN high ELSE w + 1

(* The memory access block, with pop and with push.                        *)
Write(w, v) ==
  /\ 8 * w \in Slots
  /\ high' = Used(w)
  /\ mem' = Stored(8 * w, v)
  /\ UNCHANGED << capacity, top, calls >>

Read(w) ==
  /\ 8 * w \in Slots
  /\ high' = Used(w)
  /\ UNCHANGED << capacity, mem, top, calls >>

Next ==
  \/ \E ret \in Addresses : Call(ret)
  \/ Ret
  \/ \E w \in Words : Read(w) \/ \E v \in Values : Write(w, v)

Spec == Init /\ [][Next]_vars

-----------------------------------------------------------------------------
Cell == Addresses \cup Values \cup {Torn}

TypeOK ==
  /\ capacity \in Nat
  /\ mem \in [Slots -> Cell]
  /\ calls \in Seq(Addresses)
  /\ high \in Nat
  /\ top = capacity - 8 - 8 * Len(calls)

(* Hazard: the two users of the data memory meet and neither knows.  The   *)
(* return address of every call under way is in its slot, as long as that  *)
(* lies above all the words the guest has used                             *)
(* (pre_encode_emitation_of_call, find_convert_memory_access).             *)
FramesKept ==
  \A k \in 1 .. Len(calls) :
    8 * (high + k) <= capacity => mem[capacity - 8 * k] = calls[k]

(* The same hazard from the other side: a step of the call stack changes   *)
(* no word that lies below every return address.                           *)
CallsKeepWords ==
  [][ calls' # calls =>
        \A w \in Words : 8 * (w + 1 + Len(calls')) <= capacity => mem'[8 * w] = mem[8 * w] ]_vars

(* A return goes where the call it answers was to come back to.            *)
ReturnsHome ==
  [][ Ret /\ 8 * (high + Len(calls)) <= capacity => mem[top'] = calls[Len(calls)] ]_vars
=============================================================================
