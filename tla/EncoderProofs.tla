---------------------------- MODULE EncoderProofs ----------------------------
(***************************************************************************)
(* The processor reads back what encode_cmd was asked for, whatever the    *)
(* registers and the immediate.                                            *)
(***************************************************************************)
EXTENDS MCEncoder, EncodingProofs

(* What has been written is what encode_cmd leaves for the request.        *)
Inv ==
  /\ info \in Infos(Immediates)
  /\ encoded => cmd = encode_cmd(info)

(* Every step keeps the request and its bytes together (encode_cmd).       *)
LEMMA Invariance == Spec => []Inv
<1>1. Init => Inv
  BY Zenon DEF Init, Inv
<1>2. Inv /\ [Encode]_vars => Inv'
  <2>1. ASSUME Inv, Encode PROVE Inv'
    BY <2>1, Zenon DEF Inv, Encode
  <2>2. ASSUME Inv, UNCHANGED vars PROVE Inv'
    BY <2>2, Zenon DEF Inv, vars
  <2> QED
    BY <2>1, <2>2
<1> QED
  BY <1>1, <1>2, PTL DEF Spec

LEMMA WithinValue == info \in Infos(Immediates) => info \in Infos(Ints)
<1>1. Immediates \subseteq Ints
  BY ImmediatesAssumption, Zenon DEF Ints
<1> QED
  BY <1>1, SMT DEF Infos

(* In a state of Inv the bytes read back as the request.                   *)
LEMMA ReadBack ==
  ASSUME Inv, encoded, Encodable(info)
  PROVE  \E op : SameOp(op, Intended(info)[1], Intended(info)[3]) /\ Decode(cmd) = Instr(op, Intended(info)[2], Intended(info)[3], Len(cmd))
<1>1. info \in Infos(Ints) /\ cmd = encode_cmd(info)
  BY WithinValue DEF Inv
<1>2. Right(info)
  BY <1>1, EncodableIsRight
<1> QED
  BY <1>1, <1>2, Zenon DEF Right, Reads

(* For every register, addressing mode and value of an int, but the        *)
(* requests of OutsideEncoder: the processor reads in the bytes that       *)
(* encode_cmd leaves the instruction, the operands and the value that were *)
(* asked for.                                                              *)
THEOREM Meaning == Spec => []EncodesWhatIsAsked
<1>1. Inv => EncodesWhatIsAsked
  <2> SUFFICES ASSUME Inv, encoded, Encodable(info)
               PROVE  /\ SameOp(Decode(cmd).op, Intended(info)[1], Intended(info)[3])
                      /\ Decode(cmd).dst = Intended(info)[2]
                      /\ Decode(cmd).src = Intended(info)[3]
    BY DEF EncodesWhatIsAsked
  <2>1. PICK op : SameOp(op, Intended(info)[1], Intended(info)[3]) /\ Decode(cmd) = Instr(op, Intended(info)[2], Intended(info)[3], Len(cmd))
    BY ReadBack
  <2>2. Decode(cmd).op = op /\ Decode(cmd).dst = Intended(info)[2] /\ Decode(cmd).src = Intended(info)[3]
    BY <2>1, SMT DEF Instr
  <2> QED
    BY <2>1, <2>2
<1> QED
  BY <1>1, Invariance, PTL

(* And those bytes are one instruction, none of them left over, so that    *)
(* the next one starts where it should (encode_cmd, x86_cmd_t::length).    *)
THEOREM OneInstruction == Spec => []EncodesOneInstruction
<1>1. Inv => EncodesOneInstruction
  <2> SUFFICES ASSUME Inv, encoded, Encodable(info)
               PROVE  Decode(cmd).len = Len(cmd)
    BY DEF EncodesOneInstruction
  <2>1. PICK op : Decode(cmd) = Instr(op, Intended(info)[2], Intended(info)[3], Len(cmd))
    BY ReadBack
  <2> QED
    BY <2>1, SMT DEF Instr
<1> QED
  BY <1>1, Invariance, PTL

=============================================================================
