----------------------------- MODULE MCEncoder -----------------------------
(***************************************************************************)
(* Every request of encode_cmd over all registers and some immediates,     *)
(* read back with the processor's decoder.                                 *)
(***************************************************************************)
EXTENDS EncoderSpec

CONSTANT Immediates   \* the values of info->immed_val

ASSUME ImmediatesAssumption == Immediates \subseteq Ints

VARIABLES info, cmd, encoded

vars == << info, cmd, encoded >>

(* Both sides of each test of the size and the sign.                       *)
SizeLimits == {-200, -127, -1, 0, 127, 128}

Init ==
  /\ info \in Infos(Immediates)
  /\ cmd = << >>
  /\ encoded = FALSE

Encode ==
  /\ ~encoded
  /\ encoded' = TRUE
  /\ cmd' = encode_cmd(info)
  /\ UNCHANGED info

Spec == Init /\ [][Encode]_vars

-----------------------------------------------------------------------------
(* Hazard: seven masks OR-ed into three bytes, a prefix chosen before the  *)
(* operands are exchanged.  The processor reads the instruction that was   *)
(* asked for, with its registers and its value (encode_cmd).               *)
EncodesWhatIsAsked ==
  encoded /\ Encodable(info) =>
    /\ SameOp(Decode(cmd).op, Intended(info)[1], Intended(info)[3])
    /\ Decode(cmd).dst = Intended(info)[2]
    /\ Decode(cmd).src = Intended(info)[3]

(* Hazard: an operand size in the opcode that is not the one written.  The *)
(* bytes are one instruction, so the next one starts where it should.      *)
EncodesOneInstruction == encoded /\ Encodable(info) => Decode(cmd).len = Len(cmd)
=============================================================================
