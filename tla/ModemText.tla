----------------------------- MODULE ModemText -----------------------------
(***************************************************************************)
(* A packet as the serial agent writes it to the modem, and as a modem or  *)
(* hex::decode reads such text (src/agents/rf95modem.rs).  Every protocol  *)
(* buffer has a byte below 16, the tag of its first field: 8, or 10 in an  *)
(* advertisement, whose type is the default.                               *)
(***************************************************************************)
EXTENDS Integers, Sequences, SequencesExt

\* write!("{:X}"): no padding.
Digits(byte) == IF byte < 16 THEN <<byte>> ELSE <<byte \div 16, byte % 16>>

HexData(msg) == FlattenSeq([i \in DOMAIN msg |-> Digits(msg[i])])

\* hex::decode: pairs of digits, and an error for an odd number of them.
Error == <<-1>>
Decoded(digits) ==
    IF Len(digits) % 2 = 1 THEN Error
    ELSE [i \in 1 .. Len(digits) \div 2 |-> 16 * digits[2 * i - 1] + digits[2 * i]]
============================================================================
