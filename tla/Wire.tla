-------------------------------- MODULE Wire --------------------------------
(***************************************************************************)
(* base64UrlEncode (core/wire.hpp), which writes the verifier of an        *)
(* authorization and its challenge.  A character is its index in the       *)
(* table.  Nothing here has state: TLC evaluates the fact at the end.      *)
(***************************************************************************)
EXTENDS Integers, Sequences
LOCAL INSTANCE SequencesExt

(* The characters for at most three bytes: one more than there are bytes. *)
Group(bytes) ==
  LET byte(j) == IF j <= Len(bytes) THEN bytes[j] ELSE 0
      n       == byte(1) * 65536 + byte(2) * 256 + byte(3)
  IN  [c \in 1..(Len(bytes) + 1) |-> (n \div 64 ^ (4 - c)) % 64]

Base64UrlEncode(data) ==
  LET end(i) == IF 3 * i < Len(data) THEN 3 * i ELSE Len(data)
  IN  FlattenSeq([i \in 1..((Len(data) + 2) \div 3) |->
                    Group(SubSeq(data, 3 * i - 2, end(i)))])

(* Bit k, the highest first, of digits of a width. *)
Bit(digits, width, k) ==
  (digits[k \div width + 1] \div 2 ^ (width - 1 - (k % width))) % 2

(* The text is the bits of the data cut in sixes and filled up with zeros,
   whatever is left over after the groups of three, and no longer than that
   ("base64url without padding", wire.hpp:93). *)
ASSUME EncodesTheBits ==
  \A data \in SeqOf({0, 1, 63, 128, 251, 255}, 4) :
    LET text == Base64UrlEncode(data)
        bits == 8 * Len(data)
    IN  /\ Len(text) = (bits + 5) \div 6
        /\ \A k \in 0..(6 * Len(text) - 1) :
             Bit(text, 6, k) = IF k < bits THEN Bit(data, 8, k) ELSE 0
=============================================================================
