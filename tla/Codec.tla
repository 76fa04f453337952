-------------------------------- MODULE Codec --------------------------------
(***************************************************************************)
(* The wire format: XOR with a repeating key, in hexadecimal.  types.rs    *)
(* encodes and has the decoder telemetry uses; downlink.rs has another one *)
(* for the ground station.                                                 *)
(*                                                                         *)
(* A plain text is a sequence of bytes.  A cipher text is a sequence of    *)
(* characters; a character that takes two bytes counts as two, "lead" and  *)
(* "trail", since the decoders slice by bytes.                             *)
(***************************************************************************)
EXTENDS Integers, SequencesExt

Byte == 0 .. 255

Digits == <<"0", "1", "2", "3", "4", "5", "6", "7", "8", "9", "A", "B", "C", "D", "E", "F">>
LowerCase == [a |-> 10, b |-> 11, c |-> 12, d |-> 13, e |-> 14, f |-> 15]

IsDigit(c) == c \in ToSet(Digits) \cup DOMAIN LowerCase
DigitValue(c) ==
    IF c \in DOMAIN LowerCase THEN LowerCase[c] ELSE (CHOOSE i \in 1 .. 16 : Digits[i] = c) - 1

\* Mutant: the digits in the other order.
Hex_Swapped(byte) == <<Digits[(byte % 16) + 1], Digits[(byte \div 16) + 1]>>

\* {:02X}: always two digits.
Hex(byte) == <<Digits[(byte \div 16) + 1], Digits[(byte % 16) + 1]>>

\* u8's ^, by the values of the bits.
Bit(n, value) == (n \div value) % 2
XorByte(a, b) ==
    LET bit(value) == value * ((Bit(a, value) + Bit(b, value)) % 2)
    IN  bit(1) + bit(2) + bit(4) + bit(8) + bit(16) + bit(32) + bit(64) + bit(128)

WithKey(bytes, key) ==
    [i \in DOMAIN bytes |-> XorByte(bytes[i], key[((i - 1) % Len(key)) + 1])]

\* Without a key there is no cipher text at all.
xor_encrypt_to_hex(plain, key) ==
    IF key = << >> THEN << >>
    ELSE LET out == WithKey(plain, key)
         IN  [i \in 1 .. 2 * Len(plain) |-> Hex(out[(i + 1) \div 2])[IF i % 2 = 1 THEN 1 ELSE 2]]

-----------------------------------------------------------------------------
(* u8::from_str_radix on two characters: a sign may stand for the first.    *)
IsByte(pair) == IsDigit(pair[2]) /\ (IsDigit(pair[1]) \/ pair[1] = "+")
ByteValue(pair) == (IF pair[1] = "+" THEN 0 ELSE 16 * DigitValue(pair[1])) + DigitValue(pair[2])

(* String::from_utf8, for characters of up to three bytes.                  *)
Follows(byte) == byte \in 128 .. 191
IsCharacter(s) ==
    \/ Len(s) = 1 /\ s[1] < 128
    \/ Len(s) = 2 /\ s[1] \in 194 .. 223 /\ Follows(s[2])
    \/ /\ Len(s) = 3 /\ s[1] \in 224 .. 239 /\ Follows(s[2]) /\ Follows(s[3])
       /\ s[1] = 224 => s[2] >= 160
       /\ s[1] = 237 => s[2] < 160
IsUtf8(bytes) ==
    LET upTo[n \in 0 .. Len(bytes)] ==
            n = 0 \/ \E m \in 0 .. n - 1 : upTo[m] /\ IsCharacter(SubSeq(bytes, m + 1, n))
    IN  upTo[Len(bytes)]

-----------------------------------------------------------------------------
(* The decoders, each with the outcome of a call: a text, an error, or a    *)
(* panic, which ends the thread that called.                                *)
Ok(plain) == [outcome |-> "ok", plain |-> plain]
Failed(how) == [outcome |-> how, plain |-> << >>]

\* Both slice the k-th pair out of the text, from one character to another.
Boundary(text, offset) == offset = Len(text) \/ text[offset + 1] # "trail"
CanSlice(text, k) ==
    2 * k <= Len(text) /\ Boundary(text, 2 * k - 2) /\ Boundary(text, 2 * k)
Pair(text, k) == SubSeq(text, 2 * k - 1, 2 * k)

PairOutcome(text, k) ==
    IF ~CanSlice(text, k) THEN "panic" ELSE IF IsByte(Pair(text, k)) THEN "ok" ELSE "error"

\* The first pair that is not a byte decides.
Decoded(text, key) ==
    LET pairs == 1 .. (Len(text) + 1) \div 2
        fine(n) == \A k \in 1 .. n : PairOutcome(text, k) = "ok"
        out == WithKey([k \in pairs |-> ByteValue(Pair(text, k))], key)
    IN  IF \E k \in pairs : fine(k - 1) /\ PairOutcome(text, k) = "panic" THEN Failed("panic")
        ELSE IF fine((Len(text) + 1) \div 2) /\ IsUtf8(out) THEN Ok(out)
        ELSE Failed("error")

\* types.rs, called by telemetry.
xor_decrypt_from_hex(text, key) ==
    IF key = << >> THEN Failed("error") ELSE Decoded(text, key)

\* str::trim, which the ground's decoder begins with.
Blank == " "
Trim(text) ==
    LET solid == {i \in DOMAIN text : text[i] # Blank}
    IN  IF solid = {} THEN << >> ELSE SubSeq(text, Min(solid), Max(solid))

\* Mutant: the ground relies on the slices, like telemetry.
Refused_Never(s) == FALSE

Refused(s) == Len(s) % 2 # 0

\* downlink.rs, called by the ground.
ground_xor_decrypt_from_hex(text, key) ==
    IF key = << >> \/ Refused(Trim(text)) THEN Failed("error") ELSE Decoded(Trim(text), key)
=============================================================================
