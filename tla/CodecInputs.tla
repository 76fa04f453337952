----------------------------- MODULE CodecInputs -----------------------------
(* What the codec is given: plain texts, byte by byte, and texts as they may *)
(* come over a link that damages them, character by character; and what its *)
(* three functions promise about any of them.                               *)
EXTENDS Codec

CONSTANTS
    Keys,               \* ENC_KEY, and others
    Bytes,              \* bytes plain texts are made of
    Characters          \* characters of one byte

ASSUME KeysAssumption == Keys \subseteq Seq(Byte)
ASSUME BytesAssumption == Bytes \subseteq Byte

VARIABLES text, plain

inputs == <<text, plain>>

Character == Characters \cup {"lead", "trail"}

InputsOK == text \in Seq(Character) /\ plain \in Seq(Byte)

InputsInit == text = << >> /\ plain = << >>

TypeText ==
    /\ \/ \E c \in Characters : text' = Append(text, c)
       \/ text' = text \o <<"lead", "trail">>
    /\ UNCHANGED plain

TypePlain ==
    /\ \E b \in Bytes : plain' = Append(plain, b)
    /\ UNCHANGED text

InputsSpec == InputsInit /\ [][TypeText \/ TypePlain]_inputs

-----------------------------------------------------------------------------
\* What is encoded comes back from either decoder, whatever its length and the
\* key's; without a key everything is refused (types.rs:127, downlink.rs:34).
RoundTrip ==
    \A key \in Keys :
        LET cipher == xor_encrypt_to_hex(plain, key)
            answers == {xor_decrypt_from_hex(cipher, key), ground_xor_decrypt_from_hex(cipher, key)}
        IN  IsUtf8(plain) =>
                answers = {IF key = << >> THEN Failed("error") ELSE Ok(plain)}

\* On a damaged text too the ground and telemetry agree, but for two things:
\* only the ground forgives blanks around the text, and only telemetry's
\* decoder panics on an odd number of characters (types.rs:149).  On anything
\* but a character of several bytes the ground does not panic.
DecodersAgree ==
    \A key \in Keys :
        LET telemetry == xor_decrypt_from_hex(text, key)
            ground == ground_xor_decrypt_from_hex(text, key)
            ascii == \A i \in DOMAIN text : text[i] \notin {"lead", "trail"}
        IN  /\ telemetry.outcome = "ok" => ground = telemetry
            /\ (text = Trim(text) /\ ground.outcome = "ok") => telemetry = ground
            /\ ascii => ground.outcome # "panic"
            /\ (ascii /\ telemetry.outcome = "panic") => Len(text) % 2 = 1
=============================================================================
