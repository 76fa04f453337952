----------------------------- MODULE MCOperators -----------------------------
(* The pure parts, over bounded inputs: texts and plain texts grow by one   *)
(* character or byte, and the summaries are given records; a state is an    *)
(* input of one of the three.                                               *)
EXTENDS CodecInputs, Summaries, Bitwise

CONSTANTS MaxText, MaxPlain     \* bounds: the lengths

\* In hexadecimal, with the keys below: ASCII, a character of two bytes, and
\* bytes that are no text; then what is not hexadecimal.
MCCharacters == {"0", "A", "C", "c", "+", " ", "x"}
MCBytes == {10, 97, 195, 169, 226}
MCKeys == {<< >>, <<109>>, <<109, 121>>}

\* The codec's exclusive-or is the library's.
ASSUME XorIsBitwise == \A a, b \in Byte : XorByte(a, b) = a ^^ b

MCInit == Init /\ InputsInit

NothingGiven == \A what \in Streams : given[what] = << >>

GiveText == NothingGiven /\ plain = << >> /\ Len(text) < MaxText /\ TypeText /\ UNCHANGED vars

GivePlain == NothingGiven /\ text = << >> /\ Len(plain) < MaxPlain /\ TypePlain /\ UNCHANGED vars

Give == text = << >> /\ plain = << >> /\ Next /\ UNCHANGED inputs

MCNext == GiveText \/ GivePlain \/ Give

MCSpec == MCInit /\ [][MCNext]_<<vars, inputs>>
=============================================================================
