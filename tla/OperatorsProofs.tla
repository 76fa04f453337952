--------------------------- MODULE OperatorsProofs ---------------------------
(* The pure parts, for inputs and records of any length: what is encoded     *)
(* comes back and the two decoders agree, for every text, plain text and     *)
(* key; and the figures the reports print are those of the full record.      *)
EXTENDS CodecInputs, Summaries, FiniteSetTheorems, WellFoundedInduction, TLAPS

-----------------------------------------------------------------------------
(* Induction.                                                               *)
\* Any natural numbers have a least one.
LEMMA Least ==
  ASSUME NEW S, S \subseteq Nat, S # {}
  PROVE  \E x \in S : \A y \in S : x <= y
<1> DEFINE R == OpToRel(<, Nat)
<1>1. \A a, b \in Nat : <<a, b>> \in R <=> a < b
  BY Zenon DEF OpToRel
<1>2. IsWellFoundedOn(R, Nat)
  BY NatLessThanWellFounded, Zenon
<1> HIDE DEF R
<1>3. PICK x \in S : \A y \in S : ~(<<y, x>> \in R)
  BY <1>2, WFMin, Zenon
<1>4. \A y \in S : ~(y < x)
  BY <1>1, <1>3, Zenon
<1> QED
  BY <1>4

\* Induction over the natural numbers, in first-order form: if what fails at
\* no n fails at no n + 1, and not at 0, it fails nowhere.
LEMMA NoLeast ==
  ASSUME NEW Bad, Bad \subseteq Nat, 0 \notin Bad, \A n \in Nat : n \notin Bad => n + 1 \notin Bad
  PROVE  Bad = {}
<1> SUFFICES ASSUME Bad # {} PROVE FALSE
  OBVIOUS
<1>1. PICK n \in Bad : \A m \in Bad : n <= m
  BY Least
<1>2. n \in Nat /\ n # 0
  OBVIOUS
<1>3. n - 1 \in Nat /\ (n - 1) + 1 = n /\ ~(n <= n - 1)
  BY <1>2
<1>4. n - 1 \notin Bad
  BY <1>1, <1>3
<1> QED
  BY <1>3, <1>4

-----------------------------------------------------------------------------
(* The exclusive-or.                                                        *)
Weights == {1, 2, 4, 8, 16, 32, 64, 128}

\* A bit is 0 or 1.
LEMMA BitType ==
  ASSUME NEW n \in Nat, NEW w \in Weights
  PROVE  Bit(n, w) \in {0, 1}
  BY DEF Bit, Weights

\* A byte is the sum of its bits,
LEMMA ByteOfBits ==
  ASSUME NEW a \in Byte
  PROVE  a = Bit(a, 1) + 2 * Bit(a, 2) + 4 * Bit(a, 4) + 8 * Bit(a, 8) + 16 * Bit(a, 16)
               + 32 * Bit(a, 32) + 64 * Bit(a, 64) + 128 * Bit(a, 128)
  BY SMTT(60) DEF Bit, Byte

\* and any eight bits are the bits of a byte.
LEMMA BitsOfByte ==
  ASSUME NEW b0 \in {0, 1}, NEW b1 \in {0, 1}, NEW b2 \in {0, 1}, NEW b3 \in {0, 1},
         NEW b4 \in {0, 1}, NEW b5 \in {0, 1}, NEW b6 \in {0, 1}, NEW b7 \in {0, 1},
         NEW c, c = 1 * b0 + 2 * b1 + 4 * b2 + 8 * b3 + 16 * b4 + 32 * b5 + 64 * b6 + 128 * b7
  PROVE  /\ c \in Byte
         /\ Bit(c, 1) = b0 /\ Bit(c, 2) = b1 /\ Bit(c, 4) = b2 /\ Bit(c, 8) = b3
         /\ Bit(c, 16) = b4 /\ Bit(c, 32) = b5 /\ Bit(c, 64) = b6 /\ Bit(c, 128) = b7
  BY SMTT(60) DEF Bit, Byte

\* The key's byte twice is no change.
LEMMA XorTwice ==
  ASSUME NEW a \in Byte, NEW b \in Byte
  PROVE  XorByte(a, b) \in Byte /\ XorByte(XorByte(a, b), b) = a
<1> DEFINE x(w) == (Bit(a, w) + Bit(b, w)) % 2
           c == XorByte(a, b)
<1>1. \A w \in Weights : Bit(a, w) \in {0, 1} /\ Bit(b, w) \in {0, 1}
  BY BitType DEF Byte
<1>2. \A w \in Weights : x(w) \in {0, 1} /\ (x(w) + Bit(b, w)) % 2 = Bit(a, w)
  <2> SUFFICES ASSUME NEW w \in Weights
               PROVE  x(w) \in {0, 1} /\ (x(w) + Bit(b, w)) % 2 = Bit(a, w)
    OBVIOUS
  <2>1. Bit(a, w) \in {0, 1} /\ Bit(b, w) \in {0, 1}
    BY <1>1
  <2> QED
    BY <2>1
<1>3. /\ x(1) \in {0, 1} /\ x(2) \in {0, 1} /\ x(4) \in {0, 1} /\ x(8) \in {0, 1}
      /\ x(16) \in {0, 1} /\ x(32) \in {0, 1} /\ x(64) \in {0, 1} /\ x(128) \in {0, 1}
  BY <1>2 DEF Weights
<1>4. c = 1 * x(1) + 2 * x(2) + 4 * x(4) + 8 * x(8) + 16 * x(16) + 32 * x(32) + 64 * x(64)
            + 128 * x(128)
  BY DEF XorByte
<1> HIDE DEF x, c
<1>5. /\ c \in Byte
      /\ Bit(c, 1) = x(1) /\ Bit(c, 2) = x(2) /\ Bit(c, 4) = x(4) /\ Bit(c, 8) = x(8)
      /\ Bit(c, 16) = x(16) /\ Bit(c, 32) = x(32) /\ Bit(c, 64) = x(64) /\ Bit(c, 128) = x(128)
  BY <1>3, <1>4, BitsOfByte
<1>6. XorByte(c, b) = 1 * Bit(a, 1) + 2 * Bit(a, 2) + 4 * Bit(a, 4) + 8 * Bit(a, 8)
                        + 16 * Bit(a, 16) + 32 * Bit(a, 32) + 64 * Bit(a, 64) + 128 * Bit(a, 128)
  BY <1>2, <1>5 DEF XorByte, Weights
<1>7. XorByte(c, b) = a
  BY <1>1, <1>6, ByteOfBits DEF Weights
<1> QED
  BY <1>5, <1>7 DEF c

\* So the repeating key twice gives the bytes back.
LEMMA WithKeyTwice ==
  ASSUME NEW bytes \in Seq(Byte), NEW key \in Seq(Byte), key # << >>
  PROVE  /\ WithKey(bytes, key) \in Seq(Byte)
         /\ Len(WithKey(bytes, key)) = Len(bytes)
         /\ WithKey(WithKey(bytes, key), key) = bytes
<1> DEFINE out == WithKey(bytes, key)
           k(i) == key[((i - 1) % Len(key)) + 1]
<1>1. Len(key) \in Nat \ {0}
  OBVIOUS
<1>2. \A i \in 1 .. Len(bytes) : ((i - 1) % Len(key)) + 1 \in 1 .. Len(key)
  BY <1>1
<1>3. \A i \in 1 .. Len(bytes) : k(i) \in Byte /\ bytes[i] \in Byte
  BY <1>2
<1>4. out = [i \in 1 .. Len(bytes) |-> XorByte(bytes[i], k(i))]
  BY DEF WithKey
<1> HIDE DEF k
<1>5. \A i \in 1 .. Len(bytes) : out[i] \in Byte /\ XorByte(out[i], k(i)) = bytes[i]
  BY <1>3, <1>4, XorTwice
<1>6. out \in Seq(Byte) /\ Len(out) = Len(bytes) /\ DOMAIN out = 1 .. Len(bytes)
  <2>1. out = [i \in 1 .. Len(bytes) |-> out[i]]
    BY <1>4
  <2> HIDE DEF out
  <2>2. Len(bytes) \in Nat
    OBVIOUS
  <2> QED
    BY <2>1, <2>2, <1>5
<1>7. WithKey(out, key) = [i \in 1 .. Len(bytes) |-> XorByte(out[i], k(i))]
  BY <1>6 DEF WithKey, k
<1>8. WithKey(out, key) = bytes
  BY <1>5, <1>7
<1> QED
  BY <1>6, <1>8

-----------------------------------------------------------------------------
(* The digits.                                                              *)
UpperCase == {"0", "1", "2", "3", "4", "5", "6", "7", "8", "9", "A", "B", "C", "D", "E", "F"}

\* What no digit is.
Others == {"+", " ", "lead", "trail"}

\* A blank is no digit.
LEMMA BlankIsOther == Blank \in Others
  BY DEF Blank, Others

\* The sixteen digits are different, and from_str_radix knows all of them.
LEMMA DigitNames ==
  /\ DOMAIN Digits = 1 .. 16 /\ ToSet(Digits) = UpperCase
  /\ \A i, j \in 1 .. 16 : Digits[i] = Digits[j] => i = j
  /\ \A i \in 1 .. 16 : Digits[i] \in UpperCase
  /\ DOMAIN LowerCase = {"a", "b", "c", "d", "e", "f"}
  /\ \A c \in UpperCase : c \notin DOMAIN LowerCase /\ c \notin Others
  /\ \A c \in Others : ~IsDigit(c)
<1>1. DOMAIN Digits = 1 .. 16 /\ \A i, j \in 1 .. 16 : Digits[i] = Digits[j] => i = j
  BY DEF Digits
<1>2. ToSet(Digits) = UpperCase
  BY DEF Digits, ToSet, UpperCase
<1>3. \A i \in 1 .. 16 : Digits[i] \in UpperCase
  BY <1>1, <1>2 DEF ToSet
<1>4. DOMAIN LowerCase = {"a", "b", "c", "d", "e", "f"}
  BY DEF LowerCase
<1>5. \A c \in UpperCase : c \notin DOMAIN LowerCase /\ c \notin Others
  BY <1>4 DEF UpperCase, Others
<1>6. \A c \in Others : ~IsDigit(c)
  BY <1>2, <1>4 DEF IsDigit, UpperCase, Others
<1> QED
  BY <1>1, <1>2, <1>3, <1>4, <1>5, <1>6

\* A digit stands for its value.
LEMMA DigitOf ==
  ASSUME NEW n \in 0 .. 15
  PROVE  /\ IsDigit(Digits[n + 1]) /\ DigitValue(Digits[n + 1]) = n
         /\ Digits[n + 1] \in ToSet(Digits) /\ Digits[n + 1] \notin Others
<1> DEFINE c == Digits[n + 1]
<1>1. n + 1 \in 1 .. 16 /\ (n + 1) - 1 = n
  OBVIOUS
<1>2. c \in UpperCase /\ c \notin DOMAIN LowerCase /\ c \notin Others
  BY <1>1, DigitNames
<1>3. IsDigit(c) /\ c \in ToSet(Digits)
  BY <1>2, DigitNames DEF IsDigit
<1>4. (CHOOSE i \in 1 .. 16 : Digits[i] = c) = n + 1
  BY <1>1, DigitNames
<1>5. DigitValue(c) = n
  BY <1>1, <1>2, <1>4 DEF DigitValue
<1> QED
  BY <1>2, <1>3, <1>5

\* {:02X} and from_str_radix are inverse.
LEMMA HexIsByte ==
  ASSUME NEW byte \in Byte
  PROVE  /\ Len(Hex(byte)) = 2
         /\ IsByte(Hex(byte)) /\ ByteValue(Hex(byte)) = byte
         /\ \A i \in 1 .. 2 : Hex(byte)[i] \in ToSet(Digits) /\ Hex(byte)[i] \notin Others
<1> DEFINE high == byte \div 16
           low == byte % 16
<1>1. high \in 0 .. 15 /\ low \in 0 .. 15 /\ byte = 16 * high + low
  BY DEF Byte
<1>2. Hex(byte) = <<Digits[high + 1], Digits[low + 1]>>
  BY DEF Hex
<1> HIDE DEF high, low
<1>3. Hex(byte)[1] = Digits[high + 1] /\ Hex(byte)[2] = Digits[low + 1] /\ Len(Hex(byte)) = 2
  BY <1>2
<1>4. \A i \in 1 .. 2 : i = 1 \/ i = 2
  OBVIOUS
<1>5. \A d \in {high, low} :
          /\ IsDigit(Digits[d + 1]) /\ DigitValue(Digits[d + 1]) = d
          /\ Digits[d + 1] \in ToSet(Digits) /\ Digits[d + 1] \notin Others
  BY <1>1, DigitOf
<1>6. IsByte(Hex(byte)) /\ ByteValue(Hex(byte)) = byte
  <2>1. Hex(byte)[1] # "+"
    BY <1>3, <1>5 DEF Others
  <2> QED
    BY <1>1, <1>3, <1>5, <2>1 DEF IsByte, ByteValue
<1> QED
  BY <1>3, <1>4, <1>5, <1>6

\* A slice of two characters.
LEMMA PairIs ==
  ASSUME NEW S, NEW s \in Seq(S), NEW k \in Nat, k > 0, 2 * k <= Len(s)
  PROVE  Pair(s, k) = <<s[2 * k - 1], s[2 * k]>>
<1>1. Pair(s, k) = [i \in 1 .. 2 |-> s[i + (2 * k - 1) - 1]]
  BY DEF Pair
<1>2. 1 + (2 * k - 1) - 1 = 2 * k - 1 /\ 2 + (2 * k - 1) - 1 = 2 * k
  OBVIOUS
<1> QED
  BY <1>1, <1>2

\* The cipher text is the digits of the bytes, pair by pair.
LEMMA CipherPairs ==
  ASSUME NEW bytes \in Seq(Byte), NEW key \in Seq(Byte), key # << >>
  PROVE  LET cipher == xor_encrypt_to_hex(bytes, key)
         IN  /\ Len(cipher) = 2 * Len(bytes)
             /\ cipher \in Seq(ToSet(Digits))
             /\ \A k \in 1 .. Len(bytes) :
                   Pair(cipher, k) = Hex(WithKey(bytes, key)[k])
             /\ \A i \in 1 .. 2 * Len(bytes) : cipher[i] \notin Others
<1> DEFINE out == WithKey(bytes, key)
           cipher == xor_encrypt_to_hex(bytes, key)
           n == Len(bytes)
           side(i) == IF i % 2 = 1 THEN 1 ELSE 2
<1>1. out \in Seq(Byte) /\ Len(out) = n
  BY WithKeyTwice
<1>2. cipher = [i \in 1 .. 2 * n |-> Hex(out[(i + 1) \div 2])[side(i)]]
  BY DEF xor_encrypt_to_hex
<1>3. n \in Nat
  OBVIOUS
<1> HIDE DEF out, cipher, n
<1>4. \A i \in 1 .. 2 * n : (i + 1) \div 2 \in 1 .. n /\ side(i) \in 1 .. 2
  BY <1>3
<1>5. \A k \in 1 .. n : out[k] \in Byte
  BY <1>1
<1>6. \A i \in 1 .. 2 * n : cipher[i] \notin Others /\ cipher[i] \in ToSet(Digits)
  <2> SUFFICES ASSUME NEW i \in 1 .. 2 * n
               PROVE  cipher[i] \notin Others /\ cipher[i] \in ToSet(Digits)
    OBVIOUS
  <2>1. PICK b \in Byte, e \in 1 .. 2 : cipher[i] = Hex(b)[e]
    BY <1>2, <1>4, <1>5
  <2> QED
    BY <2>1, HexIsByte
<1>7. cipher \in Seq(ToSet(Digits)) /\ Len(cipher) = 2 * n
  <2>1. PICK m \in Nat : m = 2 * n
    BY <1>3
  <2>2. DOMAIN cipher = 1 .. m /\ cipher = [i \in 1 .. m |-> cipher[i]]
    BY <1>2, <2>1
  <2>3. \A i \in 1 .. m : cipher[i] \in ToSet(Digits)
    BY <1>6, <2>1
  <2> QED
    BY <2>1, <2>2, <2>3
<1>8. ASSUME NEW k \in 1 .. n PROVE Pair(cipher, k) = Hex(out[k])
  <2>1. 2 * k - 1 \in 1 .. 2 * n /\ 2 * k \in 1 .. 2 * n
    BY <1>3
  <2>2. (2 * k - 1 + 1) \div 2 = k /\ (2 * k + 1) \div 2 = k
        /\ side(2 * k - 1) = 1 /\ side(2 * k) = 2
    BY <1>3
  <2>3. cipher[2 * k - 1] = Hex(out[k])[1] /\ cipher[2 * k] = Hex(out[k])[2]
    BY <1>2, <2>1, <2>2
  <2>4. Pair(cipher, k) = <<cipher[2 * k - 1], cipher[2 * k]>>
    BY <1>3, <1>7, PairIs
  <2>5. Hex(out[k]) = <<Hex(out[k])[1], Hex(out[k])[2]>>
    BY DEF Hex
  <2> QED
    BY <2>3, <2>4, <2>5
<1> QED
  BY <1>6, <1>7, <1>8 DEF out, cipher, n

-----------------------------------------------------------------------------
(* str::trim.                                                               *)
\* The minimum of a set of indices is in it and below the others,
LEMMA MinIs ==
  ASSUME NEW S, S \subseteq Nat, S # {}
  PROVE  Min(S) \in S /\ \A y \in S : Min(S) <= y
  BY Least DEF Min

\* and the maximum of a bounded one above them.
LEMMA MaxIs ==
  ASSUME NEW n \in Nat, NEW S, S \subseteq 0 .. n, S # {}
  PROVE  Max(S) \in S /\ \A y \in S : Max(S) >= y
<1> DEFINE T == {n - x : x \in S}
<1>1. T \subseteq Nat /\ T # {}
  <2>1. \A x \in S : x \in 0 .. n /\ n - x \in Nat
    OBVIOUS
  <2> QED
    BY <2>1
<1>2. PICK m \in T : \A y \in T : m <= y
  BY <1>1, Least
<1>3. PICK x \in S : m = n - x
  BY <1>2
<1>4. \A y \in S : n - x <= n - y
  BY <1>2, <1>3
<1>5. \A y \in S : x >= y
  BY <1>4
<1> QED
  BY <1>3, <1>5 DEF Max

\* Trimming keeps characters of the text only,
LEMMA TrimWithin ==
  ASSUME NEW S, NEW s \in Seq(S)
  PROVE  /\ Trim(s) \in Seq(S)
         /\ \A i \in 1 .. Len(Trim(s)) : \E j \in 1 .. Len(s) : Trim(s)[i] = s[j]
<1> DEFINE solid == {i \in DOMAIN s : s[i] # Blank}
<1>1. CASE solid = {}
  BY <1>1 DEF Trim
<1>2. CASE solid # {}
  <2>1. /\ Len(s) \in Nat /\ solid \subseteq 1 .. Len(s)
        /\ solid \subseteq 0 .. Len(s) /\ solid \subseteq Nat
    OBVIOUS
  <2>2. Trim(s) = SubSeq(s, Min(solid), Max(solid))
    BY <1>2 DEF Trim
  <2> HIDE DEF solid
  <2>a. Min(solid) \in solid /\ \A y \in solid : Min(solid) <= y
    BY <1>2, <2>1, MinIs
  <2>b. Max(solid) \in solid
    BY <1>2, <2>1, MaxIs
  <2>3. Min(solid) \in solid /\ Max(solid) \in solid /\ Min(solid) <= Max(solid)
    BY <2>a, <2>b
  <2>4. PICK a \in 1 .. Len(s), b \in 1 .. Len(s) : a = Min(solid) /\ b = Max(solid) /\ a <= b
    BY <2>1, <2>3
  <2>5. /\ SubSeq(s, a, b) \in Seq(S) /\ Len(SubSeq(s, a, b)) = b - a + 1
        /\ \A i \in 1 .. b - a + 1 : SubSeq(s, a, b)[i] = s[a + i - 1]
    BY <2>4
  <2>6. \A i \in 1 .. b - a + 1 : a + i - 1 \in 1 .. Len(s)
    BY <2>1, <2>4
  <2> QED
    BY <2>2, <2>4, <2>5, <2>6
<1> QED
  BY <1>1, <1>2

\* and all of them when neither the first nor the last is a blank.
LEMMA NothingToTrim ==
  ASSUME NEW S, NEW s \in Seq(S), s # << >> => s[1] # Blank /\ s[Len(s)] # Blank
  PROVE  Trim(s) = s
<1> DEFINE solid == {i \in DOMAIN s : s[i] # Blank}
<1>1. CASE s = << >>
  BY <1>1 DEF Trim
<1>2. CASE s # << >>
  <2>1. Len(s) \in Nat /\ Len(s) >= 1 /\ DOMAIN s = 1 .. Len(s)
    BY <1>2
  <2>2. /\ solid \subseteq 1 .. Len(s) /\ 1 \in solid /\ Len(s) \in solid
        /\ solid \subseteq 0 .. Len(s) /\ solid \subseteq Nat /\ solid # {}
    BY <1>2, <2>1
  <2>3. Trim(s) = SubSeq(s, Min(solid), Max(solid))
    BY <2>2 DEF Trim
  <2> HIDE DEF solid
  <2>4. Min(solid) = 1
    <3>1. Min(solid) \in solid /\ \A y \in solid : Min(solid) <= y
      BY <2>2, MinIs
    <3>2. PICK m \in 1 .. Len(s) : m = Min(solid)
      BY <2>2, <3>1
    <3>3. m <= 1
      BY <2>2, <3>1, <3>2
    <3> QED
      BY <2>1, <3>2, <3>3
  <2>5. Max(solid) = Len(s)
    <3>1. Max(solid) \in solid /\ \A y \in solid : Max(solid) >= y
      BY <2>1, <2>2, MaxIs
    <3>2. PICK m \in 1 .. Len(s) : m = Max(solid)
      BY <2>2, <3>1
    <3>3. m >= Len(s)
      BY <2>2, <3>1, <3>2
    <3> QED
      BY <2>1, <3>2, <3>3
  <2>6. SubSeq(s, 1, Len(s)) = s
    OBVIOUS
  <2> QED
    BY <2>3, <2>4, <2>5, <2>6
<1> QED
  BY <1>1, <1>2

-----------------------------------------------------------------------------
(* The decoders.                                                            *)
\* What was encoded, either decoder decodes.
LEMMA DecodesItsOwn ==
  ASSUME NEW bytes \in Seq(Byte), NEW key \in Seq(Byte), key # << >>, IsUtf8(bytes)
  PROVE  LET cipher == xor_encrypt_to_hex(bytes, key)
         IN  /\ xor_decrypt_from_hex(cipher, key) = Ok(bytes)
             /\ ground_xor_decrypt_from_hex(cipher, key) = Ok(bytes)
<1> DEFINE cipher == xor_encrypt_to_hex(bytes, key)
           out == WithKey(bytes, key)
           n == Len(bytes)
<1>1. /\ n \in Nat /\ Len(cipher) = 2 * n /\ cipher \in Seq(ToSet(Digits))
      /\ \A k \in 1 .. n : Pair(cipher, k) = Hex(out[k])
      /\ \A i \in 1 .. 2 * n : cipher[i] \notin Others
  BY CipherPairs
<1>2. out \in Seq(Byte) /\ Len(out) = n /\ WithKey(out, key) = bytes
  BY WithKeyTwice
<1>3. \A k \in 1 .. n : /\ IsByte(Hex(out[k])) /\ ByteValue(Hex(out[k])) = out[k]
  BY <1>2, HexIsByte
<1> HIDE DEF cipher, out, n
<1>4. (Len(cipher) + 1) \div 2 = n
  BY <1>1
<1>5. ASSUME NEW k \in 1 .. n PROVE PairOutcome(cipher, k) = "ok"
  <2>1. IsByte(Pair(cipher, k))
    BY <1>1, <1>3
  <2>2. 2 * k <= 2 * n /\ 2 * k - 2 + 1 \in 1 .. 2 * n
        /\ (2 * k = 2 * n \/ 2 * k + 1 \in 1 .. 2 * n)
    BY <1>1
  <2>3. CanSlice(cipher, k)
    BY <1>1, <2>2 DEF CanSlice, Boundary, Others
  <2> QED
    BY <2>1, <2>3 DEF PairOutcome
<1>6. [k \in 1 .. n |-> ByteValue(Pair(cipher, k))] = out
  <2>1. [k \in 1 .. n |-> ByteValue(Pair(cipher, k))] = [k \in 1 .. n |-> out[k]]
    BY <1>1, <1>3
  <2> QED
    BY <1>2, <2>1
<1>7. Decoded(cipher, key) = Ok(bytes)
  <2>1. ~ \E k \in 1 .. n : PairOutcome(cipher, k) = "panic"
    BY <1>5
  <2> QED
    BY <1>2, <1>4, <1>5, <1>6, <2>1 DEF Decoded
<1>8. Trim(cipher) = cipher
  <2>1. ASSUME cipher # << >> PROVE cipher[1] # Blank /\ cipher[Len(cipher)] # Blank
    <3>1. 1 \in 1 .. 2 * n /\ 2 * n \in 1 .. 2 * n
      BY <1>1, <2>1
    <3> QED
      BY <1>1, <3>1, BlankIsOther
  <2> QED
    BY <1>1, <2>1, NothingToTrim
<1>9. ~Refused(cipher)
  BY <1>1 DEF Refused
<1> QED
  BY <1>7, <1>8, <1>9 DEF xor_decrypt_from_hex, ground_xor_decrypt_from_hex, cipher

\* A pair that decodes is two characters, the first not a blank and the second
\* not either.
LEMMA PairFine ==
  ASSUME NEW S, NEW s \in Seq(S), NEW k \in Nat, k > 0, PairOutcome(s, k) = "ok"
  PROVE  2 * k <= Len(s) /\ s[2 * k - 1] # Blank /\ s[2 * k] # Blank
<1>1. CanSlice(s, k) /\ IsByte(Pair(s, k))
  BY DEF PairOutcome
<1>2. 2 * k <= Len(s)
  BY <1>1 DEF CanSlice
<1>3. Pair(s, k)[1] = s[2 * k - 1] /\ Pair(s, k)[2] = s[2 * k]
  BY <1>2, PairIs
<1>4. ~IsDigit(Blank) /\ Blank # "+"
  BY BlankIsOther, DigitNames DEF Blank
<1> QED
  BY <1>1, <1>2, <1>3, <1>4 DEF IsByte

\* What telemetry decodes has an even number of characters and no blanks around.
LEMMA DecodedIsTrimmed ==
  ASSUME NEW S, NEW s \in Seq(S), NEW key, Decoded(s, key).outcome = "ok"
  PROVE  Trim(s) = s /\ ~Refused(s)
<1> DEFINE m == (Len(s) + 1) \div 2
<1>1. Len(s) \in Nat /\ m \in Nat /\ 2 * m >= Len(s)
  OBVIOUS
<1>2. \A k \in 1 .. m : PairOutcome(s, k) = "ok"
  BY DEF Decoded, Failed
<1> HIDE DEF m
<1>3. \A k \in 1 .. m : k \in Nat /\ k > 0
  BY <1>1
<1>4. \A k \in 1 .. m : 2 * k <= Len(s) /\ s[2 * k - 1] # Blank /\ s[2 * k] # Blank
  BY <1>2, <1>3, PairFine
<1>5. Len(s) = 2 * m
  BY <1>1, <1>4
<1>6. ASSUME s # << >> PROVE s[1] # Blank /\ s[Len(s)] # Blank
  <2>1. 1 \in 1 .. m /\ m \in 1 .. m /\ 2 * 1 - 1 = 1
    BY <1>1, <1>5, <1>6
  <2>2. s[2 * 1 - 1] # Blank /\ s[2 * m] # Blank
    BY <1>4, <2>1
  <2> QED
    BY <1>5, <2>1, <2>2
<1>7. ~Refused(s)
  BY <1>1, <1>5 DEF Refused
<1> QED
  BY <1>6, <1>7, NothingToTrim

\* A text of an even number of one-byte characters does not panic.
LEMMA EvenAsciiDecodes ==
  ASSUME NEW S, NEW s \in Seq(S), NEW key, Len(s) % 2 = 0,
         \A i \in 1 .. Len(s) : s[i] \notin {"lead", "trail"}
  PROVE  Decoded(s, key).outcome # "panic"
<1> DEFINE m == (Len(s) + 1) \div 2
<1>1. Len(s) \in Nat /\ m \in Nat /\ Len(s) = 2 * m
  OBVIOUS
<1> HIDE DEF m
<1>2. ASSUME NEW k \in 1 .. m PROVE PairOutcome(s, k) # "panic"
  <2>1. 2 * k <= Len(s) /\ 2 * k - 2 + 1 \in 1 .. Len(s)
        /\ (2 * k = Len(s) \/ 2 * k + 1 \in 1 .. Len(s))
    BY <1>1
  <2>2. CanSlice(s, k)
    BY <2>1 DEF CanSlice, Boundary
  <2> QED
    BY <2>2 DEF PairOutcome
<1> QED
  BY <1>2 DEF Decoded, Failed, Ok, m

-----------------------------------------------------------------------------
(* The theorems.                                                            *)
LEMMA InputsType == InputsSpec => []InputsOK
<1>1. InputsInit => InputsOK
  BY DEF InputsInit, InputsOK
<1>2. InputsOK /\ [TypeText \/ TypePlain]_inputs => InputsOK'
  <2> SUFFICES ASSUME InputsOK, [TypeText \/ TypePlain]_inputs PROVE InputsOK'
    OBVIOUS
  <2>1. CASE TypeText
    <3>1. "lead" \in Character /\ "trail" \in Character /\ Characters \subseteq Character
      BY DEF Character
    <3> HIDE DEF Character
    <3>2. <<"lead", "trail">> \in Seq(Character)
      BY <3>1
    <3>3. text \in Seq(Character) /\ plain' = plain /\ plain \in Seq(Byte)
      BY <2>1 DEF TypeText, InputsOK
    <3>4. text \o <<"lead", "trail">> \in Seq(Character)
      BY <3>2, <3>3
    <3>5. \A c \in Characters : Append(text, c) \in Seq(Character)
      BY <3>1, <3>3
    <3> QED
      BY <2>1, <3>3, <3>4, <3>5 DEF TypeText, InputsOK
  <2>2. CASE TypePlain
    BY <2>2, BytesAssumption DEF TypePlain, InputsOK
  <2>3. CASE UNCHANGED inputs
    BY <2>3 DEF inputs, InputsOK
  <2> QED
    BY <2>1, <2>2, <2>3
<1> QED
  BY <1>1, <1>2, PTL DEF InputsSpec

(* Either decoder gives back what was encoded, for every plain text and      *)
(* every key that is not empty; without a key both refuse.                  *)
THEOREM EncodedComesBack == InputsSpec => []RoundTrip
<1>1. InputsOK => RoundTrip
  <2> SUFFICES ASSUME InputsOK, NEW key \in Keys, IsUtf8(plain)
               PROVE  LET cipher == xor_encrypt_to_hex(plain, key)
                      IN  {xor_decrypt_from_hex(cipher, key),
                           ground_xor_decrypt_from_hex(cipher, key)}
                            = {IF key = << >> THEN Failed("error") ELSE Ok(plain)}
    BY DEF RoundTrip
  <2>1. key \in Seq(Byte) /\ plain \in Seq(Byte)
    BY KeysAssumption DEF InputsOK
  <2>2. CASE key = << >>
    BY <2>2 DEF xor_decrypt_from_hex, ground_xor_decrypt_from_hex
  <2>3. CASE key # << >>
    BY <2>1, <2>3, DecodesItsOwn
  <2> QED
    BY <2>2, <2>3
<1> QED
  BY <1>1, InputsType, PTL

(* The two decoders differ on blanks around a text and on texts of odd       *)
(* length only, whatever text arrives and whatever the key; and the ground's *)
(* does not panic on a text of one-byte characters.                         *)
THEOREM DecodersDiffer == InputsSpec => []DecodersAgree
<1>1. InputsOK => DecodersAgree
  <2> SUFFICES ASSUME InputsOK, NEW key \in Keys
               PROVE  LET telemetry == xor_decrypt_from_hex(text, key)
                          ground == ground_xor_decrypt_from_hex(text, key)
                          ascii == \A i \in DOMAIN text : text[i] \notin {"lead", "trail"}
                      IN  /\ telemetry.outcome = "ok" => ground = telemetry
                          /\ (text = Trim(text) /\ ground.outcome = "ok") => telemetry = ground
                          /\ ascii => ground.outcome # "panic"
                          /\ (ascii /\ telemetry.outcome = "panic") => Len(text) % 2 = 1
    BY DEF DecodersAgree
  <2> DEFINE telemetry == xor_decrypt_from_hex(text, key)
             ground == ground_xor_decrypt_from_hex(text, key)
             ascii == \A i \in DOMAIN text : text[i] \notin {"lead", "trail"}
  <2>0. text \in Seq(Character) /\ Len(text) \in Nat /\ DOMAIN text = 1 .. Len(text)
    BY DEF InputsOK
  <2>1. ASSUME telemetry.outcome = "ok" PROVE ground = telemetry
    <3>1. key # << >> /\ telemetry = Decoded(text, key)
      BY <2>1 DEF xor_decrypt_from_hex, Failed
    <3>2. Trim(text) = text /\ ~Refused(text)
      BY <2>0, <2>1, <3>1, DecodedIsTrimmed
    <3> QED
      BY <3>1, <3>2 DEF ground_xor_decrypt_from_hex
  <2>2. ASSUME text = Trim(text), ground.outcome = "ok" PROVE telemetry = ground
    BY <2>2 DEF xor_decrypt_from_hex, ground_xor_decrypt_from_hex, Failed
  <2>3. ASSUME ascii PROVE ground.outcome # "panic"
    <3>1. /\ Trim(text) \in Seq(Character)
          /\ \A i \in 1 .. Len(Trim(text)) : Trim(text)[i] \notin {"lead", "trail"}
      BY <2>0, <2>3, TrimWithin
    <3>2. ASSUME ~Refused(Trim(text)) PROVE Decoded(Trim(text), key).outcome # "panic"
      <4>1. Len(Trim(text)) % 2 = 0
        BY <3>2 DEF Refused
      <4> QED
        BY <3>1, <4>1, EvenAsciiDecodes
    <3> QED
      BY <3>2 DEF ground_xor_decrypt_from_hex, Failed
  <2>4. ASSUME ascii, telemetry.outcome = "panic" PROVE Len(text) % 2 = 1
    <3>1. telemetry = Decoded(text, key)
      BY <2>4 DEF xor_decrypt_from_hex, Failed
    <3>2. Len(text) % 2 # 0
      BY <2>0, <2>4, <3>1, EvenAsciiDecodes
    <3> QED
      BY <2>0, <3>2
  <2> QED
    BY <2>1, <2>2, <2>3, <2>4
<1> QED
  BY <1>1, InputsType, PTL

-----------------------------------------------------------------------------
(* Sums.  The library's sum takes an element away at a time; the induction   *)
(* over finite sets is the one over their size.                              *)
\* The element of a set the library's sum takes next.
First(s) == CHOOSE x \in s : TRUE

\* What the library's sum computes: `total' adds up f over each set of U.
Adds(f, U, total) ==
  total = [s \in U |-> IF s = {} THEN 0 ELSE f[First(s)] + total[s \ {First(s)}]]

\* The element taken is one of the set.
LEMMA FirstIn == ASSUME NEW s, s # {} PROVE First(s) \in s
  BY DEF First

\* Of any subsets of a finite set one has the fewest elements: the form
\* induction over finite sets takes here.
LEMMA SmallestSet ==
  ASSUME NEW S, IsFiniteSet(S), NEW Bad, Bad \subseteq SUBSET S, Bad # {}
  PROVE  \E s \in Bad : \A r \in SUBSET S : Cardinality(r) < Cardinality(s) => r \notin Bad
<1>1. \A s \in SUBSET S : IsFiniteSet(s) /\ Cardinality(s) \in Nat
  BY FS_Subset, FS_CardinalityType
<1> DEFINE sizes == {Cardinality(s) : s \in Bad}
<1>2. sizes \subseteq Nat /\ sizes # {}
  BY <1>1
<1>3. PICK n \in sizes : \A m \in sizes : n <= m
  BY <1>2, Least
<1>4. PICK s \in Bad : n = Cardinality(s)
  BY <1>3
<1>5. \A r \in Bad : Cardinality(s) <= Cardinality(r) /\ Cardinality(r) \in Nat /\ Cardinality(s) \in Nat
  BY <1>1, <1>3, <1>4
<1> QED
  BY <1>5

\* A set without one of its elements is smaller by one.
LEMMA OneLess ==
  ASSUME NEW S, IsFiniteSet(S), NEW s \in SUBSET S, NEW x \in s
  PROVE  /\ s \ {x} \in SUBSET S /\ Cardinality(s) \in Nat
         /\ Cardinality(s \ {x}) \in Nat /\ Cardinality(s \ {x}) = Cardinality(s) - 1
<1>1. IsFiniteSet(s) /\ Cardinality(s) \in Nat
  BY FS_Subset, FS_CardinalityType
<1>2. IsFiniteSet(s \ {x}) /\ Cardinality(s \ {x}) = Cardinality(s) - 1
  BY <1>1, FS_RemoveElement
<1>3. Cardinality(s \ {x}) \in Nat
  BY <1>2, FS_CardinalityType
<1> QED
  BY <1>1, <1>2, <1>3

\* Over the subsets of a finite set there is such a total: a recursion that
\* takes one element away at a time comes to its end.
LEMMA AddsExists ==
  ASSUME NEW f, NEW S, IsFiniteSet(S)
  PROVE  \E total : Adds(f, SUBSET S, total)
<1> DEFINE U(n) == {s \in SUBSET S : Cardinality(s) <= n}
           Fine(n) == \E total : Adds(f, U(n), total)
           Bad == {n \in Nat : ~Fine(n)}
<1>1. \A s \in SUBSET S : IsFiniteSet(s) /\ Cardinality(s) \in Nat /\ Cardinality(s) <= Cardinality(S)
  BY FS_Subset, FS_CardinalityType
<1>0. Cardinality(S) \in Nat
  BY <1>1
<1>2. Fine(0)
  <2>1. \A s \in U(0) : s = {}
    BY <1>1, FS_EmptySet
  <2>2. Adds(f, U(0), [s \in U(0) |-> 0])
    BY <2>1 DEF Adds
  <2> QED BY <2>2
<1>3. ASSUME NEW n \in Nat, Fine(n) PROVE Fine(n + 1)
  <2>1. PICK total : Adds(f, U(n), total)
    BY <1>3
  <2> DEFINE next == [s \in U(n + 1) |->
                        IF s = {} THEN 0 ELSE f[First(s)] + total[s \ {First(s)}]]
  <2>2. \A s \in U(n) : s \in U(n + 1) /\ next[s] = total[s]
    <3> SUFFICES ASSUME NEW s \in U(n) PROVE s \in U(n + 1) /\ next[s] = total[s]
      OBVIOUS
    <3>1. s \in U(n + 1)
      BY <1>1
    <3>2. total[s] = IF s = {} THEN 0 ELSE f[First(s)] + total[s \ {First(s)}]
      <4> HIDE DEF U
      <4> QED BY <2>1 DEF Adds
    <3>3. next[s] = IF s = {} THEN 0 ELSE f[First(s)] + total[s \ {First(s)}]
      <4> HIDE DEF U
      <4> QED BY <3>1
    <3> QED
      BY <3>1, <3>2, <3>3
  <2>3. \A s \in U(n + 1) : s # {} => s \ {First(s)} \in U(n)
    <3> SUFFICES ASSUME NEW s \in U(n + 1), s # {} PROVE s \ {First(s)} \in U(n)
      OBVIOUS
    <3>1. First(s) \in s
      BY FirstIn
    <3>2. Cardinality(s \ {First(s)}) \in Nat /\ Cardinality(s \ {First(s)}) = Cardinality(s) - 1
          /\ Cardinality(s) \in Nat /\ s \ {First(s)} \in SUBSET S
      BY <3>1, OneLess
    <3> QED
      BY <3>2
  <2>4. next = [s \in U(n + 1) |->
                        IF s = {} THEN 0 ELSE f[First(s)] + next[s \ {First(s)}]]
    <3>1. \A s \in U(n + 1) : s # {} => next[s \ {First(s)}] = total[s \ {First(s)}]
      BY <2>2, <2>3
    <3> HIDE DEF U
    <3>2. \A s \in U(n + 1) : (IF s = {} THEN 0 ELSE f[First(s)] + total[s \ {First(s)}])
                             = (IF s = {} THEN 0 ELSE f[First(s)] + next[s \ {First(s)}])
      <4> HIDE DEF next
      <4> QED BY <3>1
    <3>3. next = [s \in U(n + 1) |->
                        IF s = {} THEN 0 ELSE f[First(s)] + total[s \ {First(s)}]]
      OBVIOUS
    <3> HIDE DEF next
    <3> QED BY <3>2, <3>3
  <2> HIDE DEF next
  <2> QED
    BY <2>4 DEF Adds
<1>4. Bad = {}
  <2> HIDE DEF Fine
  <2>1. Bad \subseteq Nat /\ 0 \notin Bad /\ \A n \in Nat : n \notin Bad => n + 1 \notin Bad
    BY <1>2, <1>3
  <2> QED
    BY <2>1, NoLeast
<1>5. Fine(Cardinality(S))
  <2> HIDE DEF Fine
  <2> QED BY <1>0, <1>4
<1>6. U(Cardinality(S)) = SUBSET S
  BY <1>1
<1> QED
  BY <1>5, <1>6

\* The library's sum over a finite set is a total of this kind.
LEMMA SumIsTotal ==
  ASSUME NEW f, NEW S, IsFiniteSet(S)
  PROVE  \E t : Adds(f, SUBSET S, t) /\ SumFunctionOnSet(f, S) = t[S]
<1> DEFINE t == CHOOSE it : it = [s \in SUBSET S |->
                  IF s = {} THEN 0 ELSE f[First(s)] + it[s \ {First(s)}]]
<1>1. SumFunctionOnSet(f, S) = t[S]
 BY DEF SumFunctionOnSet, FoldFunctionOnSet, MapThenFoldSet, First
<1>a. PICK u : Adds(f, SUBSET S, u)
 BY AddsExists
<1>2. u = [s \in SUBSET S |-> IF s = {} THEN 0 ELSE f[First(s)] + u[s \ {First(s)}]]
 BY <1>a DEF Adds
<1>3. t = [s \in SUBSET S |-> IF s = {} THEN 0 ELSE f[First(s)] + t[s \ {First(s)}]]
 BY <1>2
<1> HIDE DEF t
<1> QED BY <1>1, <1>3 DEF Adds

\* What a total is at the empty set and at any other.
LEMMA TotalStep ==
  ASSUME NEW f, NEW S, NEW t, Adds(f, SUBSET S, t)
  PROVE  /\ t[{}] = 0
         /\ \A s \in SUBSET S : s # {} => t[s] = f[First(s)] + t[s \ {First(s)}]
  BY DEF Adds

\* A total of natural numbers is a natural number.
LEMMA TotalType ==
  ASSUME NEW f, NEW S, IsFiniteSet(S), \A x \in S : f[x] \in Nat, NEW t, Adds(f, SUBSET S, t)
  PROVE  \A s \in SUBSET S : t[s] \in Nat
<1> DEFINE Bad == {s \in SUBSET S : t[s] \notin Nat}
<1> SUFFICES ASSUME Bad # {} PROVE FALSE
  OBVIOUS
<1>1. PICK s \in Bad : \A r \in SUBSET S : Cardinality(r) < Cardinality(s) => r \notin Bad
  <2>1. Bad \subseteq SUBSET S
    OBVIOUS
  <2> HIDE DEF Bad
  <2> QED
    BY <2>1, SmallestSet
<1>2. s \in SUBSET S /\ s # {}
  <2>1. t[{}] = 0
    BY TotalStep
  <2> QED
    BY <2>1
<1>3. First(s) \in s
  BY <1>2, FirstIn
<1>4. /\ s \ {First(s)} \in SUBSET S /\ Cardinality(s) \in Nat
      /\ Cardinality(s \ {First(s)}) = Cardinality(s) - 1
  BY <1>2, <1>3, OneLess
<1>5. t[s \ {First(s)}] \in Nat
  BY <1>1, <1>4
<1>6. t[s] = f[First(s)] + t[s \ {First(s)}]
  BY <1>2, TotalStep
<1> QED
  BY <1>2, <1>3, <1>5, <1>6

\* The element that is taken first makes no difference.
LEMMA TotalAny ==
  ASSUME NEW f, NEW S, IsFiniteSet(S), \A x \in S : f[x] \in Nat, NEW t, Adds(f, SUBSET S, t)
  PROVE  \A s \in SUBSET S : \A x \in s : t[s] = f[x] + t[s \ {x}]
<1> DEFINE Bad == {s \in SUBSET S : \E x \in s : t[s] # f[x] + t[s \ {x}]}
<1> SUFFICES ASSUME Bad # {} PROVE FALSE
  OBVIOUS
<1>1. PICK s \in Bad : \A r \in SUBSET S : Cardinality(r) < Cardinality(s) => r \notin Bad
  <2>1. Bad \subseteq SUBSET S
    OBVIOUS
  <2> HIDE DEF Bad
  <2> QED
    BY <2>1, SmallestSet
<1>2. PICK x \in s : t[s] # f[x] + t[s \ {x}]
  OBVIOUS
<1> DEFINE y == First(s)
<1>3. y \in s /\ s \in SUBSET S /\ t[s] = f[y] + t[s \ {y}]
  BY FirstIn, TotalStep
<1>4. x # y
  BY <1>2, <1>3
<1>5. /\ s \ {x} \in SUBSET S /\ s \ {y} \in SUBSET S /\ Cardinality(s) \in Nat
      /\ Cardinality(s \ {x}) = Cardinality(s) - 1 /\ Cardinality(s \ {y}) = Cardinality(s) - 1
  BY <1>3, OneLess
<1>6. s \ {x} \notin Bad /\ s \ {y} \notin Bad
  BY <1>1, <1>5
<1> HIDE DEF y
<1>7. t[s \ {x}] = f[y] + t[(s \ {x}) \ {y}] /\ t[s \ {y}] = f[x] + t[(s \ {y}) \ {x}]
  BY <1>3, <1>4, <1>5, <1>6
<1>8. (s \ {x}) \ {y} = (s \ {y}) \ {x} /\ (s \ {x}) \ {y} \in SUBSET S
  BY <1>3
<1>9. t[(s \ {x}) \ {y}] \in Nat /\ f[x] \in Nat /\ f[y] \in Nat
  BY <1>3, <1>8, TotalType
<1> HIDE DEF Bad
<1>10. PICK c \in Nat : c = t[(s \ {x}) \ {y}]
  BY <1>9
<1>11. t[s \ {x}] = f[y] + c /\ t[s] = f[y] + (f[x] + c)
  BY <1>3, <1>7, <1>8, <1>10
<1> QED
  BY <1>2, <1>9, <1>11

\* Functions that agree on a set have the same total.
LEMMA TotalSame ==
  ASSUME NEW f, NEW g, NEW S, IsFiniteSet(S), \A x \in S : f[x] = g[x],
         NEW t, Adds(f, SUBSET S, t), NEW u, Adds(g, SUBSET S, u)
  PROVE  \A s \in SUBSET S : t[s] = u[s]
<1> DEFINE Bad == {s \in SUBSET S : t[s] # u[s]}
<1> SUFFICES ASSUME Bad # {} PROVE FALSE
  OBVIOUS
<1>1. PICK s \in Bad : \A r \in SUBSET S : Cardinality(r) < Cardinality(s) => r \notin Bad
  <2>1. Bad \subseteq SUBSET S
    OBVIOUS
  <2> HIDE DEF Bad
  <2> QED
    BY <2>1, SmallestSet
<1>2. s \in SUBSET S /\ s # {}
  <2>1. t[{}] = 0 /\ u[{}] = 0
    BY TotalStep
  <2> QED
    BY <2>1
<1>3. First(s) \in s
  BY <1>2, FirstIn
<1>4. /\ s \ {First(s)} \in SUBSET S /\ Cardinality(s) \in Nat
      /\ Cardinality(s \ {First(s)}) = Cardinality(s) - 1
  BY <1>2, <1>3, OneLess
<1>5. t[s \ {First(s)}] = u[s \ {First(s)}]
  BY <1>1, <1>4
<1>6. t[s] = f[First(s)] + t[s \ {First(s)}] /\ u[s] = g[First(s)] + u[s \ {First(s)}]
  BY <1>2, TotalStep
<1>7. f[First(s)] = g[First(s)]
  BY <1>2, <1>3
<1> QED
  BY <1>5, <1>6, <1>7

\* Nothing adds up to 0.
LEMMA SumEmpty == \A f : SumFunctionOnSet(f, {}) = 0
<1> SUFFICES ASSUME NEW f PROVE SumFunctionOnSet(f, {}) = 0
  OBVIOUS
<1>1. PICK t : Adds(f, SUBSET {}, t) /\ SumFunctionOnSet(f, {}) = t[{}]
  BY SumIsTotal, FS_EmptySet
<1>2. t[{}] = 0
  BY <1>1, TotalStep
<1> QED
  BY <1>1, <1>2

\* A sum of natural numbers is a natural number.
LEMMA SumType ==
  ASSUME NEW f, NEW S, IsFiniteSet(S), \A x \in S : f[x] \in Nat
  PROVE  SumFunctionOnSet(f, S) \in Nat
<1>1. PICK t : Adds(f, SUBSET S, t) /\ SumFunctionOnSet(f, S) = t[S]
  BY SumIsTotal
<1> QED
  BY <1>1, TotalType

\* The sum over a part is the total there.
LEMMA SumWithin ==
  ASSUME NEW f, NEW S, IsFiniteSet(S), NEW T, T \subseteq S, NEW t, Adds(f, SUBSET S, t)
  PROVE  SumFunctionOnSet(f, T) = t[T]
<1>0. t[{}] = 0 /\ \A s \in SUBSET S : s # {} => t[s] = f[First(s)] + t[s \ {First(s)}]
  BY TotalStep
<1>1. IsFiniteSet(T)
  BY FS_Subset
<1>2. PICK u : Adds(f, SUBSET T, u) /\ SumFunctionOnSet(f, T) = u[T]
  BY <1>1, SumIsTotal
<1> DEFINE r == [s \in SUBSET T |-> t[s]]
<1>3. Adds(f, SUBSET T, r)
  <2>1. \A s \in SUBSET T : s \in SUBSET S /\ (s # {} => s \ {First(s)} \in SUBSET T)
    OBVIOUS
  <2>2. \A s \in SUBSET T : r[s] = IF s = {} THEN 0 ELSE f[First(s)] + r[s \ {First(s)}]
    <3> SUFFICES ASSUME NEW s \in SUBSET T
                 PROVE  r[s] = IF s = {} THEN 0 ELSE f[First(s)] + r[s \ {First(s)}]
      OBVIOUS
    <3>1. t[{}] = 0 /\ (s # {} => t[s] = f[First(s)] + t[s \ {First(s)}])
      BY <1>0, <2>1
    <3>2. r[s] = t[s] /\ (s # {} => r[s \ {First(s)}] = t[s \ {First(s)}])
      BY <2>1
    <3> HIDE DEF r
    <3> QED
      BY <3>1, <3>2
  <2>3. r = [s \in SUBSET T |-> r[s]]
    OBVIOUS
  <2> HIDE DEF r
  <2> QED
    BY <2>2, <2>3 DEF Adds
<1>4. r[T] = t[T]
  OBVIOUS
<1> HIDE DEF r
<1>5. PICK g : g = f /\ \A x \in T : f[x] = g[x]
  OBVIOUS
<1>6. Adds(g, SUBSET T, r)
  BY <1>3, <1>5
<1>7. \A s \in SUBSET T : u[s] = r[s]
  BY <1>1, <1>2, <1>5, <1>6, TotalSame
<1> QED
  BY <1>2, <1>4, <1>7

\* A sum is any one of its terms and the sum of the others.
LEMMA SumWithout ==
  ASSUME NEW f, NEW S, IsFiniteSet(S), \A x \in S : f[x] \in Nat, NEW x \in S
  PROVE  SumFunctionOnSet(f, S) = f[x] + SumFunctionOnSet(f, S \ {x})
<1>1. PICK t : Adds(f, SUBSET S, t) /\ SumFunctionOnSet(f, S) = t[S]
  BY SumIsTotal
<1>4. t[S] = f[x] + t[S \ {x}]
  BY <1>1, TotalAny
<1>5. SumFunctionOnSet(f, S \ {x}) = t[S \ {x}]
  BY <1>1, SumWithin
<1> QED
  BY <1>1, <1>4, <1>5

\* Functions that agree have the same sum.
LEMMA SumSame ==
  ASSUME NEW f, NEW g, NEW S, IsFiniteSet(S), \A x \in S : f[x] = g[x]
  PROVE  SumFunctionOnSet(f, S) = SumFunctionOnSet(g, S)
<1>1. PICK t : Adds(f, SUBSET S, t) /\ SumFunctionOnSet(f, S) = t[S]
  BY SumIsTotal
<1>2. PICK u : Adds(g, SUBSET S, u) /\ SumFunctionOnSet(g, S) = u[S]
  BY SumIsTotal
<1> QED
  BY <1>1, <1>2, TotalSame

\* What changing or adding one value does to the sum of a function's values.
LEMMA SumWith ==
  ASSUME NEW f, NEW g, NEW x, IsFiniteSet(DOMAIN f), DOMAIN g = DOMAIN f \cup {x},
         \A y \in DOMAIN f : f[y] \in Nat, g[x] \in Nat,
         \A y \in DOMAIN f : y # x => g[y] = f[y]
  PROVE  /\ x \notin DOMAIN f => SumFunction(g) = SumFunction(f) + g[x]
         /\ x \in DOMAIN f => SumFunction(g) = SumFunction(f) - f[x] + g[x]
<1> DEFINE S == DOMAIN f
           rest == S \ {x}
<1>1. IsFiniteSet(rest) /\ IsFiniteSet(S \cup {x})
  BY FS_RemoveElement, FS_AddElement
<1>2. SumFunctionOnSet(f, rest) = SumFunctionOnSet(g, rest)
  BY <1>1, SumSame
<1>3. SumFunctionOnSet(g, S \cup {x}) = g[x] + SumFunctionOnSet(g, (S \cup {x}) \ {x})
  <2>1. \A y \in S \cup {x} : g[y] \in Nat
    OBVIOUS
  <2> QED
    BY <1>1, <2>1, SumWithout
<1>4. (S \cup {x}) \ {x} = rest
  OBVIOUS
<1>5. SumFunctionOnSet(f, rest) \in Nat
  BY <1>1, SumType
<1>6. SumFunction(g) = g[x] + SumFunctionOnSet(f, rest)
  BY <1>2, <1>3, <1>4 DEF SumFunction
<1>7. ASSUME x \notin S PROVE SumFunction(g) = SumFunction(f) + g[x]
  <2>1. rest = S
    BY <1>7
  <2> QED
    BY <2>1, <1>5, <1>6 DEF SumFunction
<1>8. ASSUME x \in S PROVE SumFunction(g) = SumFunction(f) - f[x] + g[x]
  <2>1. SumFunction(f) = f[x] + SumFunctionOnSet(f, rest)
    BY <1>8, SumWithout DEF SumFunction
  <2> QED
    BY <2>1, <1>5, <1>6, <1>8
<1> QED
  BY <1>7, <1>8

\* A sequence one longer adds up to its last element more.
LEMMA SumAppend ==
  ASSUME NEW s \in Seq(Nat), NEW d \in Nat
  PROVE  SumFunction(Append(s, d)) = SumFunction(s) + d /\ SumFunction(s) \in Nat
<1> DEFINE g == Append(s, d)
           x == Len(s) + 1
<1>1. Len(s) \in Nat /\ DOMAIN s = 1 .. Len(s) /\ DOMAIN g = 1 .. x /\ g[x] = d
      /\ (\A y \in 1 .. Len(s) : g[y] = s[y] /\ s[y] \in Nat)
  OBVIOUS
<1>2. IsFiniteSet(DOMAIN s)
  BY <1>1, FS_Interval
<1>3. x \notin DOMAIN s /\ DOMAIN g = DOMAIN s \cup {x}
  BY <1>1
<1> HIDE DEF g, x
<1>4. SumFunction(g) = SumFunction(s) + g[x]
  <2>1. /\ \A y \in DOMAIN s : s[y] \in Nat
        /\ g[x] \in Nat
        /\ \A y \in DOMAIN s : y # x => g[y] = s[y]
    BY <1>1
  <2> QED
    BY <1>2, <1>3, <2>1, SumWith
<1>5. SumFunction(s) \in Nat
  BY <1>1, <1>2, SumType DEF SumFunction
<1> QED
  BY <1>1, <1>4, <1>5 DEF g

\* The empty sequence adds up to 0.
LEMMA NoSum == SumFunction(<< >>) = 0
<1>1. DOMAIN << >> = {}
  OBVIOUS
<1> QED
  BY <1>1, SumEmpty DEF SumFunction

-----------------------------------------------------------------------------
(* Streams one element longer.                                              *)
\* A function that continues a sequence by one is the sequence with it appended.
LEMMA AppendIs ==
  ASSUME NEW T, NEW s \in Seq(T), NEW n \in Nat, Len(s) = n,
         NEW f \in [1 .. n + 1 -> T], \A i \in 1 .. n : f[i] = s[i]
  PROVE  f = Append(s, f[n + 1])
<1> DEFINE g == Append(s, f[n + 1])
<1>1. n + 1 \in 1 .. n + 1
  OBVIOUS
<1>2. f[n + 1] \in T
  BY <1>1
<1>3. g \in Seq(T) /\ Len(g) = n + 1 /\ g[n + 1] = f[n + 1] /\ \A i \in 1 .. n : g[i] = s[i]
  BY <1>2
<1> HIDE DEF g
<1>4. g \in [1 .. n + 1 -> T]
  BY <1>3
<1>5. \A i \in 1 .. n + 1 : f[i] = g[i]
  <2> SUFFICES ASSUME NEW i \in 1 .. n + 1 PROVE f[i] = g[i]
    OBVIOUS
  <2>1. i \in 1 .. n \/ i = n + 1
    OBVIOUS
  <2> QED
    BY <1>3, <2>1
<1>6. f = g
  BY <1>4, <1>5
<1> QED
  BY <1>6 DEF g

\* A time appended to the times appends its distance to the last to the gaps,
LEMMA GapsGrow ==
  ASSUME NEW s \in Seq(Nat), NEW t \in Nat
  PROVE  /\ s = << >> => Gaps(Append(s, t)) = << >> /\ Gaps(s) = << >>
         /\ s # << >> => /\ Gaps(Append(s, t)) = Append(Gaps(s), t - s[Len(s)])
                         /\ Len(Gaps(s)) = Len(s) - 1
         /\ Gaps(s) \in Seq(Int)
<1> DEFINE n == Len(s)
           g == Append(s, t)
           f == Gaps(g)
<1>1. n \in Nat /\ Len(g) = n + 1 /\ g[n + 1] = t
      /\ \A i \in 1 .. n : g[i] = s[i] /\ s[i] \in Nat
  OBVIOUS
<1>2. f = [i \in 1 .. n |-> g[i + 1] - g[i]] /\ Gaps(s) = [i \in 1 .. n - 1 |-> s[i + 1] - s[i]]
  BY <1>1 DEF Gaps
<1> HIDE DEF g, f
<1>3. CASE s = << >>
  <2>1. n = 0
    BY <1>3
  <2>2. f = << >> /\ Gaps(s) = << >>
    BY <1>2, <2>1
  <2> QED
    <3>1. << >> \in Seq(Int)
      OBVIOUS
    <3>2. Gaps(Append(s, t)) = << >>
      BY <2>2 DEF f, g
    <3> QED
      BY <1>3, <2>2, <3>1, <3>2
<1>4. CASE s # << >>
  <2>1. PICK m \in Nat : n = m + 1
    <3>1. n # 0
      BY <1>4
    <3>2. n - 1 \in Nat /\ n = (n - 1) + 1
      BY <1>1, <3>1
    <3> QED
      BY <3>2
  <2>2. n - 1 = m
    BY <2>1
  <2>3. Gaps(s) = [i \in 1 .. m |-> s[i + 1] - s[i]]
    BY <1>2, <2>2
  <2>4. \A i \in 1 .. m : i + 1 \in 1 .. n /\ i \in 1 .. n
    BY <2>1
  <2>5. Gaps(s) \in Seq(Int) /\ Len(Gaps(s)) = m
    BY <1>1, <2>3, <2>4
  <2>6. \A i \in 1 .. m : f[i] = Gaps(s)[i]
    BY <1>1, <1>2, <2>3, <2>4, <2>1
  <2>7. f[m + 1] = t - s[n] /\ t - s[n] \in Int
    BY <1>1, <1>2, <2>1
  <2>8. f \in [1 .. m + 1 -> Int]
    <3>1. \A i \in 1 .. m + 1 : f[i] \in Int
      <4> SUFFICES ASSUME NEW i \in 1 .. m + 1 PROVE f[i] \in Int
        OBVIOUS
      <4>1. i \in 1 .. m \/ i = m + 1
        OBVIOUS
      <4>2. \A k \in 1 .. m : Gaps(s)[k] \in Int
        BY <2>5
      <4> QED
        BY <2>6, <2>7, <4>1, <4>2
    <3> QED
      BY <1>2, <2>1, <3>1
  <2> HIDE DEF n
  <2>9. f = Append(Gaps(s), t - s[n])
    <3>1. f = Append(Gaps(s), f[m + 1])
      BY <2>5, <2>6, <2>8, AppendIs
    <3> QED
      BY <2>7, <3>1
  <2> QED
    BY <1>4, <2>2, <2>5, <2>9 DEF f, g, n
<1> QED
  BY <1>3, <1>4

\* which appends one jitter to the jitters,
LEMMA JittersGrow ==
  ASSUME NEW s \in Seq(Nat), NEW d \in Nat
  PROVE  /\ Jitters(s) \in Seq(Nat) /\ Len(Jitters(s)) = Len(s)
         /\ Jitters(Append(s, d)) = Append(Jitters(s), Difference(d, TrackerInterval))
<1> DEFINE n == Len(s)
           g == Append(s, d)
           f == Jitters(g)
           j == Jitters(s)
<1>1. n \in Nat /\ Len(g) = n + 1 /\ g[n + 1] = d
      /\ \A i \in 1 .. n : g[i] = s[i] /\ s[i] \in Nat
  OBVIOUS
<1>2. f = [i \in 1 .. n + 1 |-> Difference(g[i], TrackerInterval)]
      /\ j = [i \in 1 .. n |-> Difference(s[i], TrackerInterval)]
  BY <1>1 DEF Jitters
<1>3. \A x \in Nat : Difference(x, TrackerInterval) \in Nat
  BY LimitsAssumption DEF Difference
<1> HIDE DEF n, g, f, j
<1>4. j \in Seq(Nat) /\ Len(j) = n
  <2>1. \A i \in 1 .. n : Difference(s[i], TrackerInterval) \in Nat
    BY <1>1, <1>3
  <2> QED
    BY <1>1, <1>2, <2>1
<1>5. \A i \in 1 .. n : f[i] = j[i]
  BY <1>1, <1>2
<1>6. f[n + 1] = Difference(d, TrackerInterval) /\ Difference(d, TrackerInterval) \in Nat
  BY <1>1, <1>2, <1>3
<1>7. f \in [1 .. n + 1 -> Nat]
  <2>1. \A i \in 1 .. n + 1 : g[i] \in Nat
    <3> SUFFICES ASSUME NEW i \in 1 .. n + 1 PROVE g[i] \in Nat
      OBVIOUS
    <3>1. i \in 1 .. n \/ i = n + 1
      BY <1>1
    <3> QED
      BY <1>1, <3>1
  <2> QED
    BY <1>2, <1>3, <2>1
<1>8. f = Append(j, Difference(d, TrackerInterval))
  <2>1. f = Append(j, f[n + 1])
    BY <1>1, <1>4, <1>5, <1>7, AppendIs
  <2> QED
    BY <1>6, <2>1
<1> QED
  BY <1>4, <1>8 DEF f, j, g, n

\* and, unless it is the first, one change to the changes;
LEMMA ChangesGrow ==
  ASSUME NEW s \in Seq(Nat), NEW d \in Nat
  PROVE  /\ Changes(s) \in Seq(Nat)
         /\ s = << >> => Changes(s) = << >> /\ Changes(Append(s, d)) = << >>
         /\ s # << >> => Changes(Append(s, d)) = Append(Changes(s), Difference(s[Len(s)], d))
<1> DEFINE n == Len(s)
           g == Append(s, d)
           f == Changes(g)
           c == Changes(s)
<1>1. n \in Nat /\ Len(g) = n + 1 /\ g[n + 1] = d
      /\ \A i \in 1 .. n : g[i] = s[i] /\ s[i] \in Nat
  OBVIOUS
<1>2. f = [i \in 1 .. n |-> Difference(g[i], g[i + 1])]
      /\ c = [i \in 1 .. n - 1 |-> Difference(s[i], s[i + 1])]
  BY <1>1 DEF Changes
<1>3. \A x, y \in Nat : Difference(x, y) \in Nat
  BY DEF Difference
<1>4. CASE s = << >>
  <2>1. n = 0
    BY <1>4
  <2> HIDE DEF n, g, f, c
  <2>2. f = << >> /\ c = << >>
    BY <1>2, <2>1
  <2> QED
    BY <1>4, <2>2 DEF f, g, c
<1>5. CASE s # << >>
  <2>0. n # 0
    BY <1>5
  <2> HIDE DEF n, g, f, c
  <2>1. PICK m \in Nat : n = m + 1
    <3>2. n - 1 \in Nat /\ n = (n - 1) + 1
      BY <1>1, <2>0
    <3> QED
      BY <3>2
  <2>2. n - 1 = m
    BY <2>1
  <2>3. c = [i \in 1 .. m |-> Difference(s[i], s[i + 1])]
    BY <1>2, <2>2
  <2>4. \A i \in 1 .. m : i + 1 \in 1 .. n /\ i \in 1 .. n
    BY <2>1
  <2>5. c \in Seq(Nat) /\ Len(c) = m
    <3>1. \A i \in 1 .. m : Difference(s[i], s[i + 1]) \in Nat
      BY <1>1, <1>3, <2>4
    <3> QED
      BY <2>3, <3>1
  <2>6. \A i \in 1 .. m : f[i] = c[i]
    BY <1>1, <1>2, <2>3, <2>4
  <2>7. f[m + 1] = Difference(s[n], d) /\ Difference(s[n], d) \in Nat
    <3>1. n \in 1 .. n
      BY <2>1
    <3> QED
      BY <1>1, <1>2, <1>3, <2>1, <3>1
  <2>8. f \in [1 .. m + 1 -> Nat]
    <3>1. \A i \in 1 .. m + 1 : f[i] \in Nat
      <4> SUFFICES ASSUME NEW i \in 1 .. m + 1 PROVE f[i] \in Nat
        OBVIOUS
      <4>1. i \in 1 .. m \/ i = m + 1
        OBVIOUS
      <4>2. \A k \in 1 .. m : c[k] \in Nat
        BY <2>5
      <4> QED
        BY <2>6, <2>7, <4>1, <4>2
    <3> QED
      BY <1>2, <2>1, <3>1
  <2>9. f = Append(c, Difference(s[n], d))
    <3>1. f = Append(c, f[m + 1])
      BY <2>5, <2>6, <2>8, AppendIs
    <3> QED
      BY <2>7, <3>1
  <2> QED
    BY <1>5, <2>5, <2>9 DEF f, g, c, n
<1> QED
  BY <1>4, <1>5

\* and those above a limit are one more if it is above it.
LEMMA AboveGrows ==
  ASSUME NEW s \in Seq(Nat), NEW d \in Nat, NEW limit \in Nat
  PROVE  /\ Above(s, limit) \in Nat
         /\ Above(Append(s, d), limit) = Above(s, limit) + (IF d > limit THEN 1 ELSE 0)
<1> DEFINE n == Len(s)
           g == Append(s, d)
           old == {i \in DOMAIN s : s[i] > limit}
           new == {i \in DOMAIN g : g[i] > limit}
<1>1. n \in Nat /\ DOMAIN s = 1 .. n /\ DOMAIN g = 1 .. n + 1 /\ g[n + 1] = d
      /\ \A i \in 1 .. n : g[i] = s[i]
  OBVIOUS
<1>2. IsFiniteSet(old) /\ n + 1 \notin old
  <2>1. IsFiniteSet(1 .. n) /\ old \subseteq 1 .. n
    BY <1>1, FS_Interval
  <2> QED
    BY <1>1, <2>1, FS_Subset
<1>3. new = IF d > limit THEN old \cup {n + 1} ELSE old
  <2> HIDE DEF g, n
  <2>1. \A i \in 1 .. n + 1 : i \in 1 .. n \/ i = n + 1
    BY <1>1
  <2> QED
    BY <1>1, <2>1
<1> HIDE DEF old, new, n
<1>4. Cardinality(old) \in Nat /\ Cardinality(old \cup {n + 1}) = Cardinality(old) + 1
  BY <1>2, FS_CardinalityType, FS_AddElement
<1> QED
  <2>1. Above(s, limit) = Cardinality(old) /\ Above(g, limit) = Cardinality(new)
    BY DEF Above, old, new
  <2>2. Cardinality(new) = Cardinality(old) + (IF d > limit THEN 1 ELSE 0)
    BY <1>3, <1>4
  <2> QED
    BY <1>4, <2>1, <2>2

\* The latest JitterWindow elements, or all there are.
Latest(s) == SubSeq(s, Larger(1, Len(s) - JitterWindow + 1), Len(s))

\* What a part of a sequence holds.
LEMMA SliceIs ==
  ASSUME NEW s \in Seq(Nat), NEW a \in 1 .. Len(s), NEW b \in 1 .. Len(s), a <= b
  PROVE  /\ SubSeq(s, a, b) \in Seq(Nat) /\ Len(SubSeq(s, a, b)) = b - a + 1
         /\ \A i \in 1 .. b - a + 1 : SubSeq(s, a, b)[i] = s[a + i - 1]
<1>1. Len(s) \in Nat /\ a \in Nat /\ b \in Nat /\ 1 <= a /\ b <= Len(s)
  OBVIOUS
<1>2. SubSeq(s, a, b) \in Seq(Nat)
  BY <1>1
<1>3. Len(SubSeq(s, a, b)) = b - a + 1
  BY <1>1
<1>4. \A i \in 1 .. b - a + 1 : SubSeq(s, a, b)[i] = s[a + i - 1]
  BY <1>1
<1> QED
  BY <1>2, <1>3, <1>4

\* JitterTracker::record drops the oldest of a full window and pushes: the
\* window holds the latest again.
LEMMA WindowMoves ==
  ASSUME NEW s \in Seq(Nat), NEW j \in Nat
  PROVE  /\ Latest(s) \in Seq(Nat)
         /\ Latest(Append(s, j)) = Append(IF Len(Latest(s)) = JitterWindow THEN Tail(Latest(s))
                                           ELSE Latest(s), j)
<1> DEFINE n == Len(s)
           g == Append(s, j)
           W == JitterWindow
           old == Latest(s)
           new == Latest(g)
<1>1. n \in Nat /\ Len(g) = n + 1 /\ g[n + 1] = j /\ g \in Seq(Nat)
      /\ (\A i \in 1 .. n : g[i] = s[i] /\ s[i] \in Nat)
  OBVIOUS
<1>2. W \in Nat /\ W >= 1
  BY WindowAssumption
<1> HIDE DEF W, g, n
<1>3. old = SubSeq(s, Larger(1, n - W + 1), n) /\ new = SubSeq(g, Larger(1, n + 1 - W + 1), n + 1)
  <2>1. Latest(s) = SubSeq(s, Larger(1, Len(s) - JitterWindow + 1), Len(s))
        /\ Latest(g) = SubSeq(g, Larger(1, Len(g) - JitterWindow + 1), Len(g))
    BY DEF Latest
  <2>2. Latest(s) = SubSeq(s, Larger(1, n - W + 1), n)
    BY <2>1 DEF n, W
  <2>3. Latest(g) = SubSeq(g, Larger(1, n + 1 - W + 1), n + 1)
    <3>1. PICK l \in Nat : l = Len(g) /\ l = n + 1
      BY <1>1
    <3>2. Latest(g) = SubSeq(g, Larger(1, l - W + 1), l)
      BY <2>1, <3>1 DEF W
    <3>3. Larger(1, l - W + 1) = Larger(1, n + 1 - W + 1)
      BY <1>1, <1>2, <3>1 DEF Larger
    <3> QED
      BY <3>1, <3>2, <3>3
  <2> QED
    BY <2>2, <2>3
<1>4. CASE n < W
  <2>1. Larger(1, n - W + 1) = 1 /\ Larger(1, n + 1 - W + 1) = 1
    BY <1>1, <1>2, <1>4 DEF Larger
  <2>2. old = s /\ new = g
    <3>1. SubSeq(s, 1, n) = s
      BY DEF n
    <3>2. SubSeq(g, 1, n + 1) = g
      BY <1>1
    <3> QED
      BY <1>3, <2>1, <3>1, <3>2
  <2>3. Len(old) # W
    BY <1>1, <1>2, <1>4, <2>2 DEF n
  <2> QED
    BY <2>2, <2>3 DEF W, g
<1>5. CASE n >= W
  <2>1. PICK a \in Nat : a = n - W + 1 /\ a >= 1 /\ n = a + W - 1
    <3>1. n - W + 1 \in Nat /\ n - W + 1 >= 1 /\ n = (n - W + 1) + W - 1
      BY <1>1, <1>2, <1>5
    <3> QED
      BY <3>1
  <2>2. Larger(1, n - W + 1) = a /\ Larger(1, n + 1 - W + 1) = a + 1
    BY <1>1, <1>2, <2>1 DEF Larger
  <2>3. old = SubSeq(s, a, n) /\ new = SubSeq(g, a + 1, n + 1)
    BY <1>3, <2>2
  <2>4. PICK v \in Nat : W = v + 1
    <3>1. W - 1 \in Nat /\ W = (W - 1) + 1
      BY <1>2
    <3> QED
      BY <3>1
  <2>5. /\ old \in Seq(Nat) /\ Len(old) = v + 1
        /\ \A i \in 1 .. v + 1 : old[i] = s[a + i - 1]
    <3>1. a \in 1 .. n /\ n \in 1 .. n /\ a <= n /\ n - a + 1 = v + 1
      BY <1>1, <2>1, <2>4
    <3>2. /\ SubSeq(s, a, n) \in Seq(Nat) /\ Len(SubSeq(s, a, n)) = n - a + 1
          /\ \A i \in 1 .. n - a + 1 : SubSeq(s, a, n)[i] = s[a + i - 1]
      BY <3>1, SliceIs DEF n
    <3> QED
      BY <2>3, <3>1, <3>2
  <2>6. /\ new \in Seq(Nat) /\ Len(new) = v + 1
        /\ \A i \in 1 .. v + 1 : new[i] = g[a + 1 + i - 1]
    <3>1. a + 1 \in 1 .. n + 1 /\ n + 1 \in 1 .. n + 1 /\ a + 1 <= n + 1
          /\ (n + 1) - (a + 1) + 1 = v + 1
      BY <1>1, <2>1, <2>4
    <3>2. /\ SubSeq(g, a + 1, n + 1) \in Seq(Nat)
          /\ Len(SubSeq(g, a + 1, n + 1)) = (n + 1) - (a + 1) + 1
          /\ \A i \in 1 .. (n + 1) - (a + 1) + 1 : SubSeq(g, a + 1, n + 1)[i] = g[a + 1 + i - 1]
      BY <1>1, <3>1, SliceIs
    <3> QED
      BY <2>3, <3>1, <3>2
  <2> HIDE DEF old, new
  <2>7. Tail(old) \in Seq(Nat) /\ Len(Tail(old)) = v /\ \A i \in 1 .. v : Tail(old)[i] = old[i + 1]
    BY <2>4, <2>5
  <2>8. \A i \in 1 .. v : new[i] = Tail(old)[i]
    <3> SUFFICES ASSUME NEW i \in 1 .. v PROVE new[i] = Tail(old)[i]
      OBVIOUS
    <3>1. i \in 1 .. v + 1 /\ i + 1 \in 1 .. v + 1 /\ a + 1 + i - 1 = a + i /\ a + (i + 1) - 1 = a + i
          /\ a + i \in 1 .. n
      BY <1>1, <2>1, <2>4
    <3>2. new[i] = g[a + i] /\ old[i + 1] = s[a + i]
      BY <2>5, <2>6, <3>1
    <3> QED
      BY <1>1, <2>7, <3>1, <3>2
  <2>9. new[v + 1] = j
    <3>1. v + 1 \in 1 .. v + 1 /\ a + 1 + (v + 1) - 1 = n + 1
      BY <1>1, <2>1, <2>4
    <3>2. new[v + 1] = g[a + 1 + (v + 1) - 1]
      BY <2>6, <3>1
    <3> QED
      BY <1>1, <3>1, <3>2
  <2>10. new \in [1 .. v + 1 -> Nat]
    <3>1. DOMAIN new = 1 .. v + 1 /\ new = [i \in 1 .. Len(new) |-> new[i]]
          /\ \A i \in 1 .. Len(new) : new[i] \in Nat
      BY <2>6
    <3> QED
      BY <2>6, <3>1
  <2>11. new = Append(Tail(old), new[v + 1])
    BY <2>7, <2>8, <2>10, AppendIs
  <2>12. Len(old) = W
    BY <2>4, <2>5
  <2> QED
    BY <2>5, <2>9, <2>11, <2>12 DEF old, new, g, W
<1> QED
  BY <1>1, <1>2, <1>4, <1>5

\* The elements of a sequence one longer.
LEMMA SetGrows ==
  ASSUME NEW s \in Seq(Nat), NEW d \in Nat
  PROVE  ToSet(Append(s, d)) = ToSet(s) \cup {d} /\ ToSet(s) \subseteq Nat
         /\ (s # << >> => ToSet(s) # {}) /\ ToSet(<< >>) = {}
<1> DEFINE n == Len(s)
           g == Append(s, d)
<1>1. n \in Nat /\ DOMAIN s = 1 .. n /\ DOMAIN g = 1 .. n + 1 /\ g[n + 1] = d
      /\ \A i \in 1 .. n : g[i] = s[i] /\ s[i] \in Nat
  OBVIOUS
<1>2. s # << >> => 1 \in 1 .. n
  OBVIOUS
<1>3. ToSet(<< >>) = {}
  BY DEF ToSet
<1> HIDE DEF n, g
<1>4. ToSet(g) = ToSet(s) \cup {d}
  <2>1. \A i \in 1 .. n + 1 : i \in 1 .. n \/ i = n + 1
    BY <1>1
  <2>2. 1 .. n \subseteq 1 .. n + 1 /\ n + 1 \in 1 .. n + 1
    BY <1>1
  <2>3. ToSet(g) = {g[i] : i \in 1 .. n + 1} /\ ToSet(s) = {s[i] : i \in 1 .. n}
    BY <1>1 DEF ToSet
  <2> QED
    BY <1>1, <2>1, <2>2, <2>3
<1> QED
  BY <1>1, <1>2, <1>3, <1>4 DEF ToSet, g

\* An element no other of the set is above,
IsMax(m, S) == m \in S /\ \A y \in S : y <= m
\* or below.
IsMin(m, S) == m \in S /\ \A y \in S : m <= y

\* The library's maximum is such an element,
LEMMA MaxOf == ASSUME NEW S, S \subseteq Int, NEW m, IsMax(m, S) PROVE Max(S) = m
<1>1. \A x \in S : (\A y \in S : x >= y) <=> x = m
  BY DEF IsMax
<1>2. m \in S
  BY DEF IsMax
<1> QED
  BY <1>1, <1>2 DEF Max

\* and so is its minimum.
LEMMA MinOf == ASSUME NEW S, S \subseteq Int, NEW m, IsMin(m, S) PROVE Min(S) = m
<1>1. \A x \in S : (\A y \in S : x <= y) <=> x = m
  BY DEF IsMin
<1>2. m \in S
  BY DEF IsMin
<1> QED
  BY <1>1, <1>2 DEF Min

\* Twice a sum divided by twice a length is the sum divided by the length: why
\* telemetry may push each change twice.
LEMMA HalvesOfBoth ==
  ASSUME NEW s \in Nat, NEW n \in Nat, n # 0
  PROVE  (2 * s) \div (2 * n) = s \div n
<1> DEFINE p == s \div n
           q == (2 * s) \div (2 * n)
<1>1. p \in Nat /\ n * p <= s /\ s < n * p + n
  OBVIOUS
<1>2. q \in Nat /\ (2 * n) * q <= 2 * s /\ 2 * s < (2 * n) * q + 2 * n
  OBVIOUS
<1> HIDE DEF p, q
<1>3. n * q <= s /\ s < n * q + n
  <2>1. (2 * n) * q = 2 * (n * q) /\ n * q \in Nat
    BY <1>2
  <2> QED
    BY <1>2, <2>1
<1>4. \A a, b \in Nat : a < b => n * a + n <= n * b
  <2> SUFFICES ASSUME NEW a \in Nat, NEW b \in Nat, a < b PROVE n * a + n <= n * b
    OBVIOUS
  <2>1. PICK c \in Nat : b = a + 1 + c
    <3>1. b - a - 1 \in Nat /\ b = a + 1 + (b - a - 1)
      OBVIOUS
    <3> QED
      BY <3>1
  <2>2. n * b = n * a + n + n * c /\ n * c \in Nat /\ n * a \in Nat
    BY <2>1
  <2> QED
    BY <2>2
<1>5. n * p \in Nat /\ n * q \in Nat
  BY <1>1, <1>2
<1>6. ~(p < q) /\ ~(q < p)
  BY <1>1, <1>2, <1>3, <1>4, <1>5
<1> QED
  BY <1>1, <1>2, <1>6 DEF p, q

-----------------------------------------------------------------------------
(* Each figure and its stream.                                              *)
\* A JitterStats.
StatType == [count : Nat, sum : Nat, max : Nat, min : Nat]

\* A JitterStats is that of a sequence: it has its length and its sum, and the
\* extremes of its elements and of what the fields start with.
StatMatches(stat, seq) ==
  /\ stat \in StatType
  /\ stat.count = Len(seq) /\ stat.sum = SumFunction(seq)
  /\ IsMax(stat.max, {0} \cup ToSet(seq)) /\ IsMin(stat.min, {u128_MAX} \cup ToSet(seq))

\* JitterStats::new() is that of the empty sequence.
LEMMA StatStarts == StatMatches(NewStat, << >>)
<1>1. ToSet(<< >>) = {} /\ SumFunction(<< >>) = 0 /\ Len(<< >>) = 0
  BY SetGrows, NoSum DEF ToSet
<1>2. NewStat \in StatType
  BY DurationsAssumption DEF NewStat, StatType
<1>3. /\ NewStat.count = 0 /\ NewStat.sum = 0
      /\ NewStat.max = 0 /\ NewStat.min = u128_MAX
  BY DEF NewStat
<1>4. IsMax(0, {0} \cup {}) /\ IsMin(u128_MAX, {u128_MAX} \cup {})
  BY DurationsAssumption DEF IsMax, IsMin
<1> QED
  BY <1>1, <1>2, <1>3, <1>4 DEF StatMatches

\* Extremes after one more element.
LEMMA ExtremesMove ==
  ASSUME NEW S, S \subseteq Nat, NEW d \in Nat
  PROVE  /\ \A m \in Nat : IsMax(m, S) => IsMax(Larger(m, d), S \cup {d})
         /\ \A m \in Nat : IsMin(m, S) => IsMin(Smaller(m, d), S \cup {d})
  BY DEF IsMax, IsMin, Larger, Smaller

\* Recording an element makes it that of a sequence one longer.
LEMMA StatGrows ==
  ASSUME NEW stat, NEW seq \in Seq(Nat), StatMatches(stat, seq), NEW d \in Nat
  PROVE  StatMatches(Recorded(stat, d), Append(seq, d))
<1> DEFINE new == Recorded(stat, d)
           S == {0} \cup ToSet(seq)
           T == {u128_MAX} \cup ToSet(seq)
<1>1. /\ stat.count \in Nat /\ stat.sum \in Nat /\ stat.max \in Nat /\ stat.min \in Nat
      /\ stat.count = Len(seq) /\ stat.sum = SumFunction(seq)
      /\ IsMax(stat.max, S) /\ IsMin(stat.min, T)
  BY DEF StatMatches, StatType
<1>2. ToSet(Append(seq, d)) = ToSet(seq) \cup {d} /\ ToSet(seq) \subseteq Nat
  BY SetGrows
<1>3. S \subseteq Nat /\ T \subseteq Nat
  BY <1>2, DurationsAssumption
<1>4. S \cup {d} = {0} \cup ToSet(Append(seq, d)) /\ T \cup {d} = {u128_MAX} \cup ToSet(Append(seq, d))
  BY <1>2
<1>5. /\ new.count = stat.count + 1 /\ new.sum = stat.sum + d
      /\ new.max = Larger(stat.max, d) /\ new.min = Smaller(stat.min, d)
      /\ new = [count |-> new.count, sum |-> new.sum, max |-> new.max, min |-> new.min]
  BY DEF Recorded
<1>6. IsMax(new.max, S \cup {d}) /\ IsMin(new.min, T \cup {d})
  <2> HIDE DEF new, S, T
  <2>1. IsMax(Larger(stat.max, d), S \cup {d})
    BY <1>1, <1>3, ExtremesMove
  <2>2. IsMin(Smaller(stat.min, d), T \cup {d})
    BY <1>1, <1>3, ExtremesMove
  <2> QED
    BY <1>5, <2>1, <2>2
<1>7. SumFunction(Append(seq, d)) = SumFunction(seq) + d
  BY SumAppend
<1>8. Len(Append(seq, d)) = Len(seq) + 1
  OBVIOUS
<1>9. new.max \in Nat /\ new.min \in Nat /\ new.count \in Nat /\ new.sum \in Nat
  BY <1>1, <1>5 DEF Larger, Smaller
<1> HIDE DEF new
<1>10. new \in StatType
  BY <1>5, <1>9 DEF StatType
<1> QED
  BY <1>1, <1>4, <1>5, <1>6, <1>7, <1>8, <1>10 DEF StatMatches, new

\* What is printed from it is the report of the sequence; a minimum that was
\* never touched is printed as 0.
LEMMA StatPrints ==
  ASSUME NEW stat, NEW seq \in Seq(Durations), StatMatches(stat, seq)
  PROVE  [avg |-> avg_micros(stat), max |-> stat.max, min |-> PrintedMin(stat.min)] = ReportOf(seq)
<1>1. /\ stat.count = Len(seq) /\ stat.sum = SumFunction(seq)
      /\ IsMax(stat.max, {0} \cup ToSet(seq)) /\ IsMin(stat.min, {u128_MAX} \cup ToSet(seq))
  BY DEF StatMatches
<1>2. \A d \in ToSet(seq) : d \in Durations /\ d \in Nat /\ d < u128_MAX
  <2>1. \A i \in DOMAIN seq : seq[i] \in Durations
    OBVIOUS
  <2>2. \A d \in Durations : d \in Nat /\ d < u128_MAX
    BY DurationsAssumption
  <2> QED
    BY <2>1, <2>2 DEF ToSet
<1>3. avg_micros(stat) = Average(seq)
  <2>1. Len(seq) = 0 <=> seq = << >>
    OBVIOUS
  <2> QED
    BY <1>1, <2>1 DEF avg_micros, Average
<1>4. Max({0} \cup ToSet(seq)) = stat.max
  <2>1. {0} \cup ToSet(seq) \subseteq Int
    BY <1>2
  <2> QED
    BY <1>1, <2>1, MaxOf
<1>5. PrintedMin(stat.min) = IF seq = << >> THEN 0 ELSE Min(ToSet(seq))
  <2>1. CASE seq = << >>
    <3>1. ToSet(seq) = {}
      BY <2>1 DEF ToSet
    <3>2. stat.min = u128_MAX
      BY <1>1, <3>1 DEF IsMin
    <3> QED
      BY <2>1, <3>2 DEF PrintedMin
  <2>2. CASE seq # << >>
    <3>1. PICK d : d \in ToSet(seq)
      <4>1. 1 \in DOMAIN seq
        BY <2>2
      <4> QED
        BY <4>1 DEF ToSet
    <3>2. stat.min <= d
      BY <1>1, <3>1 DEF IsMin
    <3>3. stat.min \in ToSet(seq) /\ stat.min # u128_MAX
      BY <1>1, <1>2, <3>1, <3>2, DurationsAssumption DEF IsMin
    <3>4. IsMin(stat.min, ToSet(seq))
      BY <1>1, <3>3 DEF IsMin
    <3>5. ToSet(seq) \subseteq Int
      BY <1>2
    <3>6. Min(ToSet(seq)) = stat.min
      BY <3>4, <3>5, MinOf
    <3> QED
      BY <2>2, <3>3, <3>6 DEF PrintedMin
  <2> QED
    BY <2>1, <2>2
<1> QED
  BY <1>3, <1>4, <1>5 DEF ReportOf

\* The sensors' statistics together are those of one sequence: the counts and
\* the sums add up, and the extremes of all are the extremes among theirs.
JitterMatches(stats, seq) ==
  /\ IsFiniteSet(DOMAIN stats)
  /\ stats \in [DOMAIN stats -> StatType]
  /\ \E all : /\ StatMatches(all, seq)
              /\ all.count = SumFunction([n \in DOMAIN stats |-> stats[n].count])
              /\ all.sum = SumFunction([n \in DOMAIN stats |-> stats[n].sum])
              /\ IsMax(all.max, {0} \cup {stats[n].max : n \in DOMAIN stats})
              /\ IsMin(all.min, {u128_MAX} \cup {stats[n].min : n \in DOMAIN stats})

\* No statistics are those of no records.
LEMMA SensorsStart == JitterMatches(<< >>, << >>)
<1> DEFINE stats == << >>
<1>1. DOMAIN stats = {}
  OBVIOUS
<1>2. IsFiniteSet({})
  BY FS_EmptySet
<1> HIDE DEF stats
<1>3. stats \in [DOMAIN stats -> StatType]
  BY <1>1 DEF stats
<1>4. /\ SumFunction([n \in DOMAIN stats |-> stats[n].count]) = 0
      /\ SumFunction([n \in DOMAIN stats |-> stats[n].sum]) = 0
  BY <1>1, SumEmpty DEF SumFunction
<1>5. {stats[n].max : n \in DOMAIN stats} = {} /\ {stats[n].min : n \in DOMAIN stats} = {}
  BY <1>1
<1>6. StatMatches(NewStat, << >>)
  BY StatStarts
<1>7. NewStat.count = 0 /\ NewStat.sum = 0 /\ NewStat.max = 0 /\ NewStat.min = u128_MAX
  BY DEF NewStat
<1>8. IsMax(0, {0} \cup {}) /\ IsMin(u128_MAX, {u128_MAX} \cup {})
  BY DurationsAssumption DEF IsMax, IsMin
<1>9. JitterMatches(stats, << >>)
  BY <1>1, <1>2, <1>3, <1>4, <1>5, <1>6, <1>7, <1>8 DEF JitterMatches
<1> QED
  BY <1>9 DEF stats

\* What the sum of one field over the sensors does when one of them changes or
\* is the first of its name.
LEMMA ColumnGrows ==
  ASSUME NEW D, IsFiniteSet(D), NEW f \in [D -> Nat], NEW g, NEW name, DOMAIN g = D \cup {name},
         \A n \in D : n # name => g[n] = f[n], g[name] \in Nat
  PROVE  /\ SumFunction(f) \in Nat
         /\ SumFunction(g) = SumFunction(f) + (g[name] - (IF name \in D THEN f[name] ELSE 0))
<1>1. DOMAIN f = D /\ \A n \in D : f[n] \in Nat
  OBVIOUS
<1>2. /\ name \notin DOMAIN f => SumFunction(g) = SumFunction(f) + g[name]
      /\ name \in DOMAIN f => SumFunction(g) = SumFunction(f) - f[name] + g[name]
  BY <1>1, SumWith
<1>3. SumFunction(f) \in Nat
  BY <1>1, SumType DEF SumFunction
<1>4. CASE name \in D
  BY <1>1, <1>2, <1>3, <1>4
<1>5. CASE name \notin D
  BY <1>1, <1>2, <1>3, <1>5
<1> QED
  BY <1>4, <1>5

\* What record_sensor_jitter makes of the map.
SensorStep(stats, name, d, new) ==
  LET entry == IF name \in DOMAIN stats THEN stats[name] ELSE NewStat
  IN  new = [n \in DOMAIN stats \cup {name} |-> IF n = name THEN Recorded(entry, d) ELSE stats[n]]

\* Recorded for one sensor, a jitter is recorded for all of them.
LEMMA SensorsGrow ==
  ASSUME NEW stats, NEW seq \in Seq(Nat), JitterMatches(stats, seq), NEW name, NEW d \in Durations,
         NEW new, SensorStep(stats, name, d, new)
  PROVE  JitterMatches(new, Append(seq, d))
<1>a. PICK entry : entry = IF name \in DOMAIN stats THEN stats[name] ELSE NewStat
  OBVIOUS
<1>b. new = [n \in DOMAIN stats \cup {name} |-> IF n = name THEN Recorded(entry, d) ELSE stats[n]]
  BY <1>a DEF SensorStep
<1> DEFINE D == DOMAIN stats
<1>0. d \in Nat /\ d < u128_MAX /\ u128_MAX \in Nat
  BY DurationsAssumption
<1>1. IsFiniteSet(D) /\ stats \in [D -> StatType]
  BY DEF JitterMatches
<1>2. PICK all : /\ StatMatches(all, seq)
                 /\ all.count = SumFunction([n \in D |-> stats[n].count])
                 /\ all.sum = SumFunction([n \in D |-> stats[n].sum])
                 /\ IsMax(all.max, {0} \cup {stats[n].max : n \in D})
                 /\ IsMin(all.min, {u128_MAX} \cup {stats[n].min : n \in D})
  BY DEF JitterMatches
<1>3. all.max \in Nat /\ all.min \in Nat /\ all.count \in Nat /\ all.sum \in Nat
  BY <1>2 DEF StatMatches, StatType
<1>4. entry \in StatType
  <2>1. NewStat \in StatType
    BY <1>0 DEF NewStat, StatType
  <2> QED
    BY <1>1, <1>a, <2>1
<1>5. /\ entry.count \in Nat /\ entry.sum \in Nat /\ entry.max \in Nat /\ entry.min \in Nat
      /\ entry.count = IF name \in D THEN stats[name].count ELSE 0
      /\ entry.sum = IF name \in D THEN stats[name].sum ELSE 0
      /\ entry.max = IF name \in D THEN stats[name].max ELSE 0
      /\ entry.min = IF name \in D THEN stats[name].min ELSE u128_MAX
  BY <1>4, <1>a DEF StatType, NewStat
<1> DEFINE r == Recorded(entry, d)
<1>6. /\ r.count = entry.count + 1 /\ r.sum = entry.sum + d
      /\ r.max = Larger(entry.max, d) /\ r.min = Smaller(entry.min, d)
  BY DEF Recorded
<1>7. r \in StatType
  <2>1. Larger(entry.max, d) \in Nat /\ Smaller(entry.min, d) \in Nat
    BY <1>0, <1>5 DEF Larger, Smaller
  <2> QED
    BY <1>0, <1>5, <2>1 DEF Recorded, StatType
<1> HIDE DEF r, D
<1>8. /\ DOMAIN new = D \cup {name} /\ new[name] = r /\ name \in DOMAIN new
      /\ \A n \in D : n # name => new[n] = stats[n]
  BY <1>b DEF r, D
<1>9. new \in [DOMAIN new -> StatType]
  <2>1. \A n \in DOMAIN new : new[n] \in StatType
    BY <1>1, <1>7, <1>8
  <2>2. new = [n \in DOMAIN new |-> new[n]]
    BY <1>b
  <2> QED
    BY <2>1, <2>2
<1>10. \A n \in D : /\ stats[n].count \in Nat /\ stats[n].sum \in Nat
                    /\ stats[n].max \in Nat /\ stats[n].min \in Nat
  BY <1>1 DEF StatType
<1>11. SumFunction([n \in DOMAIN new |-> new[n].count])
         = SumFunction([n \in D |-> stats[n].count]) + 1
  <2> DEFINE f == [n \in D |-> stats[n].count]
             g == [n \in DOMAIN new |-> new[n].count]
  <2>1. f \in [D -> Nat] /\ DOMAIN g = D \cup {name}
    BY <1>8, <1>10
  <2>2. \A n \in D : n # name => g[n] = f[n]
    BY <1>8
  <2>3. g[name] = (IF name \in D THEN f[name] ELSE 0) + 1
    BY <1>5, <1>6, <1>8
  <2> HIDE DEF f, g
  <2> QED
    <3>1. f[name] \in Nat \/ name \notin D
      BY <2>1
    <3>2. g[name] \in Nat
      BY <1>0, <2>3, <3>1
    <3>3. /\ SumFunction(f) \in Nat
          /\ SumFunction(g) = SumFunction(f) + (g[name] - (IF name \in D THEN f[name] ELSE 0))
      BY <1>1, <2>1, <2>2, <3>2, ColumnGrows
    <3>4. SumFunction(g) = SumFunction(f) + 1
      BY <1>0, <2>3, <3>1, <3>3
    <3> QED
      BY <3>4 DEF f, g
<1>12. SumFunction([n \in DOMAIN new |-> new[n].sum])
         = SumFunction([n \in D |-> stats[n].sum]) + d
  <2> DEFINE f == [n \in D |-> stats[n].sum]
             g == [n \in DOMAIN new |-> new[n].sum]
  <2>1. f \in [D -> Nat] /\ DOMAIN g = D \cup {name}
    BY <1>8, <1>10
  <2>2. \A n \in D : n # name => g[n] = f[n]
    BY <1>8
  <2>3. g[name] = (IF name \in D THEN f[name] ELSE 0) + d
    BY <1>5, <1>6, <1>8
  <2> HIDE DEF f, g
  <2> QED
    <3>1. f[name] \in Nat \/ name \notin D
      BY <2>1
    <3>2. g[name] \in Nat
      BY <1>0, <2>3, <3>1
    <3>3. /\ SumFunction(f) \in Nat
          /\ SumFunction(g) = SumFunction(f) + (g[name] - (IF name \in D THEN f[name] ELSE 0))
      BY <1>1, <2>1, <2>2, <3>2, ColumnGrows
    <3>4. SumFunction(g) = SumFunction(f) + d
      BY <1>0, <2>3, <3>1, <3>3
    <3> QED
      BY <3>4 DEF f, g
<1>13. IsMax(Larger(all.max, d), {0} \cup {new[n].max : n \in DOMAIN new})
  <2> DEFINE m == Larger(all.max, d)
  <2>1. all.max >= entry.max /\ \A n \in D : all.max >= stats[n].max
    BY <1>2, <1>5 DEF IsMax
  <2>2. m \in Nat /\ m >= all.max /\ m >= d
    BY <1>0, <1>3 DEF Larger
  <2>3. \A n \in DOMAIN new : new[n].max <= m
    <3>1. r.max <= m
      BY <1>0, <1>3, <1>5, <1>6, <2>1 DEF Larger
    <3>2. \A n \in D : stats[n].max <= m
      BY <1>3, <1>10, <2>1, <2>2
    <3> QED
      BY <1>8, <3>1, <3>2
  <2>4. m \in {0} \cup {new[n].max : n \in DOMAIN new}
    <3>1. CASE d > all.max
      <4>1. m = d /\ r.max = d
        BY <1>0, <1>3, <1>5, <1>6, <2>1, <3>1 DEF Larger
      <4> QED
        BY <1>8, <4>1
    <3>2. CASE ~(d > all.max)
      <4>1. m = all.max
        BY <3>2 DEF Larger
      <4>2. CASE all.max = 0
        BY <4>1, <4>2
      <4>3. CASE all.max # 0
        <5>1. PICK n \in D : all.max = stats[n].max
          BY <1>2, <4>3 DEF IsMax
        <5>2. CASE n = name
          <6>1. r.max = all.max
            BY <1>0, <1>3, <1>5, <1>6, <3>2, <5>1, <5>2 DEF Larger
          <6> QED
            BY <1>8, <4>1, <6>1
        <5>3. CASE n # name
          BY <1>8, <4>1, <5>1, <5>3
        <5> QED
          BY <5>2, <5>3
      <4> QED
        BY <4>2, <4>3
    <3> QED
      BY <3>1, <3>2
  <2>5. 0 <= m
    BY <2>2
  <2> HIDE DEF m
  <2> QED
    BY <2>3, <2>4, <2>5 DEF IsMax, m
<1>14. IsMin(Smaller(all.min, d), {u128_MAX} \cup {new[n].min : n \in DOMAIN new})
  <2> DEFINE m == Smaller(all.min, d)
  <2>1. all.min <= u128_MAX /\ all.min <= entry.min /\ \A n \in D : all.min <= stats[n].min
    BY <1>2, <1>5 DEF IsMin
  <2>2. m \in Nat /\ m <= all.min /\ m <= d
    BY <1>0, <1>3 DEF Smaller
  <2>3. \A n \in DOMAIN new : m <= new[n].min
    <3>1. m <= r.min
      BY <1>0, <1>3, <1>5, <1>6, <2>1 DEF Smaller
    <3>2. \A n \in D : m <= stats[n].min
      BY <1>3, <1>10, <2>1, <2>2
    <3> QED
      BY <1>8, <3>1, <3>2
  <2>4. m \in {u128_MAX} \cup {new[n].min : n \in DOMAIN new}
    <3>1. CASE d < all.min
      <4>1. m = d /\ r.min = d
        BY <1>0, <1>3, <1>5, <1>6, <2>1, <3>1 DEF Smaller
      <4> QED
        BY <1>8, <4>1
    <3>2. CASE ~(d < all.min)
      <4>1. m = all.min
        BY <3>2 DEF Smaller
      <4>2. CASE all.min = u128_MAX
        BY <4>1, <4>2
      <4>3. CASE all.min # u128_MAX
        <5>1. PICK n \in D : all.min = stats[n].min
          BY <1>2, <4>3 DEF IsMin
        <5>2. CASE n = name
          <6>1. r.min = all.min
            BY <1>0, <1>3, <1>5, <1>6, <3>2, <5>1, <5>2 DEF Smaller
          <6> QED
            BY <1>8, <4>1, <6>1
        <5>3. CASE n # name
          BY <1>8, <4>1, <5>1, <5>3
        <5> QED
          BY <5>2, <5>3
      <4> QED
        BY <4>2, <4>3
    <3> QED
      BY <3>1, <3>2
  <2>5. m <= u128_MAX
    BY <1>0, <1>3, <2>1, <2>2
  <2> HIDE DEF m
  <2> QED
    BY <2>3, <2>4, <2>5 DEF IsMin, m
<1> DEFINE whole == Recorded(all, d)
<1>15. StatMatches(whole, Append(seq, d))
  BY <1>0, <1>2, StatGrows
<1>16. /\ whole.count = all.count + 1 /\ whole.sum = all.sum + d
       /\ whole.max = Larger(all.max, d) /\ whole.min = Smaller(all.min, d)
  BY DEF Recorded
<1>17. IsFiniteSet(DOMAIN new)
  BY <1>1, <1>8, FS_AddElement
<1> HIDE DEF whole
<1>18. /\ whole.count = SumFunction([n \in DOMAIN new |-> new[n].count])
       /\ whole.sum = SumFunction([n \in DOMAIN new |-> new[n].sum])
  BY <1>2, <1>11, <1>12, <1>16
<1>19. /\ IsMax(whole.max, {0} \cup {new[n].max : n \in DOMAIN new})
       /\ IsMin(whole.min, {u128_MAX} \cup {new[n].min : n \in DOMAIN new})
  BY <1>13, <1>14, <1>16
<1> QED
  BY <1>9, <1>15, <1>17, <1>18, <1>19 DEF JitterMatches

\* The drift's extremes are None exactly before the first, and its misses are
\* the drifts above the limit.
DriftInv(d, seq) ==
  /\ d.max \in Int /\ d.min \in Int
  /\ d.max = None <=> seq = << >>
  /\ d.min = None <=> seq = << >>
  /\ seq # << >> => IsMax(d.max, ToSet(seq)) /\ IsMin(d.min, ToSet(seq))
  /\ d.missed = Above(seq, DriftLimit)

\* The last of a sequence, as an Option.
LastOf(seq) == IF seq = << >> THEN None ELSE seq[Len(seq)]

\* A JitterTracker has the last time, the latest jitters and the violations
\* among all.
TrackerInv(t, seq) ==
  /\ t = [last_time |-> LastOf(seq), jitters |-> Latest(Jitters(Gaps(seq))),
          violations |-> Above(Jitters(Gaps(seq)), JitterTolerance)]
  /\ Gaps(seq) \in Seq(Nat)

\* Telemetry has the last time and the last gap, and the jitters it pushed are
\* two for each gap, adding up to twice the changes.
UplinkInv(u, seq) ==
  /\ u = [last_time |-> LastOf(seq), last_interval |-> LastOf(Gaps(seq)),
          jitter_values |-> u.jitter_values]
  /\ Gaps(seq) \in Seq(Nat)
  /\ u.jitter_values \in Seq(Nat)
  /\ Len(u.jitter_values) = 2 * Len(Gaps(seq))
  /\ SumFunction(u.jitter_values) = 2 * SumFunction(Changes(Gaps(seq)))

\* The types of what was recorded.
GivenOK ==
  /\ given \in [Streams -> Seq(Nat)]
  /\ given["jitter"] \in Seq(Durations) /\ given["backlog"] \in Seq(Durations)

\* What every step of the summaries keeps: each figure kept is the one of its
\* own stream.  SummariesMatch alone is no invariant of a step: an average says
\* too little of the sum and the length it was made of.
SummariesInv ==
  /\ GivenOK
  /\ JitterMatches(sensor_jitter, given["jitter"])
  /\ StatMatches(backlog, given["backlog"])
  /\ DriftInv(drift, given["drift"])
  /\ TrackerInv(tracker, given["tracked"])
  /\ UplinkInv(uplink, given["packet"])

\* Nothing recorded has no last, no gaps, jitters or changes and none above.
LEMMA AtStart == /\ LastOf(<< >>) = None /\ Gaps(<< >>) = << >> /\ Jitters(<< >>) = << >>
                 /\ Changes(<< >>) = << >> /\ Latest(<< >>) = << >>
                 /\ \A limit \in Nat : Above(<< >>, limit) = 0
<1>1. << >> \in Seq(Nat) /\ Len(<< >>) = 0 /\ DOMAIN << >> = {}
  OBVIOUS
<1>2. LastOf(<< >>) = None /\ Gaps(<< >>) = << >> /\ Jitters(<< >>) = << >> /\ Changes(<< >>) = << >>
  <2>1. LastOf(<< >>) = None
    BY DEF LastOf
  <2>2. Gaps(<< >>) = << >>
    BY DEF Gaps
  <2>3. Jitters(<< >>) = << >>
    BY DEF Jitters
  <2>4. Changes(<< >>) = << >>
    BY DEF Changes
  <2> QED
    BY <2>1, <2>2, <2>3, <2>4
<1>3. Latest(<< >>) = << >>
  <2>1. Larger(1, 0 - JitterWindow + 1) = 1
    BY WindowAssumption DEF Larger
  <2>2. SubSeq(<< >>, 1, 0) = << >>
    OBVIOUS
  <2> QED
    BY <1>1, <2>1, <2>2 DEF Latest
<1>4. \A limit \in Nat : Above(<< >>, limit) = 0
  <2>1. \A limit \in Nat : {i \in DOMAIN << >> : << >>[i] > limit} = {}
    BY <1>1
  <2> QED
    BY <2>1, FS_EmptySet DEF Above
<1> QED
  BY <1>2, <1>3, <1>4

\* What appending does to length and last.
LEMMA LastAppended ==
  ASSUME NEW s \in Seq(Nat), NEW e \in Nat
  PROVE  /\ Append(s, e) # << >> /\ Append(s, e) \in Seq(Nat)
         /\ Len(Append(s, e)) = Len(s) + 1 /\ LastOf(Append(s, e)) = e
<1> DEFINE g == Append(s, e)
<1>1. Len(s) \in Nat /\ g \in Seq(Nat) /\ Len(g) = Len(s) + 1 /\ g[Len(s) + 1] = e
  OBVIOUS
<1> HIDE DEF g
<1>2. g # << >>
  BY <1>1
<1>3. LastOf(g) = e
  BY <1>1, <1>2 DEF LastOf
<1> QED
  BY <1>1, <1>2, <1>3 DEF g

\* Two pushes of the same.
LEMMA TwiceAppended ==
  ASSUME NEW s \in Seq(Nat), NEW e \in Nat
  PROVE  s \o <<e, e>> = Append(Append(s, e), e)
<1> DEFINE g == Append(s, e)
           h == Append(g, e)
           w == s \o <<e, e>>
           n == Len(s)
<1>1. n \in Nat /\ g \in Seq(Nat) /\ Len(g) = n + 1 /\ g[n + 1] = e /\ \A i \in 1 .. n : g[i] = s[i]
  OBVIOUS
<1>2. h \in Seq(Nat) /\ Len(h) = n + 1 + 1 /\ h[n + 1 + 1] = e /\ \A i \in 1 .. n + 1 : h[i] = g[i]
  <2> HIDE DEF g, n
  <2> QED
    BY <1>1
<1>3. w \in Seq(Nat) /\ Len(w) = n + 2 /\ w[n + 1] = e /\ w[n + 2] = e
      /\ \A i \in 1 .. n : w[i] = s[i]
  <2>1. <<e, e>> \in Seq(Nat) /\ Len(<<e, e>>) = 2
    OBVIOUS
  <2>2. w \in Seq(Nat) /\ Len(w) = n + 2
    BY <2>1
  <2>3. \A i \in 1 .. n : w[i] = s[i]
    BY <2>1
  <2>4. w[n + 1] = e /\ w[n + 2] = e
    BY <2>1
  <2> QED
    BY <2>2, <2>3, <2>4
<1> HIDE DEF g, h, w, n
<1>4. \A i \in 1 .. n + 2 : w[i] = h[i]
  <2> SUFFICES ASSUME NEW i \in 1 .. n + 2 PROVE w[i] = h[i]
    OBVIOUS
  <2>1. i \in 1 .. n \/ i = n + 1 \/ i = n + 2
    BY <1>1
  <2>2. n + 1 \in 1 .. n + 1 /\ n + 1 + 1 = n + 2 /\ 1 .. n \subseteq 1 .. n + 1
    BY <1>1
  <2>3. h[n + 1] = e /\ h[n + 2] = e /\ \A k \in 1 .. n : h[k] = s[k]
    BY <1>1, <1>2, <2>2
  <2> QED
    BY <1>3, <2>1, <2>3
<1>5. Len(w) = Len(h) /\ Len(w) = n + 2
  BY <1>1, <1>2, <1>3
<1>6. w = h
  <2>1. w = [i \in 1 .. Len(w) |-> w[i]] /\ h = [i \in 1 .. Len(h) |-> h[i]]
    BY <1>2, <1>3
  <2>2. w = [i \in 1 .. n + 2 |-> w[i]] /\ h = [i \in 1 .. n + 2 |-> h[i]]
    BY <1>5, <2>1
  <2> QED
    BY <1>4, <2>2
<1> QED
  BY <1>6 DEF w, h, g

\* The drift's figures follow their stream.
LEMMA DriftGrows ==
  ASSUME NEW s \in Seq(Nat), NEW d \in Nat, NEW old, DriftInv(old, s),
         NEW new, new = [max |-> IF old.max = None THEN d ELSE Larger(old.max, d),
                         min |-> IF old.min = None THEN d ELSE Smaller(old.min, d),
                         missed |-> old.missed + (IF d > DriftLimit THEN 1 ELSE 0)]
  PROVE  DriftInv(new, Append(s, d))
<1>1. Append(s, d) # << >> /\ ToSet(Append(s, d)) = ToSet(s) \cup {d} /\ ToSet(s) \subseteq Nat
  BY SetGrows, LastAppended
<1>2. new.missed = Above(Append(s, d), DriftLimit)
  BY AboveGrows, LimitsAssumption DEF DriftInv
<1>3. /\ new.max \in Nat /\ new.min \in Nat
      /\ IsMax(new.max, ToSet(s) \cup {d}) /\ IsMin(new.min, ToSet(s) \cup {d})
  <2>1. CASE s = << >>
    <3>1. ToSet(s) = {}
      BY <2>1 DEF ToSet
    <3>2. new.max = d /\ new.min = d
      BY <2>1 DEF DriftInv
    <3> QED
      BY <3>1, <3>2 DEF IsMax, IsMin
  <2>2. CASE s # << >>
    <3>1. /\ old.max # None /\ old.min # None
          /\ IsMax(old.max, ToSet(s)) /\ IsMin(old.min, ToSet(s))
      BY <2>2 DEF DriftInv
    <3>2. old.max \in Nat /\ old.min \in Nat
      BY <1>1, <3>1 DEF IsMax, IsMin
    <3>3. new.max = Larger(old.max, d) /\ new.min = Smaller(old.min, d)
      BY <3>1
    <3>4. new.max \in Nat /\ new.min \in Nat
      BY <3>2, <3>3 DEF Larger, Smaller
    <3>5. IsMax(Larger(old.max, d), ToSet(s) \cup {d})
      BY <1>1, <3>1, <3>2, ExtremesMove
    <3>6. IsMin(Smaller(old.min, d), ToSet(s) \cup {d})
      BY <1>1, <3>1, <3>2, ExtremesMove
    <3> QED
      BY <3>3, <3>4, <3>5, <3>6
  <2> QED
    BY <2>1, <2>2
<1>4. new.max # None /\ new.min # None
  BY <1>3 DEF None
<1> QED
  BY <1>1, <1>2, <1>3, <1>4 DEF DriftInv

\* A time d after the last appends d to the gaps.
LEMMA NextTime ==
  ASSUME NEW s \in Seq(Nat), Gaps(s) \in Seq(Nat), NEW d \in Nat,
         NEW now, now = IF LastOf(s) = None THEN 0 ELSE LastOf(s) + d
  PROVE  /\ LastOf(s) = None <=> s = << >>
         /\ now \in Nat /\ LastOf(Append(s, now)) = now
         /\ s = << >> => Gaps(Append(s, now)) = << >> /\ Gaps(s) = << >>
         /\ s # << >> => Gaps(Append(s, now)) = Append(Gaps(s), d)
         /\ Gaps(Append(s, now)) \in Seq(Nat)
<1>1. CASE s = << >>
  <2>1. LastOf(s) = None /\ now = 0 /\ now \in Nat
    BY <1>1 DEF LastOf
  <2>2. Gaps(Append(s, now)) = << >> /\ Gaps(s) = << >>
    BY <1>1, <2>1, GapsGrow
  <2>3. LastOf(Append(s, now)) = now
    BY <2>1, LastAppended
  <2>4. << >> \in Seq(Nat)
    OBVIOUS
  <2> QED
    BY <1>1, <2>1, <2>2, <2>3, <2>4
<1>2. CASE s # << >>
  <2>1. Len(s) \in 1 .. Len(s)
    BY <1>2
  <2>2. LastOf(s) = s[Len(s)] /\ s[Len(s)] \in Nat
    BY <1>2, <2>1 DEF LastOf
  <2>3. LastOf(s) # None
    BY <2>2 DEF None
  <2>4. now = s[Len(s)] + d /\ now \in Nat /\ now - s[Len(s)] = d
    BY <2>2, <2>3
  <2>5. Gaps(Append(s, now)) = Append(Gaps(s), now - s[Len(s)])
    BY <1>2, <2>4, GapsGrow
  <2>6. Gaps(Append(s, now)) = Append(Gaps(s), d)
    BY <2>4, <2>5
  <2>7. LastOf(Append(s, now)) = now
    BY <2>4, LastAppended
  <2>8. Append(Gaps(s), d) \in Seq(Nat)
    OBVIOUS
  <2> QED
    BY <1>2, <2>3, <2>4, <2>6, <2>7, <2>8
<1> QED
  BY <1>1, <1>2

\* The tracker follows its stream.
LEMMA TrackerGrows ==
  ASSUME NEW s \in Seq(Nat), NEW d \in Nat, NEW old, TrackerInv(old, s),
         NEW now, now = IF old.last_time = None THEN 0 ELSE old.last_time + d,
         NEW jitter, jitter = Difference(d, TrackerInterval),
         NEW kept, kept = IF Len(old.jitters) = JitterWindow THEN Tail(old.jitters) ELSE old.jitters,
         NEW new, new = IF old.last_time = None THEN [old EXCEPT !.last_time = now]
                        ELSE [last_time |-> now, jitters |-> Append(kept, jitter),
                              violations |-> old.violations
                                                 + (IF jitter > JitterTolerance THEN 1 ELSE 0)]
  PROVE  TrackerInv(new, Append(s, now)) /\ now \in Nat
<1> DEFINE j == Jitters(Gaps(s))
<1>1. /\ old = [last_time |-> LastOf(s), jitters |-> Latest(j),
                violations |-> Above(j, JitterTolerance)]
      /\ Gaps(s) \in Seq(Nat)
  BY DEF TrackerInv
<1>2. /\ old.last_time = LastOf(s) /\ old.jitters = Latest(j)
      /\ old.violations = Above(j, JitterTolerance)
  BY <1>1
<1>3. now = IF LastOf(s) = None THEN 0 ELSE LastOf(s) + d
  BY <1>2
<1>4. /\ LastOf(s) = None <=> s = << >>
      /\ now \in Nat /\ LastOf(Append(s, now)) = now
      /\ s = << >> => Gaps(Append(s, now)) = << >> /\ Gaps(s) = << >>
      /\ s # << >> => Gaps(Append(s, now)) = Append(Gaps(s), d)
      /\ Gaps(Append(s, now)) \in Seq(Nat)
  BY <1>1, <1>3, NextTime
<1>5. CASE s = << >>
  <2>1. new = [last_time |-> now, jitters |-> Latest(j), violations |-> Above(j, JitterTolerance)]
    BY <1>1, <1>2, <1>4, <1>5
  <2> QED
    BY <1>4, <1>5, <2>1 DEF TrackerInv
<1>6. CASE s # << >>
  <2>1. jitter \in Nat
    BY LimitsAssumption DEF Difference
  <2>2. j \in Seq(Nat) /\ Jitters(Gaps(Append(s, now))) = Append(j, jitter)
    BY <1>1, <1>4, <1>6, JittersGrow
  <2>3. Latest(Append(j, jitter)) = Append(kept, jitter)
    <3> HIDE DEF j
    <3> QED
      BY <1>2, <2>1, <2>2, WindowMoves
  <2>4. Above(Append(j, jitter), JitterTolerance)
          = old.violations + (IF jitter > JitterTolerance THEN 1 ELSE 0)
    <3> HIDE DEF j
    <3> QED
      BY <1>2, <2>1, <2>2, AboveGrows, LimitsAssumption
  <2>5. new = [last_time |-> now, jitters |-> Append(kept, jitter),
               violations |-> old.violations + (IF jitter > JitterTolerance THEN 1 ELSE 0)]
    BY <1>2, <1>4, <1>6
  <2> QED
    BY <1>4, <2>2, <2>3, <2>4, <2>5 DEF TrackerInv
<1> QED
  BY <1>4, <1>5, <1>6

\* What a packet telemetry can read does to what it keeps of the arrivals.
UplinkStep(old, d, now, new) ==
  LET change == IF old.last_interval = None THEN 0 ELSE Difference(d, old.last_interval)
  IN  /\ now = IF old.last_time = None THEN 0 ELSE old.last_time + d
      /\ new = IF old.last_time = None THEN [old EXCEPT !.last_time = now]
               ELSE [last_time |-> now, last_interval |-> d,
                     jitter_values |-> old.jitter_values \o <<change, change>>]

\* Telemetry follows its stream.
LEMMA UplinkGrows ==
  ASSUME NEW s \in Seq(Nat), NEW d \in Nat, NEW old, UplinkInv(old, s), NEW now, NEW new,
         UplinkStep(old, d, now, new)
  PROVE  UplinkInv(new, Append(s, now)) /\ now \in Nat
<1>a. PICK change : change = IF old.last_interval = None THEN 0 ELSE Difference(d, old.last_interval)
  OBVIOUS
<1>b. /\ now = IF old.last_time = None THEN 0 ELSE old.last_time + d
    /\ new = IF old.last_time = None THEN [old EXCEPT !.last_time = now]
             ELSE [last_time |-> now, last_interval |-> d,
                   jitter_values |-> old.jitter_values \o <<change, change>>]
  BY <1>a DEF UplinkStep
<1> DEFINE g == Gaps(s)
           v == old.jitter_values
<1>1. /\ old = [last_time |-> LastOf(s), last_interval |-> LastOf(g), jitter_values |-> v]
      /\ g \in Seq(Nat) /\ v \in Seq(Nat) /\ Len(v) = 2 * Len(g)
      /\ SumFunction(v) = 2 * SumFunction(Changes(g))
  BY DEF UplinkInv
<1> HIDE DEF g, v
<1>2. old.last_time = LastOf(s) /\ old.last_interval = LastOf(g) /\ old.jitter_values = v
  BY <1>1
<1>3. now = IF LastOf(s) = None THEN 0 ELSE LastOf(s) + d
  BY <1>2, <1>b
<1>4. /\ LastOf(s) = None <=> s = << >>
      /\ now \in Nat /\ LastOf(Append(s, now)) = now
      /\ s = << >> => Gaps(Append(s, now)) = << >> /\ g = << >>
      /\ s # << >> => Gaps(Append(s, now)) = Append(g, d)
      /\ Gaps(Append(s, now)) \in Seq(Nat)
  BY <1>1, <1>3, NextTime DEF g
<1>5. CASE s = << >>
  <2>1. new = [last_time |-> now, last_interval |-> LastOf(g), jitter_values |-> v]
    BY <1>1, <1>2, <1>4, <1>5, <1>b
  <2>2. Gaps(Append(s, now)) = g
    BY <1>4, <1>5
  <2> QED
    BY <1>1, <1>4, <2>1, <2>2 DEF UplinkInv
<1>6. CASE s # << >>
  <2>1. new = [last_time |-> now, last_interval |-> d, jitter_values |-> v \o <<change, change>>]
    BY <1>2, <1>4, <1>6, <1>b
  <2>2. LastOf(Append(g, d)) = d /\ Len(Append(g, d)) = Len(g) + 1
    BY <1>1, LastAppended
  <2>3. change \in Nat /\ SumFunction(Changes(Append(g, d))) = SumFunction(Changes(g)) + change
        /\ SumFunction(Changes(g)) \in Nat
    <3>1. CASE g = << >>
      <4>1. change = 0
        BY <1>2, <1>a, <3>1 DEF LastOf
      <4>2. Changes(g) = << >> /\ Changes(Append(g, d)) = << >>
        BY <1>1, <3>1, ChangesGrow
      <4> QED
        BY <4>1, <4>2, NoSum
    <3>2. CASE g # << >>
      <4>1. Len(g) \in 1 .. Len(g) /\ g[Len(g)] \in Nat
        BY <1>1, <3>2
      <4>2. LastOf(g) = g[Len(g)] /\ g[Len(g)] # None
        BY <3>2, <4>1 DEF LastOf, None
      <4>3. change = Difference(g[Len(g)], d) /\ change \in Nat
        BY <1>2, <1>a, <4>1, <4>2 DEF Difference
      <4>4. Changes(g) \in Seq(Nat) /\ Changes(Append(g, d)) = Append(Changes(g), change)
        BY <1>1, <3>2, <4>3, ChangesGrow
      <4> QED
        BY <4>3, <4>4, SumAppend
    <3> QED
      BY <3>1, <3>2
  <2>4. LET w == v \o <<change, change>>
        IN  w \in Seq(Nat) /\ Len(w) = Len(v) + 2 /\ SumFunction(w) = SumFunction(v) + 2 * change
    <3>1. v \o <<change, change>> = Append(Append(v, change), change)
      BY <1>1, <2>3, TwiceAppended
    <3>2. Append(v, change) \in Seq(Nat) /\ Len(Append(v, change)) = Len(v) + 1
      BY <1>1, <2>3, LastAppended
    <3>3. /\ SumFunction(Append(v, change)) = SumFunction(v) + change /\ SumFunction(v) \in Nat
          /\ SumFunction(Append(Append(v, change), change)) = SumFunction(Append(v, change)) + change
      BY <1>1, <2>3, <3>2, SumAppend
    <3>4. Append(Append(v, change), change) \in Seq(Nat)
          /\ Len(Append(Append(v, change), change)) = Len(v) + 2
      <4>1. Len(Append(Append(v, change), change)) = Len(Append(v, change)) + 1
        BY <2>3, <3>2, LastAppended
      <4>2. Append(Append(v, change), change) \in Seq(Nat)
        BY <2>3, <3>2, LastAppended
      <4>3. Len(v) \in Nat
        BY <1>1
      <4> QED
        BY <3>2, <4>1, <4>2, <4>3
    <3>5. SumFunction(Append(Append(v, change), change)) = SumFunction(v) + 2 * change
      BY <2>3, <3>3
    <3> QED
      BY <3>1, <3>4, <3>5
  <2>5. Len(g) \in Nat
    BY <1>1
  <2> DEFINE w == v \o <<change, change>>
  <2>6. w \in Seq(Nat) /\ Len(w) = 2 * Len(Append(g, d))
        /\ SumFunction(w) = 2 * SumFunction(Changes(Append(g, d)))
    BY <1>1, <2>2, <2>3, <2>4, <2>5
  <2> HIDE DEF w
  <2>7. new = [last_time |-> now, last_interval |-> d, jitter_values |-> w]
    BY <2>1 DEF w
  <2>8. new.jitter_values = w
    <3>1. [last_time |-> now, last_interval |-> d, jitter_values |-> w].jitter_values = w
      OBVIOUS
    <3> QED
      BY <2>7, <3>1, Zenon
  <2> QED
    BY <1>4, <1>6, <2>2, <2>6, <2>7, <2>8 DEF UplinkInv
<1> QED
  BY <1>4, <1>5, <1>6

-----------------------------------------------------------------------------
(* All figures.                                                             *)
\* A record goes to its own stream.
LEMMA GivenStep ==
  ASSUME GivenOK, NEW what \in Streams, NEW d \in Nat, Given(what, d),
         what \in {"jitter", "backlog"} => d \in Durations
  PROVE  /\ GivenOK' /\ given[what] \in Seq(Nat) /\ given'[what] = Append(given[what], d)
         /\ \A w \in Streams \ {what} : given'[w] = given[w]
<1>1. given \in [Streams -> Seq(Nat)] /\ given[what] \in Seq(Nat)
  BY DEF GivenOK
<1>2. given' = [given EXCEPT ![what] = Append(given[what], d)]
  BY DEF Given
<1>3. Append(given[what], d) \in Seq(Nat)
  BY <1>1
<1>4. /\ given' \in [Streams -> Seq(Nat)] /\ given'[what] = Append(given[what], d)
      /\ \A w \in Streams \ {what} : given'[w] = given[w]
  BY <1>1, <1>2, <1>3
<1>5. \A w \in {"jitter", "backlog"} : given'[w] \in Seq(Durations)
  <2> SUFFICES ASSUME NEW w \in {"jitter", "backlog"} PROVE given'[w] \in Seq(Durations)
    OBVIOUS
  <2>1. given[w] \in Seq(Durations) /\ w \in Streams
    BY DEF GivenOK, Streams
  <2>2. CASE w = what
    <3>1. d \in Durations
      BY <2>2
    <3>2. Append(given[w], d) \in Seq(Durations)
      BY <2>1, <3>1
    <3> QED
      BY <1>4, <2>2, <3>2
  <2>3. CASE w # what
    BY <1>4, <2>1, <2>3
  <2> QED
    BY <2>2, <2>3
<1> QED
  BY <1>1, <1>4, <1>5 DEF GivenOK

\* The figures kept start as those of empty streams.
LEMMA InvStarts == Init => SummariesInv
<1> SUFFICES ASSUME Init PROVE SummariesInv
  OBVIOUS
<1>1. \A w \in Streams : given[w] = << >>
  BY DEF Init
<1>2. GivenOK
  <2>1. << >> \in Seq(Nat) /\ << >> \in Seq(Durations)
    OBVIOUS
  <2> QED
    BY <2>1 DEF Init, GivenOK, Streams
<1>3. /\ given["jitter"] = << >> /\ given["backlog"] = << >> /\ given["drift"] = << >>
      /\ given["tracked"] = << >> /\ given["packet"] = << >>
  BY <1>1 DEF Streams
<1>4. JitterMatches(sensor_jitter, given["jitter"]) /\ StatMatches(backlog, given["backlog"])
  BY <1>3, SensorsStart, StatStarts DEF Init
<1>5. DriftInv(drift, given["drift"])
  BY <1>3, AtStart, LimitsAssumption DEF Init, DriftInv, None
<1>6. << >> \in Seq(Nat) /\ Len(<< >>) = 0
  OBVIOUS
<1>7. TrackerInv(tracker, given["tracked"])
  BY <1>3, <1>6, AtStart, LimitsAssumption DEF Init, TrackerInv
<1>8. UplinkInv(uplink, given["packet"])
  <2>1. uplink = [last_time |-> None, last_interval |-> None, jitter_values |-> << >>]
    BY DEF Init
  <2>2. uplink.jitter_values = << >>
    BY <2>1
  <2> QED
    <3>1. /\ LastOf(<< >>) = None /\ Gaps(<< >>) = << >> /\ Changes(<< >>) = << >>
          /\ SumFunction(<< >>) = 0
      BY AtStart, NoSum
    <3>2. uplink = [last_time |-> LastOf(<< >>), last_interval |-> LastOf(Gaps(<< >>)),
                    jitter_values |-> uplink.jitter_values]
      BY <2>1, <2>2, <3>1
    <3>3. /\ Len(uplink.jitter_values) = 2 * Len(Gaps(<< >>))
          /\ SumFunction(uplink.jitter_values) = 2 * SumFunction(Changes(Gaps(<< >>)))
      BY <1>6, <2>2, <3>1
    <3> QED
      BY <1>3, <1>6, <2>2, <3>1, <3>2, <3>3 DEF UplinkInv
<1> QED
  BY <1>2, <1>4, <1>5, <1>7, <1>8 DEF SummariesInv

\* Every record keeps them those of the streams.
LEMMA InvSteps == SummariesInv /\ [Next]_vars => SummariesInv'
<1> SUFFICES ASSUME SummariesInv, [Next]_vars PROVE SummariesInv'
  OBVIOUS
<1>0. GivenOK /\ {"jitter", "backlog", "drift", "tracked", "packet"} = Streams
  BY DEF SummariesInv, Streams
<1>1. ASSUME NEW d \in Durations, NEW name \in Sensors, record_sensor_jitter(name, d) PROVE SummariesInv'
  <2>1. /\ Given("jitter", d) /\ d \in Nat
        /\ UNCHANGED <<backlog, drift, tracker, uplink>>
    BY <1>1, DurationsAssumption DEF record_sensor_jitter
  <2>2. /\ GivenOK' /\ given["jitter"] \in Seq(Nat)
        /\ given'["jitter"] = Append(given["jitter"], d)
        /\ \A w \in Streams \ {"jitter"} : given'[w] = given[w]
    BY <1>0, <2>1, GivenStep DEF Streams
  <2>3. SensorStep(sensor_jitter, name, d, sensor_jitter')
    BY <1>1 DEF record_sensor_jitter, SensorStep
  <2>4. JitterMatches(sensor_jitter', Append(given["jitter"], d))
    BY <2>2, <2>3, SensorsGrow DEF SummariesInv
  <2> QED
    BY <2>1, <2>2, <2>4 DEF SummariesInv, Streams
<1>2. ASSUME NEW d \in Durations, record_backlog(d) PROVE SummariesInv'
  <2>1. /\ Given("backlog", d) /\ d \in Nat /\ backlog' = Recorded(backlog, d)
        /\ UNCHANGED <<sensor_jitter, drift, tracker, uplink>>
    BY <1>2, DurationsAssumption DEF record_backlog
  <2>2. /\ GivenOK' /\ given["backlog"] \in Seq(Nat)
        /\ given'["backlog"] = Append(given["backlog"], d)
        /\ \A w \in Streams \ {"backlog"} : given'[w] = given[w]
    BY <1>0, <2>1, GivenStep DEF Streams
  <2>3. StatMatches(Recorded(backlog, d), Append(given["backlog"], d))
    BY <2>1, <2>2, StatGrows DEF SummariesInv
  <2> QED
    BY <2>1, <2>2, <2>3 DEF SummariesInv, Streams
<1>3. ASSUME NEW d \in Durations, record_drift(d) PROVE SummariesInv'
  <2>1. /\ Given("drift", d) /\ d \in Nat
        /\ drift' = [max |-> IF drift.max = None THEN d ELSE Larger(drift.max, d),
                     min |-> IF drift.min = None THEN d ELSE Smaller(drift.min, d),
                     missed |-> drift.missed + (IF d > DriftLimit THEN 1 ELSE 0)]
        /\ UNCHANGED <<sensor_jitter, backlog, tracker, uplink>>
    BY <1>3, DurationsAssumption DEF record_drift
  <2>2. /\ GivenOK' /\ given["drift"] \in Seq(Nat)
        /\ given'["drift"] = Append(given["drift"], d)
        /\ \A w \in Streams \ {"drift"} : given'[w] = given[w]
    BY <1>0, <2>1, GivenStep DEF Streams
  <2>3. DriftInv(drift', Append(given["drift"], d))
    BY <2>1, <2>2, DriftGrows DEF SummariesInv
  <2> QED
    BY <2>1, <2>2, <2>3 DEF SummariesInv, Streams
<1>4. ASSUME NEW d \in Durations, record(d) PROVE SummariesInv'
  <2> DEFINE now == IF tracker.last_time = None THEN 0 ELSE tracker.last_time + d
             jitter == Difference(d, TrackerInterval)
             kept == IF Len(tracker.jitters) = JitterWindow THEN Tail(tracker.jitters)
                     ELSE tracker.jitters
  <2>1. /\ Given("tracked", now) /\ d \in Nat
        /\ tracker' = IF tracker.last_time = None THEN [tracker EXCEPT !.last_time = now]
                      ELSE [last_time |-> now, jitters |-> Append(kept, jitter),
                            violations |-> tracker.violations
                                               + (IF jitter > JitterTolerance THEN 1 ELSE 0)]
        /\ UNCHANGED <<sensor_jitter, backlog, drift, uplink>>
    BY <1>4, DurationsAssumption DEF record
  <2>2. given["tracked"] \in Seq(Nat) /\ TrackerInv(tracker, given["tracked"])
    BY DEF SummariesInv, GivenOK, Streams
  <2>3. TrackerInv(tracker', Append(given["tracked"], now)) /\ now \in Nat
    BY <2>1, <2>2, TrackerGrows
  <2> HIDE DEF now
  <2>4. /\ GivenOK' /\ given'["tracked"] = Append(given["tracked"], now)
        /\ \A w \in Streams \ {"tracked"} : given'[w] = given[w]
    BY <1>0, <2>1, <2>3, GivenStep DEF Streams
  <2> QED
    BY <2>1, <2>3, <2>4 DEF SummariesInv, Streams
<1>5. ASSUME NEW d \in Durations, TelemetryPacket(d) PROVE SummariesInv'
  <2> DEFINE now == IF uplink.last_time = None THEN 0 ELSE uplink.last_time + d
  <2>1. /\ Given("packet", now) /\ d \in Nat
        /\ UNCHANGED <<sensor_jitter, backlog, drift, tracker>>
    BY <1>5, DurationsAssumption DEF TelemetryPacket
  <2>2. given["packet"] \in Seq(Nat) /\ UplinkInv(uplink, given["packet"])
    BY DEF SummariesInv, GivenOK, Streams
  <2>3. UplinkStep(uplink, d, now, uplink')
    BY <1>5 DEF TelemetryPacket, UplinkStep
  <2> HIDE DEF now
  <2>4. UplinkInv(uplink', Append(given["packet"], now)) /\ now \in Nat
    BY <2>1, <2>2, <2>3, UplinkGrows
  <2>5. /\ GivenOK' /\ given'["packet"] = Append(given["packet"], now)
        /\ \A w \in Streams \ {"packet"} : given'[w] = given[w]
    BY <1>0, <2>1, <2>4, GivenStep DEF Streams
  <2> QED
    BY <2>1, <2>4, <2>5 DEF SummariesInv, Streams
<1>6. CASE UNCHANGED vars
  BY <1>6 DEF vars, SummariesInv, GivenOK
<1> QED
  BY <1>1, <1>2, <1>3, <1>4, <1>5, <1>6 DEF Next

\* What is printed from such figures is what the full record gives.
LEMMA InvImplies == SummariesInv => SummariesMatch
<1> SUFFICES ASSUME SummariesInv PROVE SummariesMatch
  OBVIOUS
<1>0. /\ given["jitter"] \in Seq(Durations) /\ given["backlog"] \in Seq(Durations)
      /\ given["drift"] \in Seq(Nat) /\ given["tracked"] \in Seq(Nat) /\ given["packet"] \in Seq(Nat)
  BY DEF SummariesInv, GivenOK, Streams
<1>1. SensorJitterReport = ReportOf(given["jitter"])
  <2> DEFINE D == DOMAIN sensor_jitter
             maxima == {0} \cup {sensor_jitter[n].max : n \in D}
             minima == {u128_MAX} \cup {sensor_jitter[n].min : n \in D}
             sums == [count |-> SumFunction([n \in D |-> sensor_jitter[n].count]),
                      sum |-> SumFunction([n \in D |-> sensor_jitter[n].sum])]
  <2>1. sensor_jitter \in [D -> StatType]
    BY DEF SummariesInv, JitterMatches
  <2>2. PICK all : /\ StatMatches(all, given["jitter"])
                   /\ all.count = sums.count /\ all.sum = sums.sum
                   /\ IsMax(all.max, maxima) /\ IsMin(all.min, minima)
    BY DEF SummariesInv, JitterMatches
  <2>3. maxima \subseteq Int /\ minima \subseteq Int
    BY <2>1, DurationsAssumption DEF StatType
  <2>4. SensorJitterReport = [avg |-> avg_micros(sums), max |-> Max(maxima),
                              min |-> PrintedMin(Min(minima))]
    BY DEF SensorJitterReport
  <2> HIDE DEF maxima, minima, sums
  <2>5. Max(maxima) = all.max /\ Min(minima) = all.min
    BY <2>2, <2>3, MaxOf, MinOf
  <2>6. avg_micros(sums) = avg_micros(all)
    BY <2>2 DEF avg_micros
  <2>7. [avg |-> avg_micros(all), max |-> all.max, min |-> PrintedMin(all.min)]
          = ReportOf(given["jitter"])
    BY <1>0, <2>2, StatPrints
  <2> QED
    BY <2>4, <2>5, <2>6, <2>7
<1>2. BacklogReport = ReportOf(given["backlog"])
  BY <1>0, StatPrints DEF SummariesInv, BacklogReport
<1>3. DriftMatches
  <2>1. DriftInv(drift, given["drift"]) /\ ToSet(given["drift"]) \subseteq Int
    BY <1>0, SetGrows DEF SummariesInv
  <2>2. given["drift"] # << >> => /\ drift.max = Max(ToSet(given["drift"]))
                                  /\ drift.min = Min(ToSet(given["drift"]))
    BY <2>1, MaxOf, MinOf DEF DriftInv
  <2> QED
    BY <2>1, <2>2 DEF DriftInv, DriftMatches
<1>4. TrackerMatches
  <2>1. tracker = [last_time |-> LastOf(given["tracked"]),
                   jitters |-> Latest(Jitters(Gaps(given["tracked"]))),
                   violations |-> Above(Jitters(Gaps(given["tracked"])), JitterTolerance)]
    BY DEF SummariesInv, TrackerInv
  <2>2. tracker.jitters = Latest(Jitters(Gaps(given["tracked"])))
        /\ tracker.violations = Above(Jitters(Gaps(given["tracked"])), JitterTolerance)
    BY <2>1
  <2> QED
    BY <2>2 DEF TrackerMatches, Latest
<1>5. UplinkMatches
  <2> DEFINE gaps == Gaps(given["packet"])
             v == uplink.jitter_values
             changes == Changes(gaps)
  <2>1. /\ gaps \in Seq(Nat) /\ v \in Seq(Nat) /\ Len(v) = 2 * Len(gaps)
        /\ SumFunction(v) = 2 * SumFunction(changes)
    BY DEF SummariesInv, UplinkInv
  <2>2. changes \in Seq(Nat)
    BY <2>1, ChangesGrow
  <2>3. SumFunction(changes) \in Nat
    BY <2>2, SumAppend
  <2> HIDE DEF gaps, v, changes
  <2>4. CASE gaps = << >>
    <3>1. v = << >>
      BY <2>1, <2>4
    <3> QED
      BY <2>4, <3>1 DEF UplinkMatches, calculate_average_jitter, v, gaps
  <2>5. CASE gaps # << >>
    <3>1. PICK n \in Nat : n = Len(gaps) /\ n # 0
      BY <2>1, <2>5
    <3>2. v # << >>
      BY <2>1, <3>1
    <3>3. (2 * SumFunction(changes)) \div (2 * n) = SumFunction(changes) \div n
      BY <2>3, <3>1, HalvesOfBoth
    <3>4. SumFunction(v) \div Len(v) = SumFunction(changes) \div Len(gaps)
      BY <2>1, <3>1, <3>3
    <3> QED
      BY <2>5, <3>2, <3>4 DEF UplinkMatches, calculate_average_jitter, v, gaps, changes
  <2> QED
    BY <2>4, <2>5
<1> QED
  BY <1>1, <1>2, <1>3, <1>4, <1>5 DEF SummariesMatch

\* Every figure of Summaries, as printed, is the one the full record gives, however many records
\* there are: the sensors' statistics add up (monitor.rs:364), the window keeps
\* the latest jitters (types.rs:50), and pushing each change twice does not
\* change the average (telemetry.rs:94).
THEOREM FiguresAreTheRecords == Spec => []SummariesMatch
  BY InvStarts, InvSteps, InvImplies, PTL DEF Spec
=============================================================================
