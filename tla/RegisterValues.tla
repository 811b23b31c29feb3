--------------------------- MODULE RegisterValues ---------------------------
(***************************************************************************)
(* Numbers and the registers they are kept in: how the controller splits a *)
(* number into 16-bit words and how it reads one from the bytes of a reply *)
(* (number_to_payload, payload_to_number).  A byte has ByteBits bits, so   *)
(* that every width can be tried out on small ones.                        *)
(***************************************************************************)
EXTENDS Integers, Sequences, SequencesExt

CONSTANTS
  ByteBits,   \* 8 in the code
  BitAnd(_, _)   \* the machine's bitwise and

ASSUME ByteBitsAssumption == ByteBits \in Nat \ {0}

Pow2[k \in Nat] == IF k = 0 THEN 1 ELSE 2 * Pow2[k - 1]

ByteSize == Pow2[ByteBits]
WordSize == ByteSize * ByteSize
AllBits == WordSize * WordSize - 1     \* the bitmask 0xFFFFFFFF
SizeOf(words) == Pow2[2 * ByteBits * words]   \* how many numbers that many words tell apart

\* The mask of `width' bits from bit `low'.
Run(low, width) == (Pow2[width] - 1) * Pow2[low]

\* And yields no more than its first argument, and under a run the bits of it in their place.
ASSUME AndAssumption ==
  /\ \A a, b \in 0..AllBits : BitAnd(a, b) \in 0..a
  /\ \A a \in 0..AllBits, low, width \in 0..(4 * ByteBits) : low + width <= 4 * ByteBits =>
       BitAnd(a, Run(low, width)) = ((a \div Pow2[low]) % Pow2[width]) * Pow2[low]

\* A value type: its words, whether it is signed and whether the lowest word comes
\* first.  A float is its 32 bits; the code keeps every number in an int64_t.
ValueType(words, signed, reversed) ==
  [words |-> words, signed |-> signed \/ words = 4, reversed |-> reversed]
ValueTypes == {ValueType(w, s, r) : w \in {1, 2, 4}, s \in BOOLEAN, r \in BOOLEAN}

AsSigned(n, size) == IF n >= size \div 2 THEN n - size ELSE n

HiLo(word) == <<word \div ByteSize, word % ByteSize>>
WordAt(bytes, offset) == bytes[offset + 1] * ByteSize + bytes[offset + 2]
BytesOfWords(words) == [i \in 1..(2 * Len(words)) |-> HiLo(words[(i + 1) \div 2])[2 - (i % 2)]]

\* The words of a number, the highest first unless the type is reversed.
NumberToPayload(value, type) ==
  LET high == [k \in 1..type.words |-> (value \div SizeOf(type.words - k)) % WordSize]
  IN  IF type.reversed THEN Reverse(high) ELSE high

\* The number of the words at a byte offset.
UnsignedAt(bytes, type, offset) ==
  LET word == [k \in 1..type.words |-> WordAt(bytes, offset + 2 * (k - 1))]
      high == IF type.reversed THEN Reverse(word) ELSE word
      number[k \in 0..type.words] == IF k = 0 THEN 0 ELSE number[k - 1] * WordSize + high[k]
  IN  number[type.words]

\* The lowest bit of a mask among the lowest `width` ones, or `width`.
LowestBit(mask, width) ==
  LET set == {p \in 0..(width - 1) : (mask \div Pow2[p]) % 2 = 1}
  IN  IF set = {} THEN width ELSE CHOOSE p \in set : \A q \in set : p <= q

\* mask_and_shift_by_rightbit: the number is widened with its sign to 32 bits, masked,
\* shifted and cut to its own width again.
MaskAndShift(n, type, mask) ==
  LET size   == SizeOf(type.words)
      width  == 2 * ByteBits * type.words
      wide   == IF type.signed /\ n >= size \div 2 THEN n + (AllBits + 1 - size) ELSE n
      result == BitAnd(wide, mask)
      value  == IF result = 0 \/ mask = AllBits THEN result
                ELSE IF LowestBit(mask, width) = width THEN 0
                ELSE result \div Pow2[LowestBit(mask, width)]
  IN  IF type.signed THEN AsSigned(value % size, size) ELSE value % size

\* A reply that is too short reads as 0, and a QWORD is not masked.
PayloadToNumber(bytes, type, offset, mask) ==
  IF Len(bytes) - offset < 2 * type.words THEN 0
  ELSE IF type.words = 4 THEN AsSigned(UnsignedAt(bytes, type, offset), SizeOf(4))
  ELSE MaskAndShift(UnsignedAt(bytes, type, offset), type, mask)
=============================================================================
