---------------------------- MODULE Sender_proofs ----------------------------
(***************************************************************************)
(* The arithmetic of packAndSendFromPtr, for every MTU, header sizes and   *)
(* packet size, and the numbering of superframes for every sequence of     *)
(* calls, accepted and rejected.                                           *)
(***************************************************************************)
EXTENDS Sender, ModuloLemmas, FiniteSetTheorems

LEMMA PayloadSizes ==
    /\ DataPayloadType1 \in Nat /\ DataPayloadType2 \in Nat
    /\ 0 < DataPayloadType2 /\ DataPayloadType2 < DataPayloadType1
    /\ MTU \in Nat /\ SizeofType2 \in Nat /\ U16Mod \in Nat /\ U16Mod > 1
    /\ DataPayloadType2 + SizeofType2 = MTU
  BY SenderAssumption, WidthsAssumption DEF DataPayloadType1, DataPayloadType2

(* Below the limit the number of type1 fragments fits uint16_t with room   *)
(* for one more, and the remainder is less than one of them.               *)
LEMMA CountOfType1 ==
    ASSUME NEW size \in Nat, size <= LargestPacket
    PROVE  /\ OfFragmentNoType1(size) \in Nat
           /\ ReminderData(size) \in Nat /\ ReminderData(size) < DataPayloadType1
           /\ size = OfFragmentNoType1(size) * DataPayloadType1 + ReminderData(size)
           /\ OfFragmentNoType1(size) < U16Max
           /\ Type3Needed(size) => OfFragmentNoType1(size) + 1 < U16Max
<1>. DEFINE P == DataPayloadType1
            q == size \div P
            r == size % P
            lim == U16Max - 1
<1>1. P \in Nat /\ P > 0 /\ DataPayloadType2 \in Nat /\ DataPayloadType2 < P
      /\ lim \in Nat /\ U16Mod = lim + 2 /\ U16Max = lim + 1
  BY PayloadSizes DEF U16Max
<1>2. q \in Int /\ r \in Int /\ size = P * q + r /\ 0 <= r /\ r < P
  BY <1>1, DivMod, size \in Int
<1>3. size <= P * lim + DataPayloadType2
  BY DEF LargestPacket
<1>. HIDE DEF P, q, r, lim
<1>4. q >= 0
  <2>1. SUFFICES ASSUME q <= -1
                 PROVE  FALSE
    BY <1>2
  <2>2. P * (-1 - q) >= 0 /\ P * (-1 - q) = -P - P * q
    BY <1>1, <1>2, <2>1
  <2>. QED
    BY <1>1, <1>2, <2>2
<1>5. q <= lim
  <2>1. SUFFICES ASSUME q >= lim + 1
                 PROVE  FALSE
    BY <1>1, <1>2
  <2>2. P * (q - lim - 1) >= 0 /\ P * (q - lim - 1) = P * q - P * lim - P
    BY <1>1, <1>2, <2>1
  <2>. QED
    BY <1>1, <1>2, <1>3, <2>2
<1>6. q = lim => r <= DataPayloadType2
  BY <1>1, <1>2, <1>3
<1>7. q % U16Mod = q
  BY <1>1, <1>2, <1>4, <1>5, ModIs, q = U16Mod * 0 + q, U16Mod \in Nat, U16Mod > 0, q < U16Mod
<1>8. OfFragmentNoType1(size) = q
  BY <1>7 DEF OfFragmentNoType1, q, P
<1>9. ReminderData(size) = r
  BY <1>1, <1>2, <1>8 DEF ReminderData, P
<1>. QED
  BY <1>1, <1>2, <1>4, <1>5, <1>6, <1>8, <1>9 DEF Type3Needed, P

(* No packet that passes the size check runs into a calculation error.     *)
LEMMA ArithmeticAgrees ==
    ASSUME NEW size \in Nat, size <= LargestPacket
    PROVE  ~CalculationError(size) /\ OfFragmentNo(size) < U16Max
<1>. DEFINE n == OfFragmentNoType1(size)
            r == ReminderData(size)
            x == IF Type3Needed(size) THEN 1 ELSE 0
            np == n * DataPayloadType1
<1>1. n \in Nat /\ r \in Nat /\ x \in {0, 1} /\ np \in Nat
      /\ size = np + r /\ n + x < U16Max
  BY CountOfType1, PayloadSizes, WidthsAssumption DEF U16Max
<1>2. OfFragmentNo(size) = n + x
  <2>1. n + x = U16Mod * 0 + (n + x) /\ n + x < U16Mod /\ n + x \in Nat
        /\ U16Mod \in Nat /\ U16Mod > 0
    BY <1>1, WidthsAssumption DEF U16Max
  <2>. HIDE DEF n, x
  <2>2. (n + x) % U16Mod = n + x
    BY <2>1, ModIs
  <2>. QED
    BY <2>2 DEF OfFragmentNo, n, x
<1>3. DataPointerAtEnd(size) = np + (IF Type3Needed(size) THEN r ELSE 0)
  BY DEF DataPointerAtEnd
<1>. HIDE DEF np, r, n
<1>4. CASE Type3Needed(size)
  <2>1. DataPointerAtEnd(size) = size /\ DataLeftToSend(size) = 0
    BY <1>1, <1>3, <1>4 DEF DataLeftToSend
  <2>. QED
    BY <2>1, <1>1, <1>2, <1>4, PayloadSizes DEF CalculationError, n
<1>5. CASE ~Type3Needed(size)
  <2>1. DataLeftToSend(size) = r
    BY <1>1, <1>3, <1>5 DEF DataLeftToSend
  <2>2. r <= DataPayloadType2
    BY <1>1, <1>5, PayloadSizes DEF Type3Needed, r
  <2>. QED
    BY <2>1, <2>2, <1>1, <1>2, <1>5, PayloadSizes DEF CalculationError, n
<1>. QED
  BY <1>4, <1>5

LEMMA NeverAnError ==
    ASSUME NEW c \in Calls
    PROVE  /\ PackMessage(c) # "internalCalculationError"
           /\ PackMessage(c) = "noError" => c.size <= LargestPacket
<1>1. c.size \in Nat /\ LargestPacket \in Int
  BY CallsAssumption, PayloadSizes DEF LargestPacket, U16Max
<1>2. CASE c.size <= LargestPacket
  BY <1>1, <1>2, ArithmeticAgrees DEF PackMessage
<1>3. CASE c.size > LargestPacket
  BY <1>1, <1>3 DEF PackMessage
<1>. QED
  BY <1>1, <1>2, <1>3

(***************************************************************************)
(* The fragments of a superframe by their position.                        *)
(***************************************************************************)
LastFragmentNo(size) == IF FitsType2(size) THEN 0 ELSE OfFragmentNo(size)

FragmentAt(id, c, sfn, i) ==
    IF FitsType2(c.size) THEN Type2Fragment(id, c, sfn, 0, c.size, 0)
    ELSE IF i < OfFragmentNoType1(c.size) THEN Type1Fragment(id, c, sfn, i)
    ELSE IF i < OfFragmentNo(c.size) THEN Type3Fragment(id, c, sfn)
    ELSE Type2Fragment(id, c, sfn, OfFragmentNo(c.size), DataPayloadType1,
                       DataPointerAtEnd(c.size))

(* How a packet that needs more than one fragment is cut. *)
LEMMA Cut ==
    ASSUME NEW size \in Nat, size <= LargestPacket, ~FitsType2(size)
    PROVE  LET n == OfFragmentNoType1(size)
               r == ReminderData(size)
               np == n * DataPayloadType1
               of == OfFragmentNo(size)
           IN  /\ n \in Nat /\ r \in Nat /\ np \in Nat /\ of \in Nat
               /\ size = np + r /\ r < DataPayloadType1
               /\ of = n + (IF Type3Needed(size) THEN 1 ELSE 0)
               /\ DataPointerAtEnd(size) = np + (IF Type3Needed(size) THEN r ELSE 0)
               /\ r > DataPayloadType2 <=> Type3Needed(size)
               /\ of > 0
<1>. DEFINE n == OfFragmentNoType1(size)
            r == ReminderData(size)
            np == n * DataPayloadType1
            of == OfFragmentNo(size)
<1>1. n \in Nat /\ r \in Nat /\ size = np + r /\ r < DataPayloadType1
  BY CountOfType1
<1>2. np \in Nat
  <2>. HIDE DEF n
  <2>. QED
    BY <1>1, PayloadSizes
<1>3. of = n + (IF Type3Needed(size) THEN 1 ELSE 0)
  BY ArithmeticAgrees DEF CalculationError
<1>4. DataPointerAtEnd(size) = np + (IF Type3Needed(size) THEN r ELSE 0)
  BY DEF DataPointerAtEnd
<1>5. r > DataPayloadType2 <=> Type3Needed(size)
  BY DEF Type3Needed
<1>6. n = 0 => np = 0
  <2>. HIDE DEF n
  <2>. QED
    BY <1>1, PayloadSizes
<1>7. n = 0 => Type3Needed(size)
  BY <1>1, <1>5, <1>6, PayloadSizes DEF FitsType2
<1>. HIDE DEF n, r, np
<1>8. of \in Nat /\ of > 0
  BY <1>1, <1>3, <1>7
<1>. QED
  BY <1>1, <1>2, <1>3, <1>4, <1>5, <1>8 DEF n, r, np

LEMMA FragmentsArePositions ==
    ASSUME NEW id, NEW c, NEW sfn, c.size \in Nat, c.size <= LargestPacket
    PROVE  /\ LastFragmentNo(c.size) \in Nat
           /\ FragmentsOf(id, c, sfn) =
                 {FragmentAt(id, c, sfn, i) : i \in 0 .. LastFragmentNo(c.size)}
<1>1. CASE FitsType2(c.size)
  BY <1>1 DEF LastFragmentNo, FragmentAt, FragmentsOf
<1>2. CASE ~FitsType2(c.size)
  <2>. DEFINE n == OfFragmentNoType1(c.size)
              of == OfFragmentNo(c.size)
              at(i) == FragmentAt(id, c, sfn, i)
              last == Type2Fragment(id, c, sfn, of, DataPayloadType1,
                                    DataPointerAtEnd(c.size))
  <2>1. n \in Nat /\ of \in Nat /\ of = n + (IF Type3Needed(c.size) THEN 1 ELSE 0)
    BY <1>2, Cut
  <2>2. \A i \in 0 .. n - 1 : at(i) = Type1Fragment(id, c, sfn, i)
    BY <1>2, <2>1 DEF FragmentAt
  <2>3. Type3Needed(c.size) => at(n) = Type3Fragment(id, c, sfn)
    BY <1>2, <2>1 DEF FragmentAt
  <2>4. at(of) = last
    BY <1>2, <2>1 DEF FragmentAt
  <2>5. FragmentsOf(id, c, sfn) =
          {Type1Fragment(id, c, sfn, i) : i \in 0 .. n - 1}
            \cup (IF Type3Needed(c.size) THEN {Type3Fragment(id, c, sfn)} ELSE {})
            \cup {last}
    BY <1>2 DEF FragmentsOf
  <2>. HIDE DEF at, last, n, of
  <2>6. 0 .. of = (0 .. n - 1) \cup (IF Type3Needed(c.size) THEN {n} ELSE {}) \cup {of}
    BY <2>1
  <2>7. {at(i) : i \in 0 .. of} = FragmentsOf(id, c, sfn)
    BY <2>1, <2>2, <2>3, <2>4, <2>5, <2>6
  <2>. QED
    BY <1>2, <2>1, <2>7 DEF LastFragmentNo, of, at
<1>. QED
  BY <1>1, <1>2

(* What the fragment at a position carries.                                *)
LEMMA FragmentFacts ==
    ASSUME NEW id, NEW c, NEW sfn, c.size \in Nat, c.size <= LargestPacket,
           NEW i \in 0 .. LastFragmentNo(c.size)
    PROVE  LET f == FragmentAt(id, c, sfn, i)
           IN  /\ f.frag = i /\ f.of = LastFragmentNo(c.size)
               /\ f.id = id /\ f.sfn = sfn /\ f.stream = c.stream
               /\ f.off \in Nat /\ f.len \in Nat
               /\ f.off + f.len <= c.size
               /\ f.len + HeaderSize(f) <= MTU
               /\ f.type \in {1, 2, 3}
               /\ f.type = 2 <=> i = LastFragmentNo(c.size)
<1>. DEFINE f == FragmentAt(id, c, sfn, i)
<1>1. CASE FitsType2(c.size)
  <2>1. i = 0 /\ f = Type2Fragment(id, c, sfn, 0, c.size, 0)
    BY <1>1 DEF LastFragmentNo, FragmentAt
  <2>. QED
    BY <1>1, <2>1, PayloadSizes
       DEF LastFragmentNo, Type2Fragment, HeaderSize, FitsType2
<1>2. CASE ~FitsType2(c.size)
  <2>. DEFINE n == OfFragmentNoType1(c.size)
              r == ReminderData(c.size)
              P == DataPayloadType1
              np == n * P
              of == OfFragmentNo(c.size)
  <2>1. /\ n \in Nat /\ r \in Nat /\ np \in Nat /\ of \in Nat
        /\ c.size = np + r /\ r < P
        /\ of = n + (IF Type3Needed(c.size) THEN 1 ELSE 0)
        /\ DataPointerAtEnd(c.size) = np + (IF Type3Needed(c.size) THEN r ELSE 0)
        /\ r > DataPayloadType2 <=> Type3Needed(c.size)
    BY <1>2, Cut
  <2>2. LastFragmentNo(c.size) = of
    BY <1>2 DEF LastFragmentNo
  <2>3. P \in Nat /\ P = MTU - SizeofType1 /\ DataPayloadType2 = MTU - SizeofType2
        /\ DataPayloadType2 \in Nat /\ DataPayloadType2 < P
        /\ MTU \in Nat /\ SizeofType1 \in Nat /\ SizeofType2 \in Nat
    BY PayloadSizes, SenderAssumption DEF DataPayloadType1, DataPayloadType2
  <2>4. CASE i < n
    <3>1. f = Type1Fragment(id, c, sfn, i)
      BY <1>2, <2>4 DEF FragmentAt
    <3>2. i * P \in Nat /\ i * P + P <= np
      <4>. HIDE DEF n, P
      <4>1. i * P \in Nat /\ (n - 1 - i) * P >= 0
            /\ (n - 1 - i) * P = n * P - P - i * P
        BY <2>1, <2>3, <2>4
      <4>. QED
        BY <2>1, <2>3, <4>1
    <3>3. i < of
      BY <2>1, <2>4
    <3>. HIDE DEF n, r, of, np
    <3>. QED
      BY <3>1, <3>2, <3>3, <2>1, <2>2, <2>3 DEF Type1Fragment, HeaderSize, of
  <2>5. CASE i >= n /\ i < of
    <3>1. f = Type3Fragment(id, c, sfn) /\ Type3Needed(c.size) /\ i = of - 1
      BY <1>2, <2>1, <2>5 DEF FragmentAt
    <3>2. f = [type |-> 3, sfn |-> sfn, stream |-> c.stream,
               frag |-> of - 1, of |-> of, type1PacketSize |-> P,
               off |-> np, len |-> r, id |-> id]
      BY <3>1 DEF Type3Fragment
    <3>3. /\ f.type = 3 /\ f.frag = of - 1 /\ f.of = of /\ f.id = id /\ f.sfn = sfn
          /\ f.stream = c.stream /\ f.off = np /\ f.len = r
      BY <3>2
    <3>4. HeaderSize(f) = SizeofType1
      BY <3>3 DEF HeaderSize
    <3>. HIDE DEF n, r, of, np, P, f
    <3>. QED
      BY <3>1, <3>3, <3>4, <2>1, <2>2, <2>3, <2>5 DEF f
  <2>6. CASE i = of
    <3>1. f = Type2Fragment(id, c, sfn, of, P, DataPointerAtEnd(c.size))
      BY <1>2, <2>1, <2>6 DEF FragmentAt
    <3>2. /\ f.type = 2 /\ f.frag = of /\ f.of = of /\ f.id = id /\ f.sfn = sfn
          /\ f.stream = c.stream /\ f.off = DataPointerAtEnd(c.size)
          /\ f.len = c.size - DataPointerAtEnd(c.size)
      BY <3>1 DEF Type2Fragment
    <3>3. HeaderSize(f) = SizeofType2
      BY <3>2 DEF HeaderSize
    <3>. HIDE DEF n, r, of, np, P, f
    <3>. QED
      BY <3>2, <3>3, <2>1, <2>2, <2>3, <2>6 DEF f
  <2>. QED
    BY <2>1, <2>2, <2>4, <2>5, <2>6
<1>. QED
  BY <1>1, <1>2

(* The bytes of a fragment that carries any begin at a multiple of the     *)
(* payload of a type1 fragment, and are at most that many.                 *)
LEMMA FragmentPlace ==
    ASSUME NEW id, NEW c, NEW sfn, c.size \in Nat, c.size <= LargestPacket,
           NEW i \in 0 .. LastFragmentNo(c.size)
    PROVE  LET f == FragmentAt(id, c, sfn, i)
           IN  /\ f.len > 0 => f.off = i * DataPayloadType1
               /\ ~FitsType2(c.size) => f.len <= DataPayloadType1
               /\ FitsType2(c.size) => f.off = 0 /\ f.len = c.size
               /\ ~FitsType2(c.size) /\ i < OfFragmentNoType1(c.size)
                     => f.off = i * DataPayloadType1 /\ f.len = DataPayloadType1
               /\ ~FitsType2(c.size) /\ i = OfFragmentNoType1(c.size)
                     => f.off = i * DataPayloadType1 /\ f.len = ReminderData(c.size)
<1>. DEFINE f == FragmentAt(id, c, sfn, i)
<1>1. CASE FitsType2(c.size)
  <2>1. i = 0 /\ f = Type2Fragment(id, c, sfn, 0, c.size, 0)
    BY <1>1 DEF LastFragmentNo, FragmentAt
  <2>. QED
    BY <1>1, <2>1, PayloadSizes DEF Type2Fragment
<1>2. CASE ~FitsType2(c.size)
  <2>. DEFINE n == OfFragmentNoType1(c.size)
              r == ReminderData(c.size)
              P == DataPayloadType1
              np == n * P
              of == OfFragmentNo(c.size)
  <2>1. /\ n \in Nat /\ r \in Nat /\ np \in Nat /\ of \in Nat
        /\ c.size = np + r /\ r < P
        /\ of = n + (IF Type3Needed(c.size) THEN 1 ELSE 0)
        /\ DataPointerAtEnd(c.size) = np + (IF Type3Needed(c.size) THEN r ELSE 0)
    BY <1>2, Cut
  <2>2. LastFragmentNo(c.size) = of /\ P \in Nat
    BY <1>2, PayloadSizes DEF LastFragmentNo
  <2>4. CASE i < n
    <3>1. f = Type1Fragment(id, c, sfn, i)
      BY <1>2, <2>4 DEF FragmentAt
    <3>. QED
      BY <1>2, <2>1, <2>2, <2>4, <3>1 DEF Type1Fragment
  <2>5. CASE i >= n /\ i < of
    <3>1. f = Type3Fragment(id, c, sfn) /\ i = n
      BY <1>2, <2>1, <2>5 DEF FragmentAt
    <3>2. f.off = np /\ f.len = r
      BY <3>1 DEF Type3Fragment
    <3>3. np = i * P /\ f.off = i * P /\ f.len = r /\ i = n
      BY <3>1, <3>2
    <3>. QED
      BY <1>2, <2>1, <2>2, <3>3
  <2>6. CASE i = of
    <3>1. f = Type2Fragment(id, c, sfn, of, P, DataPointerAtEnd(c.size))
      BY <1>2, <2>1, <2>6 DEF FragmentAt
    <3>2. f.off = DataPointerAtEnd(c.size) /\ f.len = c.size - DataPointerAtEnd(c.size)
      BY <3>1 DEF Type2Fragment
    <3>3. CASE Type3Needed(c.size)
      <4>1. f.len = 0 /\ i > n
        BY <2>1, <2>6, <3>2, <3>3
      <4>. QED
        BY <1>2, <2>1, <2>2, <4>1
    <3>4. CASE ~Type3Needed(c.size)
      <4>1. f.len = r /\ f.off = np /\ i = n /\ np = i * P
        BY <2>1, <2>6, <3>2, <3>4
      <4>2. f.off = i * P
        BY <4>1
      <4>. QED
        BY <1>2, <2>1, <2>2, <4>1, <4>2
    <3>. QED
      BY <3>3, <3>4
  <2>. QED
    BY <2>1, <2>2, <2>4, <2>5, <2>6
<1>. QED
  BY <1>1, <1>2

(* The place of a byte among pieces of P bytes, the last of them r long.   *)
LEMMA PieceOfByte ==
    ASSUME NEW P \in Nat, P > 0, NEW n \in Nat, NEW r \in Nat, r < P,
           NEW b \in Nat, b < n * P + r
    PROVE  LET k == b \div P
           IN  /\ k \in 0 .. n
               /\ k * P \in Nat /\ k * P <= b /\ b < k * P + P
               /\ k = n => b < k * P + r
<1>. DEFINE k == b \div P
<1>1. k \in Int /\ \E d \in Int : b = P * k + d /\ 0 <= d /\ d < P
  BY DivMod, b \in Int
<1>. HIDE DEF k
<1>2. k >= 0
  <2>. SUFFICES ASSUME k <= -1 PROVE FALSE
    BY <1>1
  <2>1. P * (-1 - k) >= 0 /\ P * (-1 - k) = -P - P * k
    BY <1>1
  <2>. QED
    BY <1>1, <2>1
<1>3. k <= n
  <2>. SUFFICES ASSUME k >= n + 1 PROVE FALSE
    BY <1>1
  <2>1. P * (k - n - 1) >= 0 /\ P * (k - n - 1) = P * k - n * P - P
    BY <1>1
  <2>2. P * k >= n * P + P
    BY <1>1, <2>1
  <2>. QED
    BY <1>1, <2>2
<1>4. k \in 0 .. n /\ k * P = P * k /\ k * P \in Nat
  BY <1>1, <1>2, <1>3
<1>5. k = n => b < k * P + r
  OBVIOUS
<1>. QED
  BY <1>1, <1>4, <1>5 DEF k

(* Byte b of a packet that is cut is carried by fragment b \div P alone.   *)
Carriers(F, b) == {f \in F : f.off <= b /\ b < f.off + f.len}

LEMMA ByteOnce ==
    ASSUME NEW id, NEW c, NEW sfn, c.size \in Nat, c.size <= LargestPacket,
           NEW b \in 0 .. c.size - 1
    PROVE  Cardinality(Carriers(FragmentsOf(id, c, sfn), b)) = 1
<1>. DEFINE at(i) == FragmentAt(id, c, sfn, i)
            last == LastFragmentNo(c.size)
            P == DataPayloadType1
<1>1. last \in Nat /\ FragmentsOf(id, c, sfn) = {at(i) : i \in 0 .. last}
  BY FragmentsArePositions
<1>2. CASE FitsType2(c.size)
  <2>1. last = 0 /\ at(0).off = 0 /\ at(0).len = c.size
    BY <1>2, FragmentPlace, <1>1 DEF LastFragmentNo
  <2>. HIDE DEF at, last
  <2>2. Carriers(FragmentsOf(id, c, sfn), b) = {at(0)}
    BY <1>1, <2>1 DEF Carriers
  <2>. QED
    BY <2>2, FS_Singleton
<1>3. CASE ~FitsType2(c.size)
  <2>. DEFINE n == OfFragmentNoType1(c.size)
              r == ReminderData(c.size)
              k == b \div P
  <2>1. P \in Nat /\ P > 0 /\ b \in Nat
    BY PayloadSizes
  <2>3. /\ n \in Nat /\ r \in Nat /\ n * P \in Nat
        /\ c.size = n * P + r /\ r < P /\ n <= last
    BY <1>3, Cut DEF LastFragmentNo
  <2>4. /\ k \in 0 .. n
        /\ k * P \in Nat /\ k * P <= b /\ b < k * P + P
        /\ k = n => b < k * P + r
    <3>1. b < n * P + r
      BY <2>3
    <3>. HIDE DEF n, P, r
    <3>. QED
      BY <2>1, <2>3, <3>1, PieceOfByte
  <2>. HIDE DEF k
  <2>6. k \in 0 .. last /\ k \in Nat
    BY <2>3, <2>4, <1>1
  <2>7. at(k).off <= b /\ b < at(k).off + at(k).len
    <3>1. CASE k < n
      <4>1. at(k).off = k * P /\ at(k).len = P
        BY <1>3, <2>6, <3>1, FragmentPlace
      <4>. QED
        BY <2>4, <4>1
    <3>2. CASE k = n
      <4>1. at(k).off = k * P /\ at(k).len = r
        BY <1>3, <2>6, <3>2, FragmentPlace
      <4>. QED
        BY <2>4, <3>2, <4>1
    <3>. QED
      BY <2>3, <2>4, <3>1, <3>2
  <2>8. ASSUME NEW i \in 0 .. last, at(i).off <= b, b < at(i).off + at(i).len
        PROVE  i = k
    <3>1. at(i).off \in Nat /\ at(i).len \in Nat
      BY FragmentFacts
    <3>2. at(i).off = i * P /\ at(i).len <= P
      BY <1>3, <2>8, <3>1, FragmentPlace
    <3>. HIDE DEF at, P, last
    <3>3. i \in Int /\ b - i * P \in Int /\ b = P * i + (b - i * P)
          /\ 0 <= b - i * P /\ b - i * P < P
      BY <1>1, <2>1, <2>8, <3>1, <3>2
    <3>4. k \in Int /\ b - k * P \in Int /\ b = P * k + (b - k * P)
          /\ 0 <= b - k * P /\ b - k * P < P
      BY <2>1, <2>4, <2>6
    <3>. QED
      BY <2>1, <3>3, <3>4, DivModUnique
  <2>. HIDE DEF at, last
  <2>9. Carriers(FragmentsOf(id, c, sfn), b) = {at(k)}
    BY <1>1, <2>6, <2>7, <2>8 DEF Carriers
  <2>. QED
    BY <2>9, FS_Singleton
<1>. QED
  BY <1>2, <1>3

LEMMA PacketCovered ==
    ASSUME NEW id, NEW c, NEW sfn, c.size \in Nat, c.size <= LargestPacket
    PROVE  LET F == FragmentsOf(id, c, sfn)
           IN  /\ \A f \in F : f.len + HeaderSize(f) <= MTU
               /\ \A f \in F : {g \in F : g.frag = f.frag} = {f}
               /\ \A f \in F : {g.frag : g \in F} = 0 .. f.of
               /\ \A b \in 0 .. c.size - 1 :
                     Cardinality({f \in F : f.off <= b /\ b < f.off + f.len}) = 1
               /\ \A f \in F : f.off + f.len <= c.size
<1>. DEFINE F == FragmentsOf(id, c, sfn)
            at(i) == FragmentAt(id, c, sfn, i)
            last == LastFragmentNo(c.size)
<1>1. last \in Nat /\ F = {at(i) : i \in 0 .. last}
  BY FragmentsArePositions
<1>2. \A i \in 0 .. last : /\ at(i).frag = i /\ at(i).of = last
                           /\ at(i).off + at(i).len <= c.size
                           /\ at(i).len + HeaderSize(at(i)) <= MTU
  BY FragmentFacts
<1>3. ASSUME NEW b \in 0 .. c.size - 1
      PROVE  Cardinality({f \in F : f.off <= b /\ b < f.off + f.len}) = 1
  BY ByteOnce DEF Carriers
<1>. HIDE DEF F, at, last
<1>4. \A f \in F : {g \in F : g.frag = f.frag} = {f}
  BY <1>1, <1>2
<1>5. {g.frag : g \in F} = 0 .. last
  BY <1>1, <1>2
<1>6. \A f \in F : {g.frag : g \in F} = 0 .. f.of
  BY <1>1, <1>2, <1>5
<1>7. \A f \in F : f.len + HeaderSize(f) <= MTU /\ f.off + f.len <= c.size
  BY <1>1, <1>2
<1>. QED
  BY <1>3, <1>4, <1>6, <1>7 DEF F

(***************************************************************************)
(* The inductive invariant.  Its last conjunct is what NumbersConsecutive  *)
(* lacks to be inductive: the generator stands behind the last number.     *)
(***************************************************************************)
LastNumbered ==
    \A s \in Sources : sent[s] # <<>> =>
        mSuperFrameNoGenerator[s] = (sent[s][Len(sent[s])].sfn + 1) % U16Mod

(* Each superframe is numbered by its distance from the first one.         *)
NumberedFromFirst ==
    \A s \in Sources : sent[s] # <<>> =>
        /\ \A n \in 1 .. Len(sent[s]) :
              sent[s][n].sfn = (sent[s][1].sfn + n - 1) % U16Mod
        /\ mSuperFrameNoGenerator[s] = (sent[s][1].sfn + Len(sent[s])) % U16Mod

(* What was sent had passed the checks. *)
SentFit ==
    \A s \in Sources : \A n \in 1 .. Len(sent[s]) :
        PackMessage(sent[s][n].call) = "noError"

SenderIInv ==
    /\ mSuperFrameNoGenerator \in [Sources -> U16]
    /\ sent \in [Sources -> Seq(SentFrame)]
    /\ \A s \in Sources : Len(sent[s]) <= MaxFrames
    /\ NoCalculationError
    /\ SentFit
    /\ NumbersConsecutive
    /\ LastNumbered
    /\ NumberedFromFirst

LEMMA SentCall ==
    ASSUME SenderIInv, NEW s \in Sources, NEW n \in 1 .. Len(sent[s])
    PROVE  /\ sent[s][n] \in SentFrame
           /\ sent[s][n].call \in Calls
           /\ sent[s][n].call.size \in Nat
           /\ sent[s][n].call.size <= LargestPacket
           /\ PackMessage(sent[s][n].call) = "noError"
<1>1. sent[s] \in Seq(SentFrame)
  BY DEF SenderIInv
<1>2. sent[s][n] \in SentFrame
  BY <1>1
<1>3. sent[s][n].call \in Calls
  BY <1>2 DEF SentFrame
<1>4. sent[s][n].call.size \in Nat
  BY <1>3, CallsAssumption
<1>5. PackMessage(sent[s][n].call) = "noError"
  BY DEF SenderIInv, SentFit
<1>. QED
  BY <1>2, <1>3, <1>4, <1>5, NeverAnError

LEMMA SenderIInvInit == SenderInit => SenderIInv
<1>. SUFFICES ASSUME SenderInit
              PROVE  SenderIInv
  OBVIOUS
<1>1. 0 \in U16 /\ <<>> \in Seq(SentFrame) /\ Len(<<>>) = 0 /\ 0 <= MaxFrames
  BY WidthsAssumption, SenderAssumption DEF U16, U16Max
<1>. QED
  BY <1>1 DEF SenderInit, SenderIInv, NoCalculationError, SentFit,
              NumbersConsecutive, LastNumbered, NumberedFromFirst

LEMMA Increment ==
    ASSUME NEW x \in U16
    PROVE  (x + 1) % U16Mod \in U16
  BY WidthsAssumption, DivMod, x + 1 \in Int DEF U16, U16Max

(* An accepted call appends one superframe and moves the generator.        *)
LEMMA AcceptedKeepsSenderIInv ==
    ASSUME SenderIInv, NEW s \in Sources, NEW c \in Calls, NEW at \in Nat,
           PackAndSendAccepted(s, c, at)
    PROVE  SenderIInv'
<1>. DEFINE g == mSuperFrameNoGenerator[s]
            frame == [call |-> c, sfn |-> g, at |-> at]
            len == Len(sent[s])
<1>1. g \in U16 /\ frame \in SentFrame /\ len \in Nat /\ len < MaxFrames
      /\ sent[s] \in Seq(SentFrame)
  <2>1. g \in U16 /\ sent[s] \in Seq(SentFrame)
    BY DEF SenderIInv
  <2>2. frame \in SentFrame
    BY <2>1 DEF SentFrame
  <2>3. len < MaxFrames
    BY DEF PackAndSendAccepted
  <2>4. len \in Nat
    BY <2>1
  <2>. QED
    BY <2>1, <2>2, <2>3, <2>4
<1>2. /\ mSuperFrameNoGenerator' = [mSuperFrameNoGenerator EXCEPT ![s] = (g + 1) % U16Mod]
      /\ sent' = [sent EXCEPT ![s] = Append(sent[s], frame)]
      /\ sendMessage' = "noError"
      /\ PackMessage(c) = "noError"
  BY DEF PackAndSendAccepted
<1>3. (g + 1) % U16Mod \in U16
  BY <1>1, Increment
<1>4. /\ sent'[s] \in Seq(SentFrame) /\ Len(sent'[s]) = len + 1
      /\ sent'[s][len + 1] = frame
      /\ \A n \in 1 .. len : sent'[s][n] = sent[s][n]
  BY <1>1, <1>2 DEF SenderIInv
<1>5. \A t \in Sources : t # s => sent'[t] = sent[t]
          /\ mSuperFrameNoGenerator'[t] = mSuperFrameNoGenerator[t]
  BY <1>2 DEF SenderIInv
<1>. HIDE DEF frame
<1>6. /\ mSuperFrameNoGenerator' \in [Sources -> U16]
      /\ sent' \in [Sources -> Seq(SentFrame)]
      /\ \A t \in Sources : Len(sent'[t]) <= MaxFrames
  BY <1>1, <1>2, <1>3, <1>4, <1>5, SenderAssumption DEF SenderIInv
<1>7. NoCalculationError'
  BY <1>2 DEF NoCalculationError
<1>8. SentFit'
  <2>. SUFFICES ASSUME NEW t \in Sources, NEW n \in 1 .. Len(sent'[t])
                PROVE  PackMessage(sent'[t][n].call) = "noError"
    BY DEF SentFit
  <2>1. CASE t = s /\ n = len + 1
    BY <2>1, <1>2, <1>4, NeverAnError DEF frame
  <2>2. CASE ~(t = s /\ n = len + 1)
    <3>1. n \in 1 .. Len(sent[t]) /\ sent'[t][n] = sent[t][n]
      BY <2>2, <1>1, <1>4, <1>5
    <3>. QED
      BY <3>1 DEF SenderIInv, SentFit
  <2>. QED
    BY <2>1, <2>2
<1>9. NumbersConsecutive'
  <2>. SUFFICES ASSUME NEW t \in Sources, NEW n \in 1 .. Len(sent'[t]) - 1
                PROVE  sent'[t][n + 1].sfn = (sent'[t][n].sfn + 1) % U16Mod
    BY DEF NumbersConsecutive
  <2>1. CASE t = s /\ n = len
    <3>1. sent[s] # <<>> /\ len \in 1 .. len
      BY <2>1, <1>1, <1>4
    <3>2. g = (sent[s][len].sfn + 1) % U16Mod
      BY <3>1 DEF SenderIInv, LastNumbered
    <3>. QED
      BY <2>1, <3>1, <3>2, <1>4 DEF frame
  <2>2. CASE t = s /\ n # len
    <3>1. n \in 1 .. len - 1 /\ n \in 1 .. len /\ n + 1 \in 1 .. len
      BY <2>2, <1>1, <1>4
    <3>. QED
      BY <2>2, <3>1, <1>4 DEF SenderIInv, NumbersConsecutive
  <2>3. CASE t # s
    BY <2>3, <1>5 DEF SenderIInv, NumbersConsecutive
  <2>. QED
    BY <2>1, <2>2, <2>3
<1>10. LastNumbered'
  <2>1. mSuperFrameNoGenerator'[s] = (sent'[s][len + 1].sfn + 1) % U16Mod
    BY <1>2, <1>4 DEF SenderIInv, frame
  <2>. QED
    BY <2>1, <1>4, <1>5 DEF SenderIInv, LastNumbered
<1>11. /\ \A n \in 1 .. len + 1 :
             sent'[s][n].sfn = (sent'[s][1].sfn + n - 1) % U16Mod
       /\ mSuperFrameNoGenerator'[s] = (sent'[s][1].sfn + (len + 1)) % U16Mod
  <2>1. CASE len = 0
    <3>1. sent'[s][1].sfn = g /\ Len(sent'[s]) = 1
      BY <2>1, <1>4 DEF frame
    <3>2. (g + 1 - 1) % U16Mod = g
      <4>. g = U16Mod * 0 + g /\ g + 1 - 1 = g /\ g < U16Mod /\ 0 <= g /\ g \in Int
           /\ U16Mod \in Nat /\ U16Mod > 0
        BY <1>1, WidthsAssumption DEF U16, U16Max
      <4>. HIDE DEF g
      <4>. QED
        BY ModIs
    <3>3. mSuperFrameNoGenerator'[s] = (g + 1) % U16Mod
      BY <1>2 DEF SenderIInv
    <3>. HIDE DEF g
    <3>. QED
      BY <2>1, <3>1, <3>2, <3>3
  <2>2. CASE len # 0
    <3>. DEFINE first == sent[s][1].sfn
    <3>1. sent[s] # <<>> /\ 1 \in 1 .. len /\ sent'[s][1] = sent[s][1]
      BY <2>2, <1>1, <1>4
    <3>2. g = (first + len) % U16Mod
      BY <3>1 DEF SenderIInv, NumberedFromFirst
    <3>3. first \in Int
      <4>1. sent[s][1] \in SentFrame
        BY <1>1, <3>1
      <4>. QED
        BY <4>1, WidthsAssumption DEF SentFrame, U16, U16Max
    <3>4. (g + 1) % U16Mod = (first + (len + 1)) % U16Mod
      <4>. HIDE DEF first, g, len
      <4>1. (((first + len) % U16Mod) + 1) % U16Mod = (first + len + 1) % U16Mod
        BY <3>3, <1>1, ModAdd, WidthsAssumption, first + len \in Int
      <4>. QED
        BY <4>1, <3>2, <3>3, <1>1
    <3>5. mSuperFrameNoGenerator'[s] = (g + 1) % U16Mod
      BY <1>2 DEF SenderIInv
    <3>6. ASSUME NEW n \in 1 .. len + 1
          PROVE  sent'[s][n].sfn = (first + n - 1) % U16Mod
      <4>1. CASE n = len + 1
        BY <4>1, <1>1, <1>4, <3>2, <3>3, first + (len + 1) - 1 = first + len DEF frame
      <4>2. CASE n # len + 1
        <5>1. n \in 1 .. len /\ sent'[s][n] = sent[s][n]
          BY <4>2, <1>1, <1>4
        <5>. QED
          BY <5>1, <3>1 DEF SenderIInv, NumberedFromFirst
      <4>. QED
        BY <4>1, <4>2
    <3>. HIDE DEF first, g
    <3>. QED
      BY <3>1, <3>4, <3>5, <3>6 DEF first
  <2>. QED
    BY <2>1, <2>2
<1>12. NumberedFromFirst'
  <2>1. ASSUME NEW t \in Sources, t # s, sent'[t] # <<>>
        PROVE  /\ \A n \in 1 .. Len(sent'[t]) :
                     sent'[t][n].sfn = (sent'[t][1].sfn + n - 1) % U16Mod
               /\ mSuperFrameNoGenerator'[t]
                     = (sent'[t][1].sfn + Len(sent'[t])) % U16Mod
    BY <2>1, <1>5 DEF SenderIInv, NumberedFromFirst
  <2>. QED
    BY <2>1, <1>4, <1>11 DEF NumberedFromFirst
<1>. QED
  BY <1>6, <1>7, <1>8, <1>9, <1>10, <1>12 DEF SenderIInv

(* setSuperFrameNo moves a generator that has numbered nothing yet.        *)
LEMMA NumberKeepsSenderIInv ==
    ASSUME SenderIInv, NEW s \in Sources, NEW n \in StartNumbers,
           SetSuperFrameNo(s, n)
    PROVE  SenderIInv'
<1>1. n \in U16
  BY SenderAssumption
<1>. QED
  BY <1>1 DEF SetSuperFrameNo, SenderIInv, NoCalculationError, SentFit,
              NumbersConsecutive, LastNumbered, NumberedFromFirst

LEMMA SenderIInvNext == SenderIInv /\ [SenderNext]_senderVars => SenderIInv'
<1>. SUFFICES ASSUME SenderIInv, [SenderNext]_senderVars
              PROVE  SenderIInv'
  OBVIOUS
<1>1. ASSUME NEW s \in Sources, NEW n \in StartNumbers, SetSuperFrameNo(s, n)
      PROVE  SenderIInv'
  BY <1>1, NumberKeepsSenderIInv
<1>2. ASSUME NEW s \in Sources, NEW c \in Calls, PackAndSendRejected(s, c)
      PROVE  SenderIInv'
  BY <1>2, NeverAnError DEF PackAndSendRejected, SenderIInv, NoCalculationError,
          SentFit, NumbersConsecutive, LastNumbered, NumberedFromFirst
<1>3. ASSUME NEW s \in Sources, NEW c \in Calls, PackAndSendAccepted(s, c, 0)
      PROVE  SenderIInv'
  BY <1>3, AcceptedKeepsSenderIInv, 0 \in Nat
<1>4. CASE UNCHANGED senderVars
  BY <1>4 DEF senderVars, SenderIInv, NoCalculationError,
          SentFit, NumbersConsecutive, LastNumbered, NumberedFromFirst
<1>. QED
  BY <1>1, <1>2, <1>3, <1>4 DEF SenderNext

(* No number is used twice within U16Mod superframes of a sender.          *)
LEMMA NumbersDiffer ==
    ASSUME SenderIInv, MaxFrames <= U16Mod, NEW s \in Sources,
           NEW n \in 1 .. Len(sent[s]), NEW m \in 1 .. Len(sent[s]),
           sent[s][n].sfn = sent[s][m].sfn
    PROVE  n = m
<1>. DEFINE first == sent[s][1].sfn
            a == (first + n - 1) \div U16Mod
            b == (first + m - 1) \div U16Mod
            x == (first + n - 1) % U16Mod
<1>1. Len(sent[s]) \in Nat /\ Len(sent[s]) <= MaxFrames /\ sent[s] # <<>>
      /\ 1 \in 1 .. Len(sent[s]) /\ MaxFrames \in Nat
  BY SenderAssumption DEF SenderIInv
<1>2. first \in Int
  BY <1>1, SentCall, WidthsAssumption DEF SentFrame, U16, U16Max
<1>3. x = (first + m - 1) % U16Mod
  BY <1>1 DEF SenderIInv, NumberedFromFirst
<1>4. a \in Int /\ b \in Int /\ x \in Int
      /\ first + n - 1 = U16Mod * a + x /\ first + m - 1 = U16Mod * b + x
  <2>1. U16Mod \in Nat /\ U16Mod > 0 /\ first + n - 1 \in Int /\ first + m - 1 \in Int
    BY <1>1, <1>2, WidthsAssumption
  <2>. HIDE DEF first
  <2>. QED
    BY <2>1, <1>3, DivMod
<1>. HIDE DEF first, a, b, x
<1>5. n - m = U16Mod * (a - b) /\ -U16Mod < n - m /\ n - m < U16Mod
  BY <1>1, <1>2, <1>4, WidthsAssumption
<1>6. a - b = 0
  BY <1>4, <1>5, WidthsAssumption
<1>. QED
  BY <1>5, <1>6, WidthsAssumption

(* Whatever calls are made, none of them runs into a calculation error.    *)
THEOREM NoCalculationErrorAlways == SenderSpec => []NoCalculationError
<1>1. SenderIInv => NoCalculationError
  BY DEF SenderIInv
<1>. QED
  BY SenderIInvInit, SenderIInvNext, <1>1, PTL DEF SenderSpec

(* The fragments of every superframe that is sent carry its packet exactly *)
(* once and fit the MTU.                                                   *)
THEOREM FragmentsCoverPacketAlways == SenderSpec => []FragmentsCoverPacket
<1>1. SenderIInv => FragmentsCoverPacket
  <2>. SUFFICES ASSUME SenderIInv, NEW s \in Sources, NEW n \in 1 .. Len(sent[s])
                PROVE  LET F == SentFragments(s, n)
                           size == sent[s][n].call.size
                       IN  /\ \A f \in F : f.len + HeaderSize(f) <= MTU
                           /\ \A f \in F : {g \in F : g.frag = f.frag} = {f}
                           /\ \A f \in F : {g.frag : g \in F} = 0 .. f.of
                           /\ \A b \in 0 .. size - 1 :
                                 Cardinality({f \in F : f.off <= b /\ b < f.off + f.len}) = 1
                           /\ \A f \in F : f.off + f.len <= size
    BY DEF FragmentsCoverPacket
  <2>1. sent[s][n].call.size \in Nat /\ sent[s][n].call.size <= LargestPacket
    BY SentCall
  <2>. QED
    BY <2>1, PacketCovered DEF SentFragments
<1>. QED
  BY SenderIInvInit, SenderIInvNext, <1>1, PTL DEF SenderSpec

(* Every fragment position is an index of the receiver's bitset.           *)
THEOREM FragmentNoFitsBitsetAlways == SenderSpec => []FragmentNoFitsBitset
<1>1. SenderIInv => FragmentNoFitsBitset
  <2>. SUFFICES ASSUME SenderIInv, NEW s \in Sources, NEW n \in 1 .. Len(sent[s])
                PROVE  OfFragmentNo(sent[s][n].call.size) < U16Max
    BY DEF FragmentNoFitsBitset
  <2>. QED
    BY SentCall, ArithmeticAgrees, CallsAssumption
<1>. QED
  BY SenderIInvInit, SenderIInvNext, <1>1, PTL DEF SenderSpec

(* No call uses up a superframe number unless it sends the superframe.     *)
THEOREM NumbersConsecutiveAlways == SenderSpec => []NumbersConsecutive
<1>1. SenderIInv => NumbersConsecutive
  BY DEF SenderIInv
<1>. QED
  BY SenderIInvInit, SenderIInvNext, <1>1, PTL DEF SenderSpec

(* Numbers stay 16 bit wide and what went out stays a sequence of calls of *)
(* packAndSend, whichever of them were rejected.                           *)
THEOREM SenderTypeOKAlways == SenderSpec => []SenderTypeOK
<1>1. SenderIInv => SenderTypeOK
  BY DEF SenderIInv, SenderTypeOK
<1>. QED
  BY SenderIInvInit, SenderIInvNext, <1>1, PTL DEF SenderSpec
=============================================================================
