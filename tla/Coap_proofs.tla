----------------------------- MODULE Coap_proofs -----------------------------
(***************************************************************************)
(* What is proved of the codec, for every width of a nibble that is at     *)
(* least 4 and every message:                                              *)
(*   - what the master reads of a message is the message, with its options *)
(*     in order and its payload, if the lengths of its options are all     *)
(*     written as they should be (DecodeEncode), and the slave then reads  *)
(*     the same but for one byte of the payload (SlaveDecodeEncode);       *)
(*   - a message whose option has 13 to 255 bytes is not understood when   *)
(*     the C++ master sends it (LongOptionNotRead);                        *)
(*   - the size computed before is the one written (EncodedSizeExact);     *)
(*   - integers are read as they were written (BytesUintOfUintBytes).      *)
(*                                                                         *)
(* The functions of module Coap are recursive on positions and numbers.    *)
(* That they exist, and what they are at each place, is proved by          *)
(* induction, in the form of lemma NatSet: a set of numbers that has 0     *)
(* and is closed by successor has them all.                                *)
(***************************************************************************)
EXTENDS Coap, SequenceTheorems, WellFoundedInduction, TLAPS

\* An option, and a message: any code, any value and any payload
Option == [code : Nat, val : Seq(Nat)]

IsMessage(m) == m.opts \in Seq(Option) /\ m.payload \in Seq(Nat)

\* The limits follow from the width of a nibble.
LEMMA Limits ==
  /\ Nib \in Nat /\ Nib >= 4
  /\ Byte \in Nat /\ Byte >= 4 * Nib
  /\ T1 \in Nat /\ T1 = Nib - 3 /\ T1 >= 1
  /\ T2 \in Nat /\ T2 = T1 + Byte
  /\ Marker = Byte - 1
  <1>1. Nib \in Nat /\ Nib >= 4
    BY NibAssumption
  <1>2. Nib * Nib \in Nat /\ Nib * Nib >= 4 * Nib
    BY <1>1
  <1> QED BY <1>1, <1>2 DEF Byte, T1, T2, Marker

\* A set of natural numbers that has 0 and the successor of each of its elements has
\* them all: the form of induction that the proofs of this module use.
LEMMA NatSet ==
  ASSUME NEW S, 0 \in S, \A n \in Nat : n \in S => n + 1 \in S
  PROVE  Nat \subseteq S
  <1> SUFFICES ASSUME Nat \ S # {}
               PROVE  FALSE
    OBVIOUS
  <1> DEFINE R == {ss \in Nat \X Nat : ss[1] < ss[2]}
             T == Nat \ S
  <1>1. IsWellFoundedOn(R, Nat)
    BY NatLessThanWellFounded DEF OpToRel
  <1>2. \A x, y \in Nat : y < x => <<y, x>> \in R
    OBVIOUS
  <1>3. T \subseteq Nat /\ T # {}
    OBVIOUS
  <1> HIDE DEF R
  <1>4. PICK x \in T : \A y \in T : ~ (<<y, x>> \in R)
    <2> HIDE DEF T
    <2> QED BY <1>1, <1>3, WFMin
  <1>5. x # 0 /\ x - 1 \in Nat /\ x - 1 < x /\ (x - 1) + 1 = x
    OBVIOUS
  <1>6. x - 1 \in S
    BY <1>2, <1>4, <1>5
  <1> QED BY <1>4, <1>5, <1>6

\* The minimum of a set of natural numbers is in the set.
LEMMA LeastOf ==
  ASSUME NEW S \in SUBSET Nat, S # {}
  PROVE  /\ Min(S) \in S
         /\ \A y \in S : Min(S) <= y
  <1> DEFINE R == {ss \in Nat \X Nat : ss[1] < ss[2]}
  <1>1. IsWellFoundedOn(R, Nat)
    BY NatLessThanWellFounded DEF OpToRel
  <1>2. \A x, y \in Nat : y < x => <<y, x>> \in R
    OBVIOUS
  <1> HIDE DEF R
  <1>3. PICK x \in S : \A y \in S : ~ (<<y, x>> \in R)
    BY <1>1, WFMin
  <1>4. \A y \in S : x <= y
    <2>1. \A y \in S : y \in Nat /\ x \in Nat /\ ~ (y < x)
      BY <1>2, <1>3
    <2> QED BY <2>1
  <1> QED BY <1>4 DEF Min

(* ---------------------------------------------------------------------- *)
(* The head byte of an option                                               *)

\* Two nibbles are read as they were written.
LEMMA HeadByte ==
  ASSUME NEW a \in 0..Nib - 1, NEW c \in 0..Nib - 1
  PROVE  /\ a * Nib + c \in Nat
         /\ (a * Nib + c) \div Nib = a
         /\ (a * Nib + c) % Nib = c
  <1> DEFINE x == a * Nib + c
             q == x \div Nib
             r == x % Nib
  <1>1. Nib \in Nat /\ Nib > 0 /\ a \in Nat /\ c \in Nat /\ c < Nib
    BY Limits
  <1>2. a * Nib \in Nat
    BY <1>1
  <1>3. x \in Nat
    BY <1>1, <1>2
  <1>4. x = Nib * q + r /\ q \in Int /\ r \in 0..Nib - 1
    <2> HIDE DEF x
    <2> QED BY <1>1, <1>3
  <1> HIDE DEF q, r
  <1>5. a * Nib + c = Nib * q + r
    BY <1>4
  <1>6. ~ (q < a)
    <2>1. ASSUME q < a
          PROVE  FALSE
      <3>1. a - q >= 1 /\ a - q \in Int
        BY <1>1, <1>4, <2>1
      <3>2. (a - q) * Nib >= Nib
        BY <1>1, <3>1
      <3>3. (a - q) * Nib = a * Nib - Nib * q
        BY <1>1, <1>4
      <3>4. Nib * q \in Int
        BY <1>1, <1>4
      <3> QED BY <1>1, <1>2, <1>4, <1>5, <3>2, <3>3, <3>4
    <2> QED BY <2>1
  <1>7. ~ (a < q)
    <2>1. ASSUME a < q
          PROVE  FALSE
      <3>1. q - a >= 1 /\ q - a \in Int
        BY <1>1, <1>4, <2>1
      <3>2. (q - a) * Nib >= Nib
        BY <1>1, <3>1
      <3>3. (q - a) * Nib = Nib * q - a * Nib
        BY <1>1, <1>4
      <3>4. Nib * q \in Int
        BY <1>1, <1>4
      <3> QED BY <1>1, <1>2, <1>4, <1>5, <3>2, <3>3, <3>4
    <2> QED BY <2>1
  <1>8. q = a
    BY <1>1, <1>4, <1>6, <1>7
  <1>9. r = c
    BY <1>1, <1>2, <1>4, <1>5, <1>8
  <1> QED BY <1>3, <1>8, <1>9 DEF q, r

\* A nibble and the bytes that follow it
LEMMA NibbleType ==
  ASSUME NEW n \in Nat
  PROVE  /\ Nibble(n) \in 0..Nib - 2
         /\ Extension(n) \in Seq(Nat)
         /\ Len(Extension(n)) = MoreBytes(n)
         /\ MoreBytes(n) \in 0..2
  <1>1. CASE n >= T2
    <2> DEFINE x == n - T2
               q == x \div Byte
               r == x % Byte
    <2>1. x \in Nat /\ Byte \in Nat /\ Byte > 0
      BY <1>1, Limits
    <2> HIDE DEF x
    <2>2. q \in Nat /\ r \in 0..Byte - 1
      BY <2>1
    <2> HIDE DEF q, r
    <2>4. Extension(n) = <<q, r>>
      BY <1>1 DEF Extension, q, r, x
    <2>5. Nibble(n) = Nib - 2 /\ MoreBytes(n) = 2
      BY <1>1 DEF Nibble, MoreBytes
    <2>6. <<q, r>> \in Seq(Nat) /\ Len(<<q, r>>) = 2
      BY <2>1, <2>2
    <2> QED BY <2>4, <2>5, <2>6, Limits
  <1>2. CASE n < T2 /\ n >= T1
    <2>1. n - T1 \in Nat
      BY <1>2, Limits
    <2>2. /\ Extension(n) = <<n - T1>>
          /\ Nibble(n) = Nib - 3 /\ MoreBytes(n) = 1
      BY <1>2, Limits DEF Extension, Nibble, MoreBytes
    <2> QED BY <2>1, <2>2, Limits
  <1>3. CASE n < T2 /\ n < T1
    <2>1. /\ Extension(n) = <<>>
          /\ Nibble(n) = n /\ MoreBytes(n) = 0
      BY <1>3, Limits DEF Extension, Nibble, MoreBytes
    <2> QED BY <1>3, <2>1, Limits
  <1> QED BY <1>1, <1>2, <1>3, Limits

\* What is written of a length has as many bytes as it should, and is what it should be
\* except for some lengths of one byte more.
LEMMA LengthBytesType ==
  ASSUME NEW n \in Nat, NEW py \in BOOLEAN
  PROVE  /\ LengthBytes(n, py) \in Seq(Nat)
         /\ Len(LengthBytes(n, py)) = MoreBytes(n)
         /\ (OneByteLength(n) => py) => LengthBytes(n, py) = Extension(n)
  <1>1. CASE OneByteLength(n) /\ ~ py
    <2> DEFINE r == n % Byte
    <2>1. r \in Nat
      BY Limits
    <2> HIDE DEF r
    <2>2. LengthBytes(n, py) = <<r>>
      BY <1>1 DEF LengthBytes, r
    <2>3. MoreBytes(n) = 1
      BY <1>1, Limits DEF MoreBytes, OneByteLength
    <2> QED BY <1>1, <2>1, <2>2, <2>3
  <1>2. CASE ~ (OneByteLength(n) /\ ~ py)
    <2>1. LengthBytes(n, py) = Extension(n)
      BY <1>2 DEF LengthBytes
    <2> QED BY <2>1, NibbleType
  <1> QED BY <1>1, <1>2

\* The bytes e are in b after the first i.
HasAt(b, i, e) == \A k \in 1..Len(e) : b[i + k] = e[k]

\* A difference of codes or a length is read as it was written.
LEMMA ReadLengthOfWritten ==
  ASSUME NEW b, NEW i \in Nat, NEW n \in Nat, HasAt(b, i, Extension(n)),
         Len(b) \in Nat, i + MoreBytes(n) <= Len(b)
  PROVE  ReadLength(b, i, Nibble(n)) = [v |-> n, i |-> i + MoreBytes(n)]
  <1>1. CASE n >= T2
    <2> DEFINE x == n - T2
               q == x \div Byte
               r == x % Byte
    <2>1. x \in Nat /\ Byte \in Nat /\ Byte > 0
      BY <1>1, Limits
    <2> HIDE DEF x
    <2>2. q \in Nat /\ r \in 0..Byte - 1 /\ x = q * Byte + r
      BY <2>1
    <2> HIDE DEF q, r
    <2>4. Extension(n) = <<q, r>>
      BY <1>1 DEF Extension, q, r, x
    <2>5. Nibble(n) = Nib - 2 /\ MoreBytes(n) = 2
      BY <1>1 DEF Nibble, MoreBytes
    <2>6. ByteAt(b, i + 1) = q /\ ByteAt(b, i + 2) = r
      <3>1. i + 1 <= Len(b) /\ i + 2 <= Len(b)
        BY <2>5
      <3> QED BY <2>4, <3>1 DEF HasAt, ByteAt
    <2>7. q * Byte + r + T2 = n
      <3>1. x + T2 = n
        BY Limits DEF x
      <3> QED BY <2>2, <3>1
    <2>8. Nib - 2 # Nib - 3
      BY Limits
    <2> QED BY <2>5, <2>6, <2>7, <2>8 DEF ReadLength
  <1>2. CASE n < T2 /\ n >= T1
    <2>1. (n - T1) + T1 = n
      BY Limits
    <2>2. /\ Extension(n) = <<n - T1>>
          /\ Nibble(n) = Nib - 3 /\ MoreBytes(n) = 1
      BY <1>2, Limits DEF Extension, Nibble, MoreBytes
    <2>3. ByteAt(b, i + 1) = n - T1
      BY <2>2 DEF HasAt, ByteAt
    <2>4. ReadLength(b, i, Nibble(n)) = [v |-> ByteAt(b, i + 1) + T1, i |-> i + 1]
      BY <2>2 DEF ReadLength
    <2> QED BY <2>1, <2>2, <2>3, <2>4
  <1>3. CASE n < T2 /\ n < T1
    <2>1. /\ Nibble(n) = n /\ MoreBytes(n) = 0
          /\ n # Nib - 3 /\ n # Nib - 2
      BY <1>3, Limits DEF Nibble, MoreBytes
    <2> QED BY <2>1 DEF ReadLength
  <1> QED BY <1>1, <1>2, <1>3, Limits

(* ---------------------------------------------------------------------- *)
(* Options in order                                                         *)

Sorted(s) == \A i, j \in 1..Len(s) : i < j => s[i].code <= s[j].code

\* An option is added where it belongs, and nothing else is.
LEMMA PushSorted ==
  ASSUME NEW O, O \subseteq Option, NEW s \in Seq(O), Sorted(s), NEW o \in O
  PROVE  /\ PushOption(s, o) \in Seq(O)
         /\ Len(PushOption(s, o)) = Len(s) + 1
         /\ Sorted(PushOption(s, o))
  <1> DEFINE n == Len(s)
             S == {i \in 1..n + 1 : i <= n => s[i].code > o.code}
             place == Min(S)
             u == [i \in 1..n + 1 |-> IF i < place THEN s[i] ELSE IF i = place THEN o ELSE s[i-1]]
  <1>1. n \in Nat /\ \A i \in 1..n : s[i] \in O /\ s[i].code \in Nat
    BY ElementOfSeq, LenProperties DEF Option
  <1>2. o.code \in Nat
    BY DEF Option
  <1>3. S \in SUBSET Nat /\ n + 1 \in S
    BY <1>1
  <1>4. place \in S /\ \A y \in S : place <= y
    <2> HIDE DEF S
    <2> QED BY <1>3, LeastOf
  <1> HIDE DEF place
  <1>5. place \in 1..n + 1
    BY <1>4
  <1>6. \A i \in 1..n : i < place => s[i].code <= o.code
    <2>1. ASSUME NEW i \in 1..n, i < place
          PROVE  s[i].code <= o.code
      <3>1. i \in Nat /\ place \in Nat /\ i \notin S /\ i \in 1..n + 1
        BY <1>1, <1>4, <1>5, <2>1
      <3> QED BY <1>1, <1>2, <2>1, <3>1
    <2> QED BY <2>1
  <1>7. place <= n => s[place].code > o.code
    BY <1>4
  <1>8. \A i \in 1..n : place <= i => s[i].code >= o.code
    <2>1. ASSUME NEW i \in 1..n, place <= i
          PROVE  s[i].code >= o.code
      <3>1. place \in 1..n /\ s[place].code > o.code
        BY <1>1, <1>5, <1>7, <2>1
      <3>2. CASE i = place
        BY <1>1, <1>2, <3>1, <3>2
      <3>3. CASE i # place
        <4>1. s[place].code <= s[i].code
          BY <1>5, <2>1, <3>1, <3>3 DEF Sorted
        <4> QED BY <1>1, <1>2, <3>1, <4>1
      <3> QED BY <3>2, <3>3
    <2> QED BY <2>1
  <1> HIDE DEF S
  <1>9. PushOption(s, o) = u
    BY DEF PushOption, place, S
  <1>10. ASSUME NEW i \in 1..n + 1
         PROVE  /\ u[i] \in O
                /\ i < place => i \in 1..n /\ u[i] = s[i]
                /\ i = place => u[i] = o
                /\ place < i => i - 1 \in 1..n /\ place <= i - 1 /\ u[i] = s[i - 1]
    <2>1. CASE i < place
      BY <1>1, <1>5, <2>1
    <2>2. CASE i = place
      BY <1>1, <1>5, <2>2
    <2>3. CASE place < i
      BY <1>1, <1>5, <2>3
    <2> QED BY <1>1, <1>5, <2>1, <2>2, <2>3
  <1>11. u \in Seq(O) /\ Len(u) = n + 1
    <2>1. u \in [1..n + 1 -> O]
      BY <1>10
    <2>2. n + 1 \in Nat
      BY <1>1
    <2> HIDE DEF u
    <2> QED BY <2>1, <2>2
  <1> HIDE DEF u
  <1>12. ASSUME NEW i \in 1..n + 1, NEW j \in 1..n + 1, i < j
         PROVE  u[i].code <= u[j].code
    <2>0. i \in Int /\ j \in Int /\ place \in Int
      BY <1>1, <1>5
    <2>1. CASE j < place
      BY <1>10, <1>12, <2>0, <2>1 DEF Sorted
    <2>2. CASE j = place
      BY <1>6, <1>10, <1>12, <2>0, <2>2
    <2>3. CASE place < j /\ i < place
      <3>1. /\ u[j] = s[j - 1] /\ j - 1 \in 1..n /\ u[i] = s[i] /\ i \in 1..n
            /\ s[i].code <= o.code /\ s[j - 1].code >= o.code
        BY <1>6, <1>8, <1>10, <2>3
      <3> QED BY <1>1, <1>2, <3>1
    <2>4. CASE place < j /\ i = place
      BY <1>1, <1>2, <1>8, <1>10, <2>0, <2>4
    <2>5. CASE place < j /\ place < i
      <3>1. /\ u[j] = s[j - 1] /\ j - 1 \in 1..n /\ u[i] = s[i - 1] /\ i - 1 \in 1..n
        BY <1>10, <2>5
      <3>2. i - 1 < j - 1
        BY <1>12, <2>0
      <3> QED BY <3>1, <3>2 DEF Sorted
    <2> QED BY <2>0, <2>1, <2>2, <2>3, <2>4, <2>5
  <1> QED BY <1>9, <1>11, <1>12 DEF Sorted

\* f has the options of s in order, after the first k of them.
IsSorting(s, n, f) ==
  f = [k \in 0..n |-> IF k = 0 THEN <<>> ELSE PushOption(f[k-1], s[k])]

\* There is such a function.
LEMMA Sorting ==
  ASSUME NEW s, NEW n \in Nat
  PROVE  \E f : IsSorting(s, n, f)
  <1> DEFINE Is(m, f) == IsSorting(s, m, f)
             S == {m \in Nat : \E f : Is(m, f)}
  <1>1. 0 \in S
    <2>1. Is(0, [k \in 0..0 |-> <<>>])
      BY DEF IsSorting
    <2> QED BY <2>1
  <1>2. ASSUME NEW m \in Nat, m \in S
        PROVE  m + 1 \in S
    <2>1. PICK f : Is(m, f)
      BY <1>2
    <2> DEFINE last == PushOption(f[m], s[m + 1])
               g == [k \in 0..(m + 1) |-> IF k = m + 1 THEN last ELSE f[k]]
    <2>2. /\ \A k \in 0..m : g[k] = f[k]
          /\ g[m + 1] = last /\ g = [k \in 0..(m + 1) |-> g[k]]
      OBVIOUS
    <2>3. \A k \in 0..m : f[k] = IF k = 0 THEN <<>> ELSE PushOption(f[k-1], s[k])
      BY <2>1 DEF IsSorting
    <2> HIDE DEF g, Is
    <2>4. ASSUME NEW k \in 0..(m + 1)
          PROVE  g[k] = IF k = 0 THEN <<>> ELSE PushOption(g[k-1], s[k])
      <3>1. CASE k = m + 1
        <4>1. k # 0 /\ k - 1 = m /\ m \in 0..m
          BY <3>1
        <4> QED BY <2>2, <3>1, <4>1
      <3>2. CASE k # m + 1
        <4>1. k \in 0..m /\ (k # 0 => k - 1 \in 0..m)
          BY <3>2
        <4> HIDE DEF last
        <4> QED BY <2>2, <2>3, <4>1
      <3> QED BY <3>1, <3>2
    <2>5. Is(m + 1, g)
      BY <2>2, <2>4 DEF Is, IsSorting
    <2> QED BY <2>5
  <1> HIDE DEF Is
  <1>3. Nat \subseteq S
    <2> HIDE DEF S
    <2> QED BY <1>1, <1>2, NatSet
  <1>4. \E f : Is(n, f)
    BY <1>3
  <1> QED BY <1>4 DEF Is

\* The options of a message, in the order of their codes, for any options.
LEMMA SortOptionsSorted ==
  ASSUME NEW O, O \subseteq Option, NEW s \in Seq(O)
  PROVE  /\ SortOptions(s) \in Seq(O)
         /\ Len(SortOptions(s)) = Len(s)
         /\ Sorted(SortOptions(s))
  <1> DEFINE n == Len(s)
             Body(f) == [k \in 0..n |-> IF k = 0 THEN <<>> ELSE PushOption(f[k-1], s[k])]
             h == CHOOSE f : f = Body(f)
  <1>1. n \in Nat
    BY LenProperties
  <1>2. h = Body(h)
    <2>1. PICK f : IsSorting(s, n, f)
      <3> HIDE DEF n
      <3> QED BY <1>1, Sorting
    <2>2. f = Body(f)
      BY <2>1 DEF IsSorting
    <2> HIDE DEF Body
    <2> QED BY <2>2
  <1>3. SortOptions(s) = h[n]
    BY DEF SortOptions
  <1>4. h[0] = <<>> /\ \A k \in 1..n : h[k] = PushOption(h[k-1], s[k])
    <2> HIDE DEF h
    <2> QED BY <1>1, <1>2
  <1> HIDE DEF h, Body
  <1> DEFINE P(k) == h[k] \in Seq(O) /\ Len(h[k]) = k /\ Sorted(h[k])
             S == {k \in Nat : k <= n => P(k)}
  <1>5. 0 \in S
    <2>1. <<>> \in Seq(O) /\ Len(<<>>) = 0
      BY EmptySeq
    <2>2. Sorted(<<>>)
      BY <2>1 DEF Sorted
    <2> QED BY <1>4, <2>1, <2>2
  <1>6. ASSUME NEW k \in Nat, k \in S
        PROVE  k + 1 \in S
    <2>1. CASE k + 1 <= n
      <3>1. k + 1 \in 1..n /\ (k + 1) - 1 = k /\ s[k + 1] \in O /\ P(k)
        BY <1>1, <1>6, <2>1, ElementOfSeq
      <3>2. h[k + 1] = PushOption(h[k], s[k + 1])
        BY <1>4, <3>1
      <3>3. /\ PushOption(h[k], s[k + 1]) \in Seq(O)
            /\ Len(PushOption(h[k], s[k + 1])) = Len(h[k]) + 1
            /\ Sorted(PushOption(h[k], s[k + 1]))
        <4>1. h[k] \in Seq(O) /\ Sorted(h[k])
          BY <3>1
        <4>2. s[k + 1] \in O
          BY <3>1
        <4> HIDE DEF P, S
        <4> QED BY <4>1, <4>2, PushSorted
      <3>4. P(k + 1)
        BY <3>1, <3>2, <3>3
      <3> QED BY <3>4
    <2> QED BY <2>1
  <1>7. Nat \subseteq S
    <2> HIDE DEF S
    <2> QED BY <1>5, <1>6, NatSet
  <1>8. P(n)
    BY <1>1, <1>7
  <1> QED BY <1>3, <1>8

\* An option alone is in order.
LEMMA SortOne ==
  ASSUME NEW o \in Option
  PROVE  SortOptions(<<o>>) = <<o>>
  <1> DEFINE s == <<o>>
             Body(f) == [k \in 0..1 |-> IF k = 0 THEN <<>> ELSE PushOption(f[k-1], s[k])]
             h == CHOOSE f : f = Body(f)
  <1>1. s \in Seq(Option) /\ Len(s) = 1 /\ s[1] = o
    OBVIOUS
  <1> HIDE DEF s
  <1>2. h = Body(h)
    <2>1. PICK f : IsSorting(s, 1, f)
      BY Sorting
    <2>2. f = Body(f)
      BY <2>1 DEF IsSorting
    <2> HIDE DEF Body
    <2> QED BY <2>2
  <1>3. SortOptions(s) = h[1]
    BY <1>1 DEF SortOptions
  <1>4. h[0] = <<>> /\ h[1] = PushOption(h[0], s[1])
    <2>1. \A k \in 0..1 : h[k] = IF k = 0 THEN <<>> ELSE PushOption(h[k-1], s[k])
      <3> HIDE DEF h
      <3> QED BY <1>2
    <2> HIDE DEF h, Body
    <2> QED BY <2>1
  <1> HIDE DEF h, Body
  <1>5. PushOption(<<>>, o) = s
    <2> DEFINE S == {i \in 1..0 + 1 : i <= 0 => <<>>[i].code > o.code}
    <2>1. S = {1}
      OBVIOUS
    <2>2. Min(S) = 1
      <3>1. S \in SUBSET Nat /\ S # {}
        BY <2>1
      <3>2. Min(S) \in S
        <4> HIDE DEF S
        <4> QED BY <3>1, LeastOf
      <3> QED BY <2>1, <3>2
    <2>3. Len(<<>>) = 0
      BY EmptySeq
    <2>4. PushOption(<<>>, o) = [i \in 1..0 + 1 |-> IF i < Min(S) THEN <<>>[i] ELSE IF i = Min(S) THEN o ELSE <<>>[i-1]]
      BY <2>3 DEF PushOption
    <2> HIDE DEF S
    <2> DEFINE u == [i \in 1..1 |-> o]
    <2>5. PushOption(<<>>, o) = u
      BY <2>2, <2>4
    <2>6. u \in Seq(Option) /\ Len(u) = 1 /\ u[1] = o
      OBVIOUS
    <2> HIDE DEF u
    <2>7. \A i \in 1..Len(u) : u[i] = s[i]
      <3>1. \A i \in 1..1 : i = 1
        OBVIOUS
      <3> QED BY <1>1, <2>6, <3>1
    <2>8. u = s
      BY <1>1, <2>6, <2>7, SeqEqual
    <2> QED BY <2>5, <2>8
  <1> QED BY <1>1, <1>3, <1>4, <1>5 DEF s

(* ---------------------------------------------------------------------- *)
(* What the encoder writes                                                  *)

\* What is in a sequence is still there when more is written after it, and what is
\* written is there.
LEMMA HasAtConcat ==
  ASSUME NEW S, NEW a \in Seq(S), NEW c \in Seq(S)
  PROVE  /\ HasAt(a \o c, 0, a)
         /\ HasAt(a \o c, Len(a), c)
         /\ \A e, i : i \in Nat /\ e \in Seq(S) /\ HasAt(a, i, e) /\ i + Len(e) <= Len(a)
                   => HasAt(a \o c, i, e)
  <1>1. /\ Len(a) \in Nat /\ Len(c) \in Nat
        /\ \A i \in 1..Len(a) + Len(c) :
             (a \o c)[i] = IF i <= Len(a) THEN a[i] ELSE c[i - Len(a)]
    BY ConcatProperties, LenProperties
  <1> DEFINE u == a \o c
  <1>2. /\ \A i \in 1..Len(a) : u[i] = a[i]
        /\ \A i \in 1..Len(c) : u[Len(a) + i] = c[i]
    <2>1. ASSUME NEW i \in 1..Len(a) PROVE u[i] = a[i]
      <3>1. i \in 1..Len(a) + Len(c) /\ i <= Len(a)
        BY <1>1
      <3> QED BY <1>1, <3>1
    <2>2. ASSUME NEW i \in 1..Len(c) PROVE u[Len(a) + i] = c[i]
      <3>1. /\ Len(a) + i \in 1..Len(a) + Len(c)
            /\ ~ (Len(a) + i <= Len(a)) /\ (Len(a) + i) - Len(a) = i
        BY <1>1
      <3> QED BY <1>1, <3>1
    <2> QED BY <2>1, <2>2
  <1> HIDE DEF u
  <1>3. HasAt(u, 0, a) /\ HasAt(u, Len(a), c)
    BY <1>1, <1>2 DEF HasAt
  <1>4. ASSUME NEW e \in Seq(S), NEW i \in Nat, HasAt(a, i, e), i + Len(e) <= Len(a)
        PROVE  HasAt(u, i, e)
    <2>1. Len(e) \in Nat
      BY LenProperties
    <2>2. ASSUME NEW k \in 1..Len(e)
          PROVE  u[i + k] = e[k]
      <3>1. i + k \in 1..Len(a)
        BY <1>1, <1>4, <2>1
      <3> QED BY <1>2, <1>4, <3>1 DEF HasAt
    <2> QED BY <2>2 DEF HasAt
  <1> QED BY <1>3, <1>4 DEF u

\* What a sequence has, the sequences that begin with it have.
LEMMA HasAtPrefix ==
  ASSUME NEW S, NEW a \in Seq(S), NEW b, NEW e \in Seq(S), NEW i \in Nat, NEW j \in Nat,
         HasAt(b, j, a), HasAt(a, i, e), i + Len(e) <= Len(a)
  PROVE  HasAt(b, j + i, e)
  <1>1. Len(e) \in Nat /\ Len(a) \in Nat
    BY LenProperties
  <1>2. ASSUME NEW k \in 1..Len(e)
        PROVE  b[(j + i) + k] = e[k]
    <2>1. i + k \in 1..Len(a) /\ (j + i) + k = j + (i + k)
      BY <1>1
    <2> QED BY <2>1 DEF HasAt
  <1> QED BY <1>2 DEF HasAt

\* The head byte of an option is none that starts a payload.
LEMMA HeadIsNotMarker ==
  ASSUME NEW a \in 0..Nib - 2, NEW c \in 0..Nib - 2
  PROVE  a * Nib + c # Marker
  <1>1. /\ Nib - 1 \in 0..Nib - 1 /\ a \in 0..Nib - 1 /\ c \in 0..Nib - 1
        /\ a # Nib - 1
    BY Limits
  <1>2. (Nib - 1) * Nib + (Nib - 1) = Marker
    BY Limits DEF Marker, Byte
  <1>3. (a * Nib + c) \div Nib = a /\ ((Nib - 1) * Nib + (Nib - 1)) \div Nib = Nib - 1
    BY <1>1, HeadByte
  <1> QED BY <1>1, <1>2, <1>3

\* The parts of an option, whose code is not below the one before it
LEMMA OptionWritten ==
  ASSUME NEW s \in Seq(Option), Sorted(s), NEW i \in 1..Len(s), NEW py \in BOOLEAN
  PROVE  LET d   == Delta(s, i)
             v   == s[i].val
             b   == OptionBytes(s, i, py)
             md  == 1 + MoreBytes(d)
             mdl == md + MoreBytes(Len(v))
         IN  /\ d \in Nat /\ v \in Seq(Nat) /\ Len(v) \in Nat
             /\ b \in Seq(Nat) /\ Len(b) = mdl + Len(v)
             /\ b[1] = Nibble(d) * Nib + Nibble(Len(v))
             /\ HasAt(b, 1, Extension(d))
             /\ HasAt(b, md, LengthBytes(Len(v), py))
             /\ HasAt(b, mdl, v)
  <1> DEFINE d == Delta(s, i)
             v == s[i].val
             h == <<Nibble(d) * Nib + Nibble(Len(v))>>
             a == h \o Extension(d)
             c == a \o LengthBytes(Len(v), py)
  <1>1. s[i] \in Option /\ Len(s) \in Nat
    BY ElementOfSeq, LenProperties
  <1>2. v \in Seq(Nat) /\ Len(v) \in Nat
    BY <1>1, LenProperties DEF Option
  <1>3. d \in Nat
    <2>1. CASE i = 1
      BY <1>1, <2>1 DEF Delta, Option
    <2>2. CASE i # 1
      <3>1. i - 1 \in 1..Len(s) /\ i - 1 < i
        BY <1>1, <2>2
      <3>2. s[i - 1] \in Option /\ s[i - 1].code <= s[i].code
        BY <3>1, ElementOfSeq DEF Sorted
      <3> QED BY <1>1, <2>2, <3>2 DEF Delta, Option
    <2> QED BY <2>1, <2>2
  <1>4. OptionBytes(s, i, py) = c \o v
    BY DEF OptionBytes
  <1> HIDE DEF d, v
  <1>5. /\ Nibble(d) \in 0..Nib - 1 /\ Nibble(Len(v)) \in 0..Nib - 1
        /\ Extension(d) \in Seq(Nat) /\ LengthBytes(Len(v), py) \in Seq(Nat)
        /\ Len(Extension(d)) = MoreBytes(d) /\ Len(LengthBytes(Len(v), py)) = MoreBytes(Len(v))
        /\ MoreBytes(d) \in 0..2 /\ MoreBytes(Len(v)) \in 0..2
    <2> DEFINE l == Len(v)
    <2>1. l \in Nat
      BY <1>2
    <2> HIDE DEF l
    <2>2. /\ Nibble(d) \in 0..Nib - 2 /\ Extension(d) \in Seq(Nat)
          /\ Len(Extension(d)) = MoreBytes(d) /\ MoreBytes(d) \in 0..2
      BY <1>3, NibbleType
    <2>3. /\ Nibble(l) \in 0..Nib - 2 /\ LengthBytes(l, py) \in Seq(Nat)
          /\ Len(LengthBytes(l, py)) = MoreBytes(l) /\ MoreBytes(l) \in 0..2
      BY <2>1, NibbleType, LengthBytesType
    <2>4. 0..Nib - 2 \subseteq 0..Nib - 1
      BY Limits
    <2> QED BY <2>2, <2>3, <2>4 DEF l
  <1>6. Nibble(d) * Nib + Nibble(Len(v)) \in Nat
    BY <1>5, HeadByte
  <1>7. h \in Seq(Nat) /\ Len(h) = 1 /\ h[1] = Nibble(d) * Nib + Nibble(Len(v))
    BY <1>6
  <1> HIDE DEF h
  <1>8. a \in Seq(Nat) /\ Len(a) = 1 + MoreBytes(d) /\ HasAt(a, 0, h) /\ HasAt(a, 1, Extension(d))
    <2>1. h \in Seq(Nat) /\ Extension(d) \in Seq(Nat)
      BY <1>5, <1>7
    <2>2. a \in Seq(Nat) /\ Len(a) = Len(h) + Len(Extension(d))
      BY <2>1, ConcatProperties
    <2>3. HasAt(a, 0, h) /\ HasAt(a, Len(h), Extension(d))
      BY <2>1, HasAtConcat
    <2> QED BY <1>5, <1>7, <2>2, <2>3
  <1> HIDE DEF a
  <1>9. /\ c \in Seq(Nat) /\ Len(c) = 1 + MoreBytes(d) + MoreBytes(Len(v))
        /\ HasAt(c, 0, h) /\ HasAt(c, 1, Extension(d))
        /\ HasAt(c, 1 + MoreBytes(d), LengthBytes(Len(v), py))
    <2>1. 0 + Len(h) <= Len(a) /\ 1 + Len(Extension(d)) <= Len(a)
      <3>1. /\ Len(h) = 1 /\ Len(Extension(d)) = MoreBytes(d) /\ Len(a) = 1 + MoreBytes(d)
            /\ MoreBytes(d) \in 0..2
        BY <1>5, <1>7, <1>8
      <3> QED BY <3>1
    <2> DEFINE e == LengthBytes(Len(v), py)
    <2>2. a \in Seq(Nat) /\ e \in Seq(Nat) /\ h \in Seq(Nat) /\ Extension(d) \in Seq(Nat)
      BY <1>5, <1>7, <1>8
    <2>3. Len(e) = MoreBytes(Len(v))
      BY <1>5
    <2> HIDE DEF e
    <2>4. c = a \o e
      BY DEF c, e
    <2>5. c \in Seq(Nat) /\ Len(c) = Len(a) + Len(e)
      BY <2>2, <2>4, ConcatProperties
    <2>6. HasAt(c, Len(a), e)
      BY <2>2, <2>4, HasAtConcat
    <2>7. HasAt(c, 0, h) /\ HasAt(c, 1, Extension(d))
      BY <1>8, <2>1, <2>2, <2>4, HasAtConcat
    <2> HIDE DEF c
    <2> QED BY <1>5, <1>8, <2>3, <2>5, <2>6, <2>7 DEF e
  <1> HIDE DEF c
  <1> DEFINE b == c \o v
  <1>10. /\ b \in Seq(Nat) /\ Len(b) = 1 + MoreBytes(d) + MoreBytes(Len(v)) + Len(v)
         /\ HasAt(b, 0, h) /\ HasAt(b, 1, Extension(d))
         /\ HasAt(b, 1 + MoreBytes(d), LengthBytes(Len(v), py))
         /\ HasAt(b, 1 + MoreBytes(d) + MoreBytes(Len(v)), v)
    <2>1. /\ 0 + Len(h) <= Len(c) /\ 1 + Len(Extension(d)) <= Len(c)
          /\ (1 + MoreBytes(d)) + Len(LengthBytes(Len(v), py)) <= Len(c)
          /\ 1 + MoreBytes(d) \in Nat
      <3> DEFINE x == MoreBytes(d)
                 y == MoreBytes(Len(v))
      <3>1. x \in Nat /\ y \in Nat
        BY <1>5
      <3>2. /\ Len(h) = 1 /\ Len(Extension(d)) = x /\ Len(LengthBytes(Len(v), py)) = y
            /\ Len(c) = 1 + x + y
        BY <1>5, <1>7, <1>9
      <3> HIDE DEF x, y
      <3>3. /\ 0 + Len(h) <= Len(c) /\ 1 + Len(Extension(d)) <= Len(c)
            /\ (1 + x) + Len(LengthBytes(Len(v), py)) <= Len(c) /\ 1 + x \in Nat
        BY <3>1, <3>2
      <3> QED BY <3>3 DEF x
    <2>2. b \in Seq(Nat) /\ Len(b) = Len(c) + Len(v)
      BY <1>2, <1>9, ConcatProperties
    <2>3. HasAt(b, Len(c), v)
      BY <1>2, <1>9, HasAtConcat
    <2>4. HasAt(b, 0, h) /\ HasAt(b, 1, Extension(d))
      BY <1>2, <1>5, <1>7, <1>9, <2>1, HasAtConcat
    <2>5. HasAt(b, 1 + MoreBytes(d), LengthBytes(Len(v), py))
      BY <1>2, <1>5, <1>9, <2>1, HasAtConcat
    <2> QED BY <1>9, <2>2, <2>3, <2>4, <2>5
  <1>11. b[1] = Nibble(d) * Nib + Nibble(Len(v))
    <2>1. 1 \in 1..Len(h) /\ 0 + 1 = 1
      BY <1>7
    <2>2. b[0 + 1] = h[1]
      BY <1>10, <2>1 DEF HasAt
    <2> HIDE DEF b
    <2> QED BY <1>7, <2>2
  <1> HIDE DEF b
  <1> QED BY <1>2, <1>3, <1>4, <1>10, <1>11 DEF b, d, v

\* f has what the encoder has written after k options of s.
IsEncoding(s, n, f, py) ==
  f = [k \in 0..n |-> IF k = 0 THEN <<>> ELSE f[k-1] \o OptionBytes(s, k, py)]

\* There is such a function.
LEMMA Encoding ==
  ASSUME NEW s, NEW n \in Nat, NEW py
  PROVE  \E f : IsEncoding(s, n, f, py)
  <1> DEFINE Is(m, f) == IsEncoding(s, m, f, py)
             S == {m \in Nat : \E f : Is(m, f)}
  <1>1. 0 \in S
    <2>1. Is(0, [k \in 0..0 |-> <<>>])
      BY DEF IsEncoding
    <2> QED BY <2>1
  <1>2. ASSUME NEW m \in Nat, m \in S
        PROVE  m + 1 \in S
    <2>1. PICK f : Is(m, f)
      BY <1>2
    <2> DEFINE last == f[m] \o OptionBytes(s, m + 1, py)
               g == [k \in 0..(m + 1) |-> IF k = m + 1 THEN last ELSE f[k]]
    <2>2. /\ \A k \in 0..m : g[k] = f[k]
          /\ g[m + 1] = last /\ g = [k \in 0..(m + 1) |-> g[k]]
      OBVIOUS
    <2>3. \A k \in 0..m : f[k] = IF k = 0 THEN <<>> ELSE f[k-1] \o OptionBytes(s, k, py)
      BY <2>1 DEF IsEncoding
    <2> HIDE DEF g, Is
    <2>4. ASSUME NEW k \in 0..(m + 1)
          PROVE  g[k] = IF k = 0 THEN <<>> ELSE g[k-1] \o OptionBytes(s, k, py)
      <3>1. CASE k = m + 1
        <4>1. k # 0 /\ k - 1 = m /\ m \in 0..m
          BY <3>1
        <4> QED BY <2>2, <3>1, <4>1
      <3>2. CASE k # m + 1
        <4>1. k \in 0..m /\ (k # 0 => k - 1 \in 0..m)
          BY <3>2
        <4> HIDE DEF last
        <4> QED BY <2>2, <2>3, <4>1
      <3> QED BY <3>1, <3>2
    <2>5. Is(m + 1, g)
      BY <2>2, <2>4 DEF Is, IsEncoding
    <2> QED BY <2>5
  <1> HIDE DEF Is
  <1>3. Nat \subseteq S
    <2> HIDE DEF S
    <2> QED BY <1>1, <1>2, NatSet
  <1>4. \E f : Is(n, f)
    BY <1>3
  <1> QED BY <1>4 DEF Is

\* After the options, the end of the message or its payload
PayloadBytes(m) == IF m.payload = <<>> THEN <<>> ELSE <<Marker>> \o m.payload

\* A message is encoded by such a function.
LEMMA EncodeIs ==
  ASSUME NEW m, m.opts \in Seq(Option), NEW py
  PROVE  \E f : /\ IsEncoding(SortOptions(m.opts), Len(m.opts), f, py)
                /\ Encode(m, py) = f[Len(m.opts)] \o PayloadBytes(m)
  <1> DEFINE s == SortOptions(m.opts)
             n == Len(m.opts)
             Body(f) == [k \in 0..n |-> IF k = 0 THEN <<>> ELSE f[k-1] \o OptionBytes(s, k, py)]
             h == CHOOSE f : f = Body(f)
  <1>1. n \in Nat /\ Len(s) = n
    BY LenProperties, SortOptionsSorted
  <1>2. h = Body(h)
    <2>1. PICK f : IsEncoding(s, n, f, py)
      <3> HIDE DEF n, s
      <3> QED BY <1>1, Encoding
    <2>2. f = Body(f)
      BY <2>1 DEF IsEncoding
    <2> HIDE DEF Body
    <2> QED BY <2>2
  <1>3. Encode(m, py) = h[n] \o PayloadBytes(m)
    <2> HIDE DEF n, s
    <2> QED BY <1>1 DEF Encode, PayloadBytes, s
  <1>4. IsEncoding(s, n, h, py)
    <2> HIDE DEF h, n, s
    <2> QED BY <1>2 DEF IsEncoding
  <1> QED BY <1>3, <1>4

\* What the encoder has written after each option
LEMMA EncodedOptions ==
  ASSUME NEW s \in Seq(Option), Sorted(s), NEW f, NEW py \in BOOLEAN,
         IsEncoding(s, Len(s), f, py)
  PROVE  /\ f[0] = <<>>
         /\ \A k \in 0..Len(s) :
              /\ f[k] \in Seq(Nat) /\ Len(f[k]) \in Nat /\ Len(f[k]) >= k
              /\ Len(f[k]) <= Len(f[Len(s)])
         /\ \A k \in 1..Len(s) :
              /\ Len(f[k]) = Len(f[k-1]) + Len(OptionBytes(s, k, py))
              /\ HasAt(f[Len(s)], Len(f[k-1]), OptionBytes(s, k, py))
  <1> DEFINE n == Len(s)
             W(k) == OptionBytes(s, k, py)
             B(k) == f[k] \in Seq(Nat) /\ Len(f[k]) \in Nat /\ Len(f[k]) >= k
             P(k) == \A j \in 1..k : Len(f[j]) <= Len(f[k]) /\ HasAt(f[k], Len(f[j-1]), W(j))
             R == {k \in Nat : k <= n => B(k)}
             S == {k \in Nat : k <= n => P(k)}
  <1>1. n \in Nat
    BY LenProperties
  <1>2. f[0] = <<>> /\ \A k \in 1..n : f[k] = f[k-1] \o W(k)
    <2>1. \A k \in 0..n : f[k] = IF k = 0 THEN <<>> ELSE f[k-1] \o W(k)
      BY DEF IsEncoding
    <2> HIDE DEF n, W
    <2>2. 0 \in 0..n /\ \A k \in 1..n : k \in 0..n /\ k # 0
      BY <1>1
    <2> QED BY <2>1, <2>2
  <1>3. \A k \in 1..n : W(k) \in Seq(Nat) /\ Len(W(k)) \in Nat /\ Len(W(k)) >= 1
    <2>1. ASSUME NEW k \in 1..n
          PROVE  W(k) \in Seq(Nat) /\ Len(W(k)) \in Nat /\ Len(W(k)) >= 1
      <3>1. /\ W(k) \in Seq(Nat) /\ Delta(s, k) \in Nat /\ Len(s[k].val) \in Nat
            /\ Len(W(k)) = 1 + MoreBytes(Delta(s, k)) + MoreBytes(Len(s[k].val)) + Len(s[k].val)
        BY OptionWritten
      <3>2. MoreBytes(Delta(s, k)) \in 0..2 /\ MoreBytes(Len(s[k].val)) \in 0..2
        BY <3>1 DEF MoreBytes
      <3> HIDE DEF W
      <3> QED BY <3>1, <3>2
    <2> QED BY <2>1
  <1> HIDE DEF W
  <1>4. \A k \in 1..n : B(k-1) => B(k) /\ Len(f[k]) = Len(f[k-1]) + Len(W(k))
    <2>1. ASSUME NEW k \in 1..n, B(k-1)
          PROVE  B(k) /\ Len(f[k]) = Len(f[k-1]) + Len(W(k))
      <3>0. f[k] = f[k-1] \o W(k) /\ f[k-1] \in Seq(Nat) /\ W(k) \in Seq(Nat)
        BY <1>2, <1>3, <2>1
      <3>1. f[k] \in Seq(Nat) /\ Len(f[k]) = Len(f[k-1]) + Len(W(k))
        BY <3>0, ConcatProperties
      <3>2. Len(f[k-1]) \in Nat /\ Len(f[k-1]) >= k - 1 /\ k \in Nat
        BY <1>1, <2>1
      <3>3. Len(W(k)) \in Nat /\ Len(W(k)) >= 1
        BY <1>3
      <3> HIDE DEF n, W
      <3>4. Len(f[k]) \in Nat /\ Len(f[k]) >= k
        BY <3>1, <3>2, <3>3
      <3> QED BY <3>1, <3>4
    <2> QED BY <2>1
  <1>5. \A k \in 0..n : B(k)
    <2>1. 0 \in R
      <3>1. <<>> \in Seq(Nat) /\ Len(<<>>) = 0
        BY EmptySeq
      <3>2. B(0)
        BY <1>2, <3>1
      <3> HIDE DEF B
      <3> QED BY <3>2
    <2>2. ASSUME NEW k \in Nat, k \in R
          PROVE  k + 1 \in R
      <3>1. CASE k + 1 <= n
        <4>1. k + 1 \in 1..n /\ (k + 1) - 1 = k /\ B(k)
          BY <1>1, <2>2, <3>1
        <4> HIDE DEF B
        <4> QED BY <1>4, <4>1
      <3> QED BY <3>1
    <2>3. Nat \subseteq R
      <3> HIDE DEF R
      <3> QED BY <2>1, <2>2, NatSet
    <2>4. \A k \in 0..n : k \in Nat /\ k <= n
      BY <1>1
    <2> HIDE DEF B
    <2> QED BY <2>3, <2>4
  <1>6. \A k \in 1..n : B(k) /\ B(k-1) /\ Len(f[k]) = Len(f[k-1]) + Len(W(k))
    <2>1. \A k \in 1..n : k \in 0..n /\ k - 1 \in 0..n
      BY <1>1
    <2> HIDE DEF B
    <2> QED BY <1>4, <1>5, <2>1
  <1>7. \A k \in 0..n : P(k)
    <2>1. 0 \in S
      OBVIOUS
    <2>2. ASSUME NEW k \in Nat, k \in S, k + 1 <= n
          PROVE  P(k + 1)
      <3>1. /\ k + 1 \in 1..n /\ (k + 1) - 1 = k /\ k <= n
            /\ \A j \in 1..k : j \in 1..n
        BY <1>1, <2>2
      <3>2. /\ P(k) /\ f[k + 1] = f[k] \o W(k + 1)
            /\ f[k] \in Seq(Nat) /\ Len(f[k]) \in Nat
            /\ W(k + 1) \in Seq(Nat) /\ Len(W(k + 1)) \in Nat
            /\ Len(f[k + 1]) = Len(f[k]) + Len(W(k + 1))
        BY <1>2, <1>3, <1>6, <2>2, <3>1
      <3>3. /\ HasAt(f[k + 1], Len(f[k]), W(k + 1))
            /\ \A e, i : i \in Nat /\ e \in Seq(Nat) /\ HasAt(f[k], i, e) /\ i + Len(e) <= Len(f[k])
                      => HasAt(f[k + 1], i, e)
        BY <3>2, HasAtConcat
      <3>5. Len(f[k + 1]) \in Nat /\ Len(f[k]) <= Len(f[k + 1])
        <4> DEFINE x == Len(f[k])
                   y == Len(W(k + 1))
                   z == Len(f[k + 1])
        <4>1. x \in Nat /\ y \in Nat /\ z = x + y
          BY <3>2
        <4> HIDE DEF x, y, z
        <4>2. z \in Nat /\ x <= z
          BY <4>1
        <4> QED BY <4>2 DEF x, z
      <3>4. ASSUME NEW j \in 1..k + 1
            PROVE  Len(f[j]) <= Len(f[k + 1]) /\ HasAt(f[k + 1], Len(f[j-1]), W(j))
        <4>1. CASE j = k + 1
          <5>1. j - 1 = k /\ Len(f[k + 1]) <= Len(f[k + 1])
            BY <3>5, <4>1
          <5> HIDE DEF P
          <5> QED BY <3>3, <4>1, <5>1
        <4>2. CASE j # k + 1
          <5>1. j \in 1..k /\ j \in 1..n
            BY <3>1, <4>2
          <5>2. Len(f[j]) <= Len(f[k]) /\ HasAt(f[k], Len(f[j-1]), W(j))
            BY <3>2, <5>1
          <5>3. /\ W(j) \in Seq(Nat) /\ Len(f[j-1]) \in Nat /\ Len(f[j]) \in Nat
                /\ Len(f[j]) = Len(f[j-1]) + Len(W(j))
            BY <1>3, <1>6, <5>1
          <5>4. HasAt(f[k + 1], Len(f[j-1]), W(j))
            BY <3>3, <5>2, <5>3
          <5>5. Len(f[j]) <= Len(f[k + 1])
            <6> DEFINE x == Len(f[k])
                       y == Len(f[j])
                       z == Len(f[k + 1])
            <6>1. x \in Nat /\ y \in Nat /\ z \in Nat /\ y <= x /\ x <= z
              BY <3>2, <3>5, <5>2, <5>3
            <6> HIDE DEF x, y, z
            <6>2. y <= z
              BY <6>1
            <6> QED BY <6>2 DEF y, z
          <5> QED BY <5>4, <5>5
        <4> QED BY <4>1, <4>2
      <3> QED BY <3>4
    <2>3. Nat \subseteq S
      <3> HIDE DEF P
      <3>1. \A k \in Nat : k \in S => k + 1 \in S
        BY <2>2
      <3> HIDE DEF S
      <3> QED BY <2>1, <3>1, NatSet
    <2>4. \A k \in 0..n : k \in Nat /\ k <= n
      BY <1>1
    <2> HIDE DEF P
    <2> QED BY <2>3, <2>4
  <1>8. P(n) /\ \A k \in 0..n : Len(f[k]) <= Len(f[n])
    <2>1. P(n) /\ n \in 0..n
      BY <1>1, <1>7
    <2>2. ASSUME NEW k \in 0..n
          PROVE  Len(f[k]) <= Len(f[n])
      <3>1. CASE k = 0
        <4>1. Len(f[k]) = 0 /\ Len(f[n]) \in Nat
          BY <1>2, <1>5, <2>1, <3>1, EmptySeq
        <4> QED BY <4>1
      <3>2. CASE k # 0
        <4>1. k \in 1..n
          BY <1>1, <3>2
        <4> QED BY <2>1, <4>1
      <3> QED BY <3>1, <3>2
    <2> QED BY <2>1, <2>2
  <1> QED BY <1>2, <1>5, <1>6, <1>8 DEF W

(* ---------------------------------------------------------------------- *)
(* What the decoder reads                                                   *)

\* The code that the decoder adds the k-th difference to
Before(s, k) == IF k = 1 THEN 0 ELSE s[k-1].code

\* The k-th option is read from the bytes after the at-th, after the options o.
ReadsOption(b, s, k, at, o, py) ==
  /\ b[at + 1] # Marker
  /\ ReadOption(b, [ok |-> TRUE, i |-> at, nb |-> Before(s, k), opts |-> o])
       = [ok |-> TRUE, i |-> at + Len(OptionBytes(s, k, py)), nb |-> s[k].code,
          opts |-> Append(o, s[k])]

\* An option is read as it was written, wherever it is.
LEMMA OptionRead ==
  ASSUME NEW s \in Seq(Option), Sorted(s), NEW k \in 1..Len(s), NEW b, NEW at \in Nat,
         NEW py \in BOOLEAN, OneByteLength(Len(s[k].val)) => py, Len(b) \in Nat,
         HasAt(b, at, OptionBytes(s, k, py)), at + Len(OptionBytes(s, k, py)) <= Len(b), NEW o
  PROVE  ReadsOption(b, s, k, at, o, py)
  <1> DEFINE dl == Delta(s, k)
             v == s[k].val
             w == OptionBytes(s, k, py)
             md == MoreBytes(dl)
             ml == MoreBytes(Len(v))
             l == Len(v)
             head == b[at + 1]
             d == [ok |-> TRUE, i |-> at, nb |-> Before(s, k), opts |-> o]
  <1>1. /\ dl \in Nat /\ v \in Seq(Nat) /\ Len(v) \in Nat
        /\ w \in Seq(Nat) /\ Len(w) = 1 + md + ml + Len(v)
        /\ w[1] = Nibble(dl) * Nib + Nibble(Len(v))
        /\ HasAt(w, 1, Extension(dl))
        /\ HasAt(w, 1 + md, LengthBytes(Len(v), py))
        /\ HasAt(w, 1 + md + ml, v)
    BY OptionWritten
  <1>2. s[k] = Opt(s[k].code, v) /\ s[k].code \in Nat /\ Before(s, k) + dl = s[k].code
    <2>1. s[k] \in Option /\ Len(s) \in Nat
      BY ElementOfSeq, LenProperties
    <2>2. k # 1 => s[k - 1] \in Option
      <3>1. k # 1 => k - 1 \in 1..Len(s)
        BY <2>1
      <3> QED BY <3>1, ElementOfSeq
    <2>3. s[k] = Opt(s[k].code, v) /\ s[k].code \in Nat
      BY <2>1 DEF Option, Opt
    <2>4. Before(s, k) + dl = s[k].code
      <3> DEFINE c == s[k].code
      <3>1. CASE k = 1
        <4>1. Before(s, k) = 0 /\ dl = c - 0
          BY <3>1 DEF Before, Delta
        <4> HIDE DEF c, dl
        <4>2. c \in Nat
          BY <2>3 DEF c
        <4> QED BY <4>1, <4>2 DEF c
      <3>2. CASE k # 1
        <4> DEFINE e == s[k - 1].code
        <4>1. Before(s, k) = e /\ dl = c - e
          BY <3>2 DEF Before, Delta
        <4>2. c \in Nat /\ e \in Nat
          BY <2>2, <2>3, <3>2 DEF Option
        <4> HIDE DEF c, e, dl
        <4>3. e + (c - e) = c
          BY <4>2
        <4> QED BY <4>1, <4>3 DEF c
      <3> QED BY <3>1, <3>2
    <2> QED BY <2>3, <2>4
  <1>3. HasAt(b, at, w) /\ at + Len(w) <= Len(b) /\ LengthBytes(Len(v), py) = Extension(Len(v))
    BY <1>1, LengthBytesType
  <1> HIDE DEF w, v, dl
  <1>4. /\ Nibble(dl) \in 0..Nib - 2 /\ Extension(dl) \in Seq(Nat)
        /\ Len(Extension(dl)) = md /\ md \in 0..2
    BY <1>1, NibbleType
  <1>5. /\ Nibble(l) \in 0..Nib - 2 /\ Extension(l) \in Seq(Nat)
        /\ Len(Extension(l)) = ml /\ ml \in 0..2
    <2>1. l \in Nat
      BY <1>1
    <2> HIDE DEF l
    <2>2. /\ Nibble(l) \in 0..Nib - 2 /\ Extension(l) \in Seq(Nat)
          /\ Len(Extension(l)) = MoreBytes(l) /\ MoreBytes(l) \in 0..2
      BY <2>1, NibbleType
    <2> QED BY <2>2 DEF l
  <1> HIDE DEF md, ml
  <1>6. /\ HasAt(b, at + 1, Extension(dl)) /\ HasAt(b, at + (1 + md), Extension(l))
        /\ HasAt(b, at + (1 + md + ml), v)
    <2>1. HasAt(b, at + 1, Extension(dl))
      <3>1. 1 + Len(Extension(dl)) <= Len(w)
        BY <1>1, <1>4, <1>5
      <3> QED BY <1>1, <1>3, <1>4, <3>1, HasAtPrefix
    <2>2. HasAt(b, at + (1 + md), Extension(l))
      <3>1. (1 + md) + Len(Extension(l)) <= Len(w) /\ 1 + md \in Nat
        BY <1>1, <1>4, <1>5
      <3>2. HasAt(w, 1 + md, Extension(l))
        BY <1>1, <1>3
      <3> HIDE DEF l
      <3> QED BY <1>1, <1>3, <1>5, <3>1, <3>2, HasAtPrefix
    <2>3. HasAt(b, at + (1 + md + ml), v)
      <3>1. (1 + md + ml) + Len(v) <= Len(w) /\ 1 + md + ml \in Nat
        BY <1>1, <1>4, <1>5
      <3> QED BY <1>1, <1>3, <3>1, HasAtPrefix
    <2> QED BY <2>1, <2>2, <2>3
  <1>7. head = Nibble(dl) * Nib + Nibble(l)
    <2>1. 1 \in 1..Len(w)
      BY <1>1, <1>4, <1>5
    <2> QED BY <1>1, <1>3, <2>1 DEF HasAt
  <1> HIDE DEF l
  <1>8. head # Marker /\ head \div Nib = Nibble(dl) /\ head % Nib = Nibble(l)
    <2>1. Nibble(dl) \in 0..Nib - 1 /\ Nibble(l) \in 0..Nib - 1
      BY <1>4, <1>5, Limits
    <2> QED BY <1>4, <1>5, <1>7, <2>1, HeadByte, HeadIsNotMarker
  <1>9. Nib - 1 \notin {Nibble(dl), Nibble(l)}
    BY <1>4, <1>5, Limits
  <1>10. ReadLength(b, at + 1, Nibble(dl)) = [v |-> dl, i |-> (at + 1) + md]
    <2>1. (at + 1) + md <= Len(b) /\ at + 1 \in Nat
      BY <1>1, <1>3, <1>4, <1>5
    <2> QED BY <1>1, <1>6, <2>1, ReadLengthOfWritten DEF md
  <1>11. ReadLength(b, (at + 1) + md, Nibble(l)) = [v |-> l, i |-> ((at + 1) + md) + ml]
    <2>1. l \in Nat /\ (at + 1) + md \in Nat /\ at + (1 + md) = (at + 1) + md
      BY <1>1, <1>4 DEF l
    <2>2. ReadLength(b, (at + 1) + md, Nibble(l)) = [v |-> l, i |-> ((at + 1) + md) + MoreBytes(l)]
      <3> DEFINE p == (at + 1) + md
      <3>1. p \in Nat /\ HasAt(b, p, Extension(l))
        BY <1>6, <2>1
      <3>2. p + MoreBytes(l) <= Len(b)
        <4>1. p + ml <= Len(b)
          BY <1>1, <1>3, <1>4, <1>5 DEF p
        <4> QED BY <4>1 DEF ml, l
      <3> HIDE DEF p
      <3>3. ReadLength(b, p, Nibble(l)) = [v |-> l, i |-> p + MoreBytes(l)]
        BY <2>1, <3>1, <3>2, ReadLengthOfWritten
      <3> QED BY <3>3 DEF p
    <2> QED BY <2>2 DEF ml, l
  <1> DEFINE p == ((at + 1) + md) + ml
  <1>12. p \in Nat /\ p = at + (1 + md + ml) /\ p + l = at + Len(w) /\ l \in Nat
    BY <1>1, <1>4, <1>5 DEF l
  <1>13. [j \in 1..l |-> ByteAt(b, p + j)] = v
    <2>1. ASSUME NEW j \in 1..l
          PROVE  ByteAt(b, p + j) = v[j]
      <3>1. b[p + j] = v[j]
        BY <1>6, <1>12 DEF HasAt, l
      <3>2. p + j <= Len(b)
        BY <1>3, <1>12
      <3> QED BY <3>1, <3>2 DEF ByteAt
    <2>2. v = [j \in 1..l |-> v[j]]
      BY <1>1 DEF l
    <2> HIDE DEF p, l
    <2> QED BY <2>1, <2>2
  <1>14. ReadOption(b, d) = [ok |-> TRUE, i |-> p + l, nb |-> Before(s, k) + dl,
                             opts |-> Append(o, Opt(Before(s, k) + dl, [j \in 1..l |-> ByteAt(b, p + j)]))]
    <2>1. d.ok = TRUE /\ d.i = at /\ d.nb = Before(s, k) /\ d.opts = o
      OBVIOUS
    <2> HIDE DEF d
    <2> DEFINE hd == b[d.i + 1]
               delta == ReadLength(b, d.i + 1, hd \div Nib)
               length == ReadLength(b, delta.i, hd % Nib)
    <2>2. hd = head
      BY <2>1
    <2>3. hd \div Nib = Nibble(dl) /\ hd % Nib = Nibble(l)
      BY <1>8, <2>2
    <2> HIDE DEF hd, head
    <2>4. delta = [v |-> dl, i |-> (at + 1) + md]
      BY <1>10, <2>1, <2>3
    <2> HIDE DEF delta
    <2>5. length = [v |-> l, i |-> p]
      BY <1>11, <2>3, <2>4
    <2>6. Nib - 1 \notin {hd \div Nib, hd % Nib}
      BY <1>9, <2>3
    <2> HIDE DEF length, p
    <2>7. /\ delta.v = dl /\ length.v = l /\ length.i = p
      BY <2>4, <2>5
    <2>8. ReadOption(b, d) =
            [ok |-> d.ok, i |-> length.i + length.v, nb |-> d.nb + delta.v,
             opts |-> Append(d.opts, Opt(d.nb + delta.v, [j \in 1..length.v |-> ByteAt(b, length.i + j)]))]
      BY <2>6 DEF ReadOption, length, delta, hd
    <2> QED BY <2>1, <2>7, <2>8
  <1>15. ReadOption(b, d) = [ok |-> TRUE, i |-> at + Len(w), nb |-> s[k].code, opts |-> Append(o, s[k])]
    <2> DEFINE q == [j \in 1..l |-> ByteAt(b, p + j)]
    <2>1. q = v /\ p + l = at + Len(w) /\ Before(s, k) + dl = s[k].code
          /\ s[k] = Opt(s[k].code, v)
      BY <1>2, <1>12, <1>13
    <2>2. ReadOption(b, d) = [ok |-> TRUE, i |-> p + l, nb |-> Before(s, k) + dl,
                              opts |-> Append(o, Opt(Before(s, k) + dl, q))]
      BY <1>14
    <2> HIDE DEF d, q, p, l, dl, v, w
    <2> QED BY <2>1, <2>2
  <1> HIDE DEF d
  <1> QED BY <1>8, <1>15 DEF w, d, ReadsOption

\* Before the first option, and what one turn of the loop does
Start == [ok |-> TRUE, i |-> 0, nb |-> 0, opts |-> <<>>]

Turn(b, d) == IF d.ok /\ d.i < Len(b) /\ b[d.i + 1] # Marker THEN ReadOption(b, d) ELSE d

\* g is where the decoder is in b after each turn of its loop.
IsReading(b, n, f) ==
  f = [k \in 0..n |-> IF k = 0 THEN Start ELSE Turn(b, f[k-1])]

\* There is such a function.
LEMMA Reading ==
  ASSUME NEW b, NEW n \in Nat
  PROVE  \E f : IsReading(b, n, f)
  <1> DEFINE Is(m, f) == IsReading(b, m, f)
             S == {m \in Nat : \E f : Is(m, f)}
  <1>1. 0 \in S
    <2>1. Is(0, [k \in 0..0 |-> Start])
      BY DEF IsReading
    <2> QED BY <2>1
  <1>2. ASSUME NEW m \in Nat, m \in S
        PROVE  m + 1 \in S
    <2>1. PICK f : Is(m, f)
      BY <1>2
    <2> DEFINE last == Turn(b, f[m])
               g == [k \in 0..(m + 1) |-> IF k = m + 1 THEN last ELSE f[k]]
    <2>2. /\ \A k \in 0..m : g[k] = f[k]
          /\ g[m + 1] = last /\ g = [k \in 0..(m + 1) |-> g[k]]
      OBVIOUS
    <2>3. \A k \in 0..m : f[k] = IF k = 0 THEN Start ELSE Turn(b, f[k-1])
      BY <2>1 DEF IsReading
    <2> HIDE DEF g, Is
    <2>4. ASSUME NEW k \in 0..(m + 1)
          PROVE  g[k] = IF k = 0 THEN Start ELSE Turn(b, g[k-1])
      <3>1. CASE k = m + 1
        <4>1. k # 0 /\ k - 1 = m /\ m \in 0..m
          BY <3>1
        <4> QED BY <2>2, <3>1, <4>1
      <3>2. CASE k # m + 1
        <4>1. k \in 0..m /\ (k # 0 => k - 1 \in 0..m)
          BY <3>2
        <4> HIDE DEF last
        <4> QED BY <2>2, <2>3, <4>1
      <3> QED BY <3>1, <3>2
    <2>5. Is(m + 1, g)
      BY <2>2, <2>4 DEF Is, IsReading
    <2> QED BY <2>5
  <1> HIDE DEF Is
  <1>3. Nat \subseteq S
    <2> HIDE DEF S
    <2> QED BY <1>1, <1>2, NatSet
  <1>4. \E f : Is(n, f)
    BY <1>3
  <1> QED BY <1>4 DEF Is

\* The loop of the decoder goes through such a function.
LEMMA ReadingOptions ==
  ASSUME NEW b, Len(b) \in Nat
  PROVE  \E h : /\ h[0] = Start /\ \A k \in 1..Len(b) : h[k] = Turn(b, h[k-1])
                /\ ReadOptions(b) = h[Len(b)]
  <1> DEFINE N == Len(b)
             Body(g) == [k \in 0..N |-> IF k = 0 THEN Start ELSE Turn(b, g[k-1])]
             h == CHOOSE g : g = Body(g)
  <1>1. h = Body(h)
    <2>1. PICK g : IsReading(b, N, g)
      <3> HIDE DEF N
      <3> QED BY Reading DEF N
    <2>2. g = Body(g)
      BY <2>1 DEF IsReading
    <2> HIDE DEF Body
    <2> QED BY <2>2
  <1>2. ReadOptions(b) = h[N]
    BY DEF ReadOptions, Start, Turn
  <1>3. N \in Nat
    OBVIOUS
  <1>4. h[0] = Start /\ \A k \in 1..N : h[k] = Turn(b, h[k-1])
    <2> HIDE DEF h, N
    <2> QED BY <1>1, <1>3
  <1> HIDE DEF h
  <1> QED BY <1>2, <1>4

\* Where the decoder is after the k-th option
ReadState(s, f, k) ==
  [ok |-> TRUE, i |-> Len(f[k]), nb |-> IF k = 0 THEN 0 ELSE s[k].code, opts |-> SubSeq(s, 1, k)]

\* The options are read one at a turn, until the end of the message or its payload.
LEMMA OptionsRead ==
  ASSUME NEW s \in Seq(Option), Sorted(s), NEW f, NEW py \in BOOLEAN,
         IsEncoding(s, Len(s), f, py),
         \A k \in 1..Len(s) : OneByteLength(Len(s[k].val)) => py,
         NEW b \in Seq(Nat), HasAt(b, 0, f[Len(s)]), Len(f[Len(s)]) <= Len(b),
         Len(f[Len(s)]) = Len(b) \/ b[Len(f[Len(s)]) + 1] = Marker
  PROVE  ReadOptions(b) = ReadState(s, f, Len(s))
  <1> DEFINE n == Len(s)
             N == Len(b)
  <1>1. n \in Nat /\ N \in Nat
    BY LenProperties
  <1>2. PICK h : /\ h[0] = Start /\ \A k \in 1..N : h[k] = Turn(b, h[k-1])
                 /\ ReadOptions(b) = h[N]
    BY <1>1, ReadingOptions
  <1>3. ReadOptions(b) = h[N]
    BY <1>2
  <1>4. h[0] = Start /\ \A k \in 1..N : h[k] = Turn(b, h[k-1])
    BY <1>2
  <1>5. /\ f[0] = <<>>
        /\ \A k \in 0..n : f[k] \in Seq(Nat) /\ Len(f[k]) \in Nat /\ Len(f[k]) >= k /\ Len(f[k]) <= Len(f[n])
        /\ \A k \in 1..n : /\ Len(f[k]) = Len(f[k-1]) + Len(OptionBytes(s, k, py))
                          /\ HasAt(f[n], Len(f[k-1]), OptionBytes(s, k, py))
    BY EncodedOptions
  <1> DEFINE Q(k) == ReadState(s, f, k)
  <1>6. n <= N
    <2>1. n \in 0..n
      BY <1>1
    <2>2. Len(f[n]) \in Nat /\ Len(f[n]) >= n /\ Len(f[n]) <= N
      BY <1>5, <2>1
    <2> HIDE DEF n, N
    <2> QED BY <1>1, <2>2
  <1>7. Q(0) = Start
    <2>1. SubSeq(s, 1, 0) = <<>> /\ Len(<<>>) = 0
      BY SubSeqEmpty, EmptySeq
    <2> QED BY <1>5, <2>1 DEF ReadState, Start
  <1>8. ASSUME NEW k \in 1..n
        PROVE  Turn(b, Q(k-1)) = Q(k)
    <2> DEFINE w == OptionBytes(s, k, py)
               at == Len(f[k-1])
    <2>1. /\ k - 1 \in 0..n /\ k \in 0..n /\ n \in 0..n
      BY <1>1
    <2>2. /\ at \in Nat /\ Len(f[k]) = at + Len(w) /\ Len(f[k]) <= Len(f[n])
          /\ Len(f[k]) \in Nat /\ Len(f[n]) \in Nat /\ f[n] \in Seq(Nat)
          /\ HasAt(f[n], at, w)
      BY <1>5, <2>1
    <2>3. w \in Seq(Nat) /\ Len(w) \in Nat /\ Len(w) >= 1
      <3>1. /\ w \in Seq(Nat) /\ Delta(s, k) \in Nat /\ Len(s[k].val) \in Nat
            /\ Len(w) = 1 + MoreBytes(Delta(s, k)) + MoreBytes(Len(s[k].val)) + Len(s[k].val)
        BY OptionWritten
      <3>2. MoreBytes(Delta(s, k)) \in 0..2 /\ MoreBytes(Len(s[k].val)) \in 0..2
        BY <3>1 DEF MoreBytes
      <3>3. Len(w) \in Nat
        BY <3>1, LenProperties
      <3> DEFINE x == MoreBytes(Delta(s, k))
                 y == MoreBytes(Len(s[k].val))
                 z == Len(s[k].val)
                 l == Len(w)
      <3>4. l = 1 + x + y + z /\ x \in Nat /\ y \in Nat /\ z \in Nat
        <4>1. 0..2 \subseteq Nat
          OBVIOUS
        <4> HIDE DEF w
        <4> QED BY <3>1, <3>2, <4>1
      <3> HIDE DEF x, y, z, l, w
      <3>5. l >= 1
        BY <3>4
      <3> QED BY <3>1, <3>3, <3>5 DEF l
    <2>4. HasAt(b, at, w)
      <3>1. at + Len(w) <= Len(f[n])
        BY <2>2
      <3> HIDE DEF at, w
      <3>2. HasAt(b, 0 + at, w)
        BY <2>2, <2>3, <3>1, HasAtPrefix
      <3> QED BY <2>2, <3>2
    <2>5. at < N
      <3> DEFINE x == Len(f[n])
                 y == Len(w)
      <3>1. x \in Nat /\ x <= N /\ at + y <= x /\ y \in Nat /\ y >= 1
        BY <2>2, <2>3
      <3> HIDE DEF x, y, N, at
      <3> QED BY <1>1, <2>2, <3>1
    <2>6. Q(k-1) = [ok |-> TRUE, i |-> at, nb |-> Before(s, k), opts |-> SubSeq(s, 1, k-1)]
      <3>1. (k - 1 = 0) <=> (k = 1)
        OBVIOUS
      <3> QED BY <3>1 DEF ReadState, Before
    <2>7. SubSeq(s, 1, k) = Append(SubSeq(s, 1, k-1), s[k])
      <3> DEFINE u == SubSeq(s, 1, k-1)
      <3>1. 1 \in 1..n /\ k \in 1..n
        BY <1>1
      <3>2. SubSeq(s, 1, k) = u \o <<s[k]>>
        BY <3>1, SubSeqRecursiveSecond
      <3>3. \A i \in 1..k-1 : s[i] \in Option
        <4>1. \A i \in 1..k-1 : i \in 1..n
          BY <1>1
        <4> QED BY <4>1, ElementOfSeq
      <3>4. u \in Seq(Option)
        BY <3>3, SubSeqProperties
      <3>5. s[k] \in Option
        BY ElementOfSeq
      <3> HIDE DEF u
      <3>6. Append(u, s[k]) = u \o <<s[k]>>
        BY <3>4, <3>5, AppendIsConcat
      <3> QED BY <3>2, <3>6 DEF u
    <2> DEFINE o == SubSeq(s, 1, k-1)
               d == [ok |-> TRUE, i |-> at, nb |-> Before(s, k), opts |-> o]
    <2>8. /\ b[at + 1] # Marker
          /\ ReadOption(b, d) = [ok |-> TRUE, i |-> at + Len(w), nb |-> s[k].code, opts |-> Append(o, s[k])]
      <3>1. /\ at \in Nat /\ HasAt(b, at, OptionBytes(s, k, py)) /\ k \in 1..Len(s)
            /\ at + Len(OptionBytes(s, k, py)) <= Len(b) /\ Len(b) \in Nat
            /\ OneByteLength(Len(s[k].val)) => py
        BY <1>1, <2>2, <2>4
      <3> HIDE DEF at, o
      <3>2. ReadsOption(b, s, k, at, o, py)
        BY <3>1, OptionRead
      <3> QED BY <3>2 DEF ReadsOption, d, w
    <2>9. Turn(b, d) = ReadOption(b, d)
      <3>1. d.ok /\ d.i = at
        OBVIOUS
      <3> HIDE DEF d, at
      <3> QED BY <2>5, <2>8, <3>1 DEF Turn
    <2>10. Q(k) = [ok |-> TRUE, i |-> at + Len(w), nb |-> s[k].code, opts |-> Append(o, s[k])]
      <3>1. k # 0
        OBVIOUS
      <3> HIDE DEF at, w, o
      <3> QED BY <2>2, <2>7, <3>1 DEF ReadState, o
    <2> HIDE DEF at, w, o, d
    <2> QED BY <2>6, <2>8, <2>9, <2>10 DEF d, o
  <1>9. Turn(b, Q(n)) = Q(n)
    <2> DEFINE d == Q(n)
    <2>1. d.i = Len(f[n])
      BY DEF ReadState
    <2>2. Len(f[n]) \in Nat
      <3>1. n \in 0..n
        BY <1>1
      <3> QED BY <1>5, <3>1
    <2>3. ~ (d.i < N /\ b[d.i + 1] # Marker)
      <3>1. d.i = N \/ b[d.i + 1] = Marker
        BY <2>1
      <3> HIDE DEF d, N
      <3> QED BY <1>1, <2>1, <3>1
    <2> HIDE DEF d
    <2>4. Turn(b, d) = d
      BY <2>3 DEF Turn
    <2> QED BY <2>4 DEF d
  <1> HIDE DEF Q
  <1> DEFINE P(k) == h[k] = IF k <= n THEN Q(k) ELSE Q(n)
             S == {k \in Nat : k <= N => P(k)}
  <1>10. 0 \in S
    <2>1. 0 <= n
      BY <1>1
    <2> QED BY <1>4, <1>7, <2>1
  <1>11. ASSUME NEW k \in Nat, k \in S
         PROVE  k + 1 \in S
    <2>1. CASE k + 1 <= N
      <3>1. k + 1 \in 1..N /\ (k + 1) - 1 = k /\ k <= N
        BY <1>1, <2>1
      <3>2. P(k) /\ h[k + 1] = Turn(b, h[k])
        BY <1>4, <1>11, <3>1
      <3>3. CASE k + 1 <= n
        <4>1. k <= n /\ k + 1 \in 1..n
          BY <1>1, <3>3
        <4>2. Turn(b, Q(k)) = Q(k + 1)
          BY <1>8, <3>1, <4>1
        <4> QED BY <3>2, <3>3, <4>1, <4>2
      <3>4. CASE ~ (k + 1 <= n)
        <4>1. h[k] = Q(n)
          <5>1. k <= n => k = n
            BY <1>1, <3>4
          <5> QED BY <3>2, <5>1
        <4> QED BY <1>9, <3>2, <3>4, <4>1
      <3> QED BY <3>3, <3>4
    <2> QED BY <2>1
  <1>12. Nat \subseteq S
    <2> HIDE DEF S
    <2> QED BY <1>10, <1>11, NatSet
  <1>13. h[N] = Q(n)
    <2>1. P(N)
      BY <1>1, <1>12
    <2>2. N <= n => N = n
      BY <1>1, <1>6
    <2> QED BY <2>1, <2>2
  <1> QED BY <1>3, <1>13 DEF Q

\* The decoder finds all the options and is then before the payload, at x.
ReadsUpTo(b, m, x) ==
  /\ x \in Nat /\ Len(b) \in Nat /\ x <= Len(b) /\ (x < Len(b) <=> m.payload # <<>>)
  /\ ReadOptions(b).ok = TRUE /\ ReadOptions(b).i = x
  /\ ReadOptions(b).opts = SortOptions(m.opts)
  /\ SubSeq(b, x + 2, Len(b)) = m.payload

\* The options of a message are found where they were written, unless the length of one
\* was not written as it should be.
LEMMA EncodedRead ==
  ASSUME NEW m, IsMessage(m), NEW py \in BOOLEAN, Readable(m, py)
  PROVE  \E x : ReadsUpTo(Encode(m, py), m, x)
  <1> DEFINE s == SortOptions(m.opts)
             n == Len(m.opts)
             b == Encode(m, py)
             e == PayloadBytes(m)
  <1>1. s \in Seq(Option) /\ Len(s) = n /\ Sorted(s) /\ n \in Nat
    BY SortOptionsSorted, LenProperties DEF IsMessage
  <1>0. \A k \in 1..Len(s) : OneByteLength(Len(s[k].val)) => py
    <2> DEFINE O == {o \in Option : OneByteLength(Len(o.val)) => py}
    <2>1. \A k \in 1..n : m.opts[k] \in O
      BY ElementOfSeq DEF IsMessage, Readable
    <2>2. m.opts \in Seq(O)
      BY <1>1, <2>1 DEF IsMessage
    <2>3. O \subseteq Option
      OBVIOUS
    <2> HIDE DEF O
    <2>4. s \in Seq(O)
      BY <2>2, <2>3, SortOptionsSorted
    <2>5. \A k \in 1..Len(s) : s[k] \in O
      BY <2>4, ElementOfSeq
    <2> QED BY <2>5 DEF O
  <1>2. PICK f : IsEncoding(s, n, f, py) /\ b = f[n] \o e
    BY EncodeIs DEF IsMessage
  <1>3. e \in Seq(Nat) /\ Len(e) \in Nat
    <2>1. Marker \in Nat /\ m.payload \in Seq(Nat)
      BY Limits DEF IsMessage
    <2>2. <<Marker>> \in Seq(Nat) /\ <<>> \in Seq(Nat)
      BY <2>1
    <2>3. <<Marker>> \o m.payload \in Seq(Nat)
      BY <2>1, <2>2, ConcatProperties
    <2> QED BY <2>2, <2>3, LenProperties DEF PayloadBytes
  <1> HIDE DEF s, n, b, e
  <1>4. f[n] \in Seq(Nat) /\ Len(f[n]) \in Nat
    <2>1. n \in 0..n
      BY <1>1
    <2> QED BY <1>1, <1>2, <2>1, EncodedOptions
  <1> DEFINE x == Len(f[n])
  <1>5. /\ b \in Seq(Nat) /\ Len(b) = x + Len(e)
        /\ HasAt(b, 0, f[n]) /\ HasAt(b, x, e)
    BY <1>2, <1>3, <1>4, ConcatProperties, HasAtConcat
  <1>6. \/ m.payload = <<>> /\ e = <<>> /\ Len(e) = 0
        \/ m.payload # <<>> /\ Len(e) = Len(m.payload) + 1 /\ HasAt(e, 1, m.payload) /\ e[1] = Marker
    <2>1. CASE m.payload = <<>>
      BY <2>1, EmptySeq DEF PayloadBytes, e
    <2>2. CASE m.payload # <<>>
      <3>1. <<Marker>> \in Seq(Nat) /\ m.payload \in Seq(Nat) /\ Len(<<Marker>>) = 1
            /\ <<Marker>>[1] = Marker
        BY Limits DEF IsMessage
      <3>2. e = <<Marker>> \o m.payload
        BY <2>2 DEF e, PayloadBytes
      <3>3. /\ Len(e) = 1 + Len(m.payload) /\ HasAt(e, 0, <<Marker>>) /\ HasAt(e, 1, m.payload)
        BY <3>1, <3>2, ConcatProperties, HasAtConcat
      <3>4. e[1] = Marker
        <4>1. 1 \in 1..Len(<<Marker>>) /\ 0 + 1 = 1
          BY <3>1
        <4> QED BY <3>1, <3>3, <4>1 DEF HasAt
      <3>5. Len(m.payload) \in Nat
        BY <3>1, LenProperties
      <3> QED BY <2>2, <3>3, <3>4, <3>5
    <2> QED BY <2>1, <2>2
  <1>7. Len(e) = 0 \/ b[x + 1] = Marker
    <2>1. CASE m.payload # <<>>
      <3>1. 1 \in 1..Len(e) /\ e[1] = Marker
        <4>1. Len(m.payload) \in Nat
          BY LenProperties DEF IsMessage
        <4> QED BY <1>6, <2>1, <4>1
      <3> QED BY <1>5, <3>1 DEF HasAt
    <2> QED BY <1>6, <2>1
  <1>8. ReadOptions(b) = ReadState(s, f, n)
    <2>1. x <= Len(b) /\ (x = Len(b) \/ b[x + 1] = Marker)
      BY <1>3, <1>4, <1>5, <1>7
    <2> QED BY <1>1, <1>2, <1>5, <1>0, <2>1, OptionsRead
  <1>9. SubSeq(s, 1, n) = s
    BY <1>1, SubSeqFull
  <1> DEFINE d == ReadOptions(b)
  <1>10. d.ok = TRUE /\ d.i = x /\ d.opts = s
    BY <1>8, <1>9 DEF ReadState
  <1>11. SubSeq(b, x + 2, Len(b)) = m.payload
    <2> DEFINE q == m.payload
    <2>1. q \in Seq(Nat) /\ Len(q) \in Nat
      BY LenProperties DEF IsMessage
    <2>2. CASE q = <<>>
      <3>1. Len(b) < x + 2 /\ x + 2 \in Int /\ Len(b) \in Int
        BY <1>4, <1>5, <1>6, <2>2
      <3> QED BY <2>2, <3>1, SubSeqEmpty
    <2>3. CASE q # <<>>
      <3> HIDE DEF q, x
      <3>1. /\ Len(b) = x + (Len(q) + 1) /\ x \in Nat
            /\ \A j \in 1..Len(q) : e[1 + j] = q[j]
        BY <1>4, <1>5, <1>6, <2>3 DEF HasAt, q, x
      <3>2. \A j \in 1..Len(q) : b[(x + 1) + j] = q[j]
        <4>1. ASSUME NEW j \in 1..Len(q)
              PROVE  b[(x + 1) + j] = q[j]
          <5>1. 1 + j \in 1..Len(e) /\ x + (1 + j) = (x + 1) + j
            BY <1>6, <2>1, <2>3, <3>1 DEF q
          <5>2. b[x + (1 + j)] = e[1 + j]
            BY <1>5, <5>1 DEF HasAt
          <5> QED BY <3>1, <5>1, <5>2
        <4> QED BY <4>1
      <3> DEFINE u == SubSeq(b, x + 2, Len(b))
      <3>3. \A j \in (x + 2)..Len(b) : b[j] \in Nat
        <4>1. \A j \in (x + 2)..Len(b) : j \in 1..Len(b)
          BY <2>1, <3>1
        <4> QED BY <1>5, <4>1, ElementOfSeq
      <3>4. x + 2 \in Int /\ Len(b) \in Int /\ Len(b) - (x + 2) + 1 = Len(q)
        BY <2>1, <3>1
      <3>5. /\ u \in Seq(Nat)
            /\ Len(u) = IF x + 2 <= Len(b) THEN Len(b) - (x + 2) + 1 ELSE 0
            /\ \A j \in 1..(Len(b) - (x + 2) + 1) : u[j] = b[(x + 2) + j - 1]
        BY <3>3, <3>4, SubSeqProperties
      <3> HIDE DEF u
      <3>6. Len(u) = Len(q)
        BY <2>1, <3>1, <3>4, <3>5
      <3>7. ASSUME NEW j \in 1..Len(u)
            PROVE  u[j] = q[j]
        <4>1. j \in 1..Len(q) /\ (x + 2) + j - 1 = (x + 1) + j
          BY <3>1, <3>6
        <4> QED BY <3>2, <3>4, <3>5, <4>1
      <3>8. u = q
        BY <2>1, <3>5, <3>6, <3>7, SeqEqual
      <3> QED BY <3>8 DEF u, q
    <2> QED BY <2>2, <2>3
  <1> HIDE DEF d
  <1>12. x \in Nat /\ Len(b) \in Nat /\ x <= Len(b) /\ (x < Len(b) <=> m.payload # <<>>)
    <2>1. Len(m.payload) \in Nat
      BY LenProperties DEF IsMessage
    <2> QED BY <1>3, <1>4, <1>5, <1>6, <2>1
  <1>13. ReadsUpTo(b, m, x)
    <2> HIDE DEF x
    <2> QED BY <1>10, <1>11, <1>12 DEF ReadsUpTo, d, s
  <1> HIDE DEF x
  <1> QED BY <1>13 DEF b

\* What the master reads of a message is the message: its options in order, with their
\* values, and its payload.  It holds of every message of the Python master, and of those
\* of the C++ master and the slave that have no option of 13 to 268 bytes.
THEOREM DecodeEncode ==
  ASSUME NEW m, IsMessage(m), NEW py \in BOOLEAN, Readable(m, py)
  PROVE  Decode(Encode(m, py)) =
           [ok |-> TRUE, opts |-> SortOptions(m.opts), payload |-> m.payload]
  <1> DEFINE b == Encode(m, py)
             d == ReadOptions(b)
  <1>1. PICK x : ReadsUpTo(b, m, x)
    BY EncodedRead
  <1> HIDE DEF b
  <1>2. Decode(b) = [ok |-> d.ok, opts |-> d.opts,
                     payload |-> IF d.ok THEN SubSeq(b, d.i + 2, Len(b)) ELSE <<>>]
    BY DEF Decode
  <1>3. d.ok = TRUE /\ d.i = x /\ d.opts = SortOptions(m.opts) /\ SubSeq(b, x + 2, Len(b)) = m.payload
    BY <1>1 DEF ReadsUpTo
  <1> HIDE DEF d
  <1>4. Decode(b) = [ok |-> TRUE, opts |-> SortOptions(m.opts), payload |-> m.payload]
    BY <1>2, <1>3
  <1> QED BY <1>4 DEF b

\* What the slave reads of such a message is the same, but for one byte that it adds to
\* the payload, if there is one.
THEOREM SlaveDecodeEncode ==
  ASSUME NEW m, IsMessage(m), NEW py \in BOOLEAN, Readable(m, py)
  PROVE  SlaveDecode(Encode(m, py), FALSE) =
           [ok |-> TRUE, opts |-> SortOptions(m.opts),
            payload |-> IF m.payload = <<>> THEN <<>> ELSE m.payload \o <<Junk>>]
  <1> DEFINE b == Encode(m, py)
             d == ReadOptions(b)
             ok == d.ok /\ d.i <= Len(b)
  <1>1. PICK x : ReadsUpTo(b, m, x)
    BY EncodedRead
  <1> HIDE DEF b
  <1>2. SlaveDecode(b, FALSE) =
          [ok |-> ok, opts |-> d.opts,
           payload |-> IF ok /\ d.i < Len(b) THEN SubSeq(b, d.i + 2, Len(b)) \o <<Junk>> ELSE <<>>]
    BY DEF SlaveDecode
  <1>3. /\ d.ok = TRUE /\ d.i = x /\ d.opts = SortOptions(m.opts)
        /\ SubSeq(b, x + 2, Len(b)) = m.payload
        /\ x <= Len(b) /\ (x < Len(b) <=> m.payload # <<>>)
    BY <1>1 DEF ReadsUpTo
  <1> HIDE DEF d
  <1>4. ok = TRUE
    BY <1>3
  <1> HIDE DEF ok
  <1>5. SlaveDecode(b, FALSE) =
          [ok |-> TRUE, opts |-> SortOptions(m.opts),
           payload |-> IF m.payload = <<>> THEN <<>> ELSE m.payload \o <<Junk>>]
    BY <1>2, <1>3, <1>4
  <1> QED BY <1>5 DEF b

\* The C++ master's encoding of an option of 13 to 255 bytes, alone in a message: the slave
\* reads past the end of the message, and the message is not one that it understands.
THEOREM LongOptionNotRead ==
  ASSUME NEW m, NEW c \in Nat, NEW v \in Seq(Nat), T1 <= Len(v), Len(v) < Byte,
         m.opts = <<Opt(c, v)>>, m.payload = <<>>
  PROVE  SlaveDecode(Encode(m, FALSE), FALSE).ok = FALSE
  <1> DEFINE s == SortOptions(m.opts)
             w == OptionBytes(s, 1, FALSE)
             d == Delta(s, 1)
             l == Len(v)
             md == MoreBytes(d)
             b == Encode(m, FALSE)
             N == Len(b)
  <1>1. s = <<Opt(c, v)>> /\ s \in Seq(Option) /\ Len(s) = 1 /\ Sorted(s) /\ s[1].val = v
    <2>1. Opt(c, v) \in Option
      BY DEF Opt, Option
    <2>2. s = <<Opt(c, v)>>
      BY <2>1, SortOne
    <2>3. <<Opt(c, v)>> \in Seq(Option) /\ Len(<<Opt(c, v)>>) = 1 /\ <<Opt(c, v)>>[1].val = v
      <3>1. Opt(c, v).val = v
        BY DEF Opt
      <3> QED BY <2>1, <3>1
    <2> HIDE DEF s
    <2>4. Sorted(s)
      <3>1. \A i, j \in 1..Len(s) : ~ (i < j)
        BY <2>2, <2>3
      <3> QED BY <3>1 DEF Sorted
    <2> QED BY <2>2, <2>3, <2>4
  <1>2. /\ d \in Nat /\ l \in Nat /\ w \in Seq(Nat) /\ Len(w) = 1 + md + MoreBytes(l) + l
        /\ w[1] = Nibble(d) * Nib + Nibble(l)
        /\ HasAt(w, 1, Extension(d)) /\ HasAt(w, 1 + md, LengthBytes(l, FALSE))
    <2>1. 1 \in 1..Len(s)
      BY <1>1
    <2> HIDE DEF s
    <2> QED BY <1>1, <2>1, OptionWritten
  <1>3. b = w
    <2>1. m.opts \in Seq(Option) /\ Len(m.opts) = 1
      BY DEF Opt, Option
    <2>2. PICK f : /\ IsEncoding(SortOptions(m.opts), Len(m.opts), f, FALSE)
                   /\ Encode(m, FALSE) = f[Len(m.opts)] \o PayloadBytes(m)
      BY <2>1, EncodeIs
    <2>3. f[0] = <<>> /\ f[1] = f[0] \o w
      <3>1. \A k \in 0..1 : f[k] = IF k = 0 THEN <<>> ELSE f[k-1] \o OptionBytes(s, k, FALSE)
        BY <2>1, <2>2 DEF IsEncoding
      <3>2. 0 \in 0..1 /\ 1 \in 0..1 /\ 1 # 0 /\ 1 - 1 = 0
        OBVIOUS
      <3> HIDE DEF s
      <3> QED BY <3>1, <3>2
    <2>4. <<>> \o w = w /\ w \o <<>> = w
      BY <1>2, ConcatEmptySeq
    <2>5. PayloadBytes(m) = <<>>
      BY DEF PayloadBytes
    <2> QED BY <2>1, <2>2, <2>3, <2>4, <2>5
  <1>4. OneByteLength(l) /\ MoreBytes(l) = 1 /\ Nibble(l) = Nib - 3 /\ LengthBytes(l, FALSE) = <<l>>
    <2>1. l >= T1 /\ l < Byte /\ l \in Nat
      BY <1>2
    <2> HIDE DEF l
    <2>2. l < T2 /\ T1 \in Nat /\ T2 \in Nat /\ Byte \in Nat /\ Byte > 0
      BY <2>1, Limits
    <2>3. l % Byte = l
      <3> DEFINE q == l \div Byte
                 r == l % Byte
      <3>1. q \in Int /\ r \in 0..Byte - 1 /\ l = Byte * q + r
        BY <2>1, <2>2
      <3> HIDE DEF q, r
      <3>2. q >= 1 => Byte * q >= Byte
        BY <2>2, <3>1
      <3>3. q <= -1 => Byte * q <= - Byte
        BY <2>2, <3>1
      <3>4. Byte * q \in Int
        BY <2>2, <3>1
      <3>5. q = 0
        BY <2>1, <2>2, <3>1, <3>2, <3>3, <3>4
      <3>6. Byte * q = 0
        BY <2>2, <3>5
      <3> QED BY <2>1, <3>1, <3>6 DEF r
    <2>4. OneByteLength(l)
      BY <2>1, <2>2 DEF OneByteLength
    <2>5. MoreBytes(l) = 1 /\ Nibble(l) = Nib - 3
      BY <2>1, <2>2 DEF MoreBytes, Nibble
    <2> QED BY <2>3, <2>4, <2>5 DEF LengthBytes
  <1>5. /\ Nibble(d) \in 0..Nib - 2 /\ Extension(d) \in Seq(Nat)
        /\ Len(Extension(d)) = md /\ md \in 0..2
    BY <1>2, NibbleType
  <1> HIDE DEF s, w, d, l, md
  <1>6. /\ N = 2 + md + l /\ N \in Nat /\ N >= 1 /\ b[1] = Nibble(d) * Nib + (Nib - 3)
        /\ HasAt(b, 1, Extension(d)) /\ ByteAt(b, (1 + md) + 1) = l
    <2>1. N = 2 + md + l
      <3>1. Len(b) = 1 + md + 1 + l
        <4>1. Len(w) = 1 + md + 1 + l
          BY <1>2, <1>4
        <4> QED BY <1>3, <4>1
      <3>2. md \in Nat /\ l \in Nat
        BY <1>2, <1>5
      <3> HIDE DEF b
      <3> QED BY <3>1, <3>2
    <2> HIDE DEF b
    <2>2. HasAt(b, 1 + md, <<l>>)
      BY <1>2, <1>3, <1>4 DEF b
    <2>3. b[(1 + md) + 1] = l
      BY <2>2 DEF HasAt
    <2>4. (1 + md) + 1 <= N /\ N \in Nat /\ N >= 1
      BY <1>2, <1>5, <2>1
    <2> QED BY <1>2, <1>3, <1>4, <2>1, <2>3, <2>4 DEF ByteAt
  <1> HIDE DEF b
  <1>7. /\ b[1] # Marker /\ b[1] \div Nib = Nibble(d) /\ b[1] % Nib = Nib - 3
        /\ Nib - 1 \notin {b[1] \div Nib, b[1] % Nib}
    <2>1. Nib - 3 \in 0..Nib - 1 /\ Nib - 3 \in 0..Nib - 2 /\ Nibble(d) \in 0..Nib - 1
      BY <1>5, Limits
    <2>2. b[1] # Marker /\ b[1] \div Nib = Nibble(d) /\ b[1] % Nib = Nib - 3
      BY <1>5, <1>6, <2>1, HeadByte, HeadIsNotMarker
    <2>3. Nib - 1 # Nib - 3 /\ Nib - 1 # Nibble(d)
      BY <1>5, Limits
    <2> QED BY <2>2, <2>3
  <1>8. ReadLength(b, 1, Nibble(d)) = [v |-> d, i |-> 1 + md]
    <2>1. 1 + md <= Len(b) /\ Len(b) \in Nat
      BY <1>2, <1>5, <1>6
    <2>2. 1 + MoreBytes(d) <= Len(b)
      BY <2>1 DEF md
    <2>3. ReadLength(b, 1, Nibble(d)) = [v |-> d, i |-> 1 + MoreBytes(d)]
      BY <1>2, <1>6, <2>1, <2>2, ReadLengthOfWritten
    <2> QED BY <2>3 DEF md
  <1>9. ReadLength(b, 1 + md, Nib - 3) = [v |-> l + T1, i |-> (1 + md) + 1]
    BY <1>6 DEF ReadLength
  <1> DEFINE e == ReadOption(b, Start)
  <1>10. e.ok = TRUE /\ e.i = ((1 + md) + 1) + (l + T1)
    <2> DEFINE hd == b[Start.i + 1]
               delta == ReadLength(b, Start.i + 1, hd \div Nib)
               length == ReadLength(b, delta.i, hd % Nib)
               nb == Start.nb + delta.v
               val == [j \in 1..length.v |-> ByteAt(b, length.i + j)]
    <2>1. Start.i + 1 = 1 /\ Start.ok = TRUE
      BY DEF Start
    <2>2. hd = b[1]
      BY <2>1
    <2>3. delta = [v |-> d, i |-> 1 + md]
      BY <1>7, <1>8, <2>1, <2>2
    <2>4. length = [v |-> l + T1, i |-> (1 + md) + 1]
      <3>1. delta.i = 1 + md
        BY <2>3
      <3> QED BY <1>7, <1>9, <2>2, <3>1
    <2>5. Nib - 1 \notin {hd \div Nib, hd % Nib}
      BY <1>7, <2>2
    <2>6. e = [ok |-> Start.ok, i |-> length.i + length.v, nb |-> nb,
               opts |-> Append(Start.opts, Opt(nb, val))]
      BY <2>5 DEF ReadOption
    <2> HIDE DEF e, length, val, nb
    <2> QED BY <2>1, <2>4, <2>6
  <1> HIDE DEF e
  <1>11. Turn(b, Start) = e
    <2>1. Start.ok /\ Start.i < Len(b) /\ b[Start.i + 1] # Marker
      BY <1>6, <1>7 DEF Start
    <2> QED BY <2>1 DEF Turn, e
  <1>12. ~ (e.i <= N) /\ ~ (e.i < N)
    BY <1>2, <1>5, <1>6, <1>10, Limits
  <1>13. Turn(b, e) = e
    BY <1>12 DEF Turn
  <1>14. ReadOptions(b) = e
    <2>1. PICK h : /\ h[0] = Start /\ \A k \in 1..N : h[k] = Turn(b, h[k-1])
                   /\ ReadOptions(b) = h[N]
      BY <1>6, ReadingOptions
    <2> DEFINE S == {k \in Nat : k <= N /\ k >= 1 => h[k] = e}
    <2>2. 0 \in S
      OBVIOUS
    <2>3. ASSUME NEW k \in Nat, k \in S
          PROVE  k + 1 \in S
      <3>1. ASSUME k + 1 <= N
            PROVE  h[k + 1] = e
        <4>1. h[k + 1] = Turn(b, h[k])
          <5>1. k + 1 \in 1..N /\ (k + 1) - 1 = k
            BY <1>6, <3>1
          <5> QED BY <2>1, <5>1
        <4>2. k = 0 => h[k] = Start
          BY <2>1
        <4>3. k # 0 => h[k] = e
          BY <1>6, <2>3, <3>1
        <4> QED BY <1>11, <1>13, <4>1, <4>2, <4>3
      <3> QED BY <3>1
    <2>4. Nat \subseteq S
      <3> HIDE DEF S
      <3> QED BY <2>2, <2>3, NatSet
    <2> QED BY <1>6, <2>1, <2>4
  <1>15. SlaveDecode(b, FALSE).ok = (e.ok /\ e.i <= N)
    BY <1>14 DEF SlaveDecode
  <1> QED BY <1>12, <1>15 DEF b

(* ---------------------------------------------------------------------- *)
(* The size of a message                                                    *)

\* The size with an option more
Sized(x, s, k) == x + 1 + MoreBytes(Delta(s, k)) + MoreBytes(Len(s[k].val)) + Len(s[k].val)

\* f is the size that is computed after k options of s.
IsSizing(s, n, f) ==
  f = [k \in 0..n |-> IF k = 0 THEN 0 ELSE Sized(f[k-1], s, k)]

\* There is such a function.
LEMMA Sizing ==
  ASSUME NEW s, NEW n \in Nat
  PROVE  \E f : IsSizing(s, n, f)
  <1> DEFINE Is(m, f) == IsSizing(s, m, f)
             S == {m \in Nat : \E f : Is(m, f)}
  <1>1. 0 \in S
    <2>1. Is(0, [k \in 0..0 |-> 0])
      BY DEF IsSizing
    <2> QED BY <2>1
  <1>2. ASSUME NEW m \in Nat, m \in S
        PROVE  m + 1 \in S
    <2>1. PICK f : Is(m, f)
      BY <1>2
    <2> DEFINE last == Sized(f[m], s, m + 1)
               g == [k \in 0..(m + 1) |-> IF k = m + 1 THEN last ELSE f[k]]
    <2>2. /\ \A k \in 0..m : g[k] = f[k]
          /\ g[m + 1] = last /\ g = [k \in 0..(m + 1) |-> g[k]]
      OBVIOUS
    <2>3. \A k \in 0..m : f[k] = IF k = 0 THEN 0 ELSE Sized(f[k-1], s, k)
      BY <2>1 DEF IsSizing
    <2> HIDE DEF g, Is
    <2>4. ASSUME NEW k \in 0..(m + 1)
          PROVE  g[k] = IF k = 0 THEN 0 ELSE Sized(g[k-1], s, k)
      <3>1. CASE k = m + 1
        <4>1. k # 0 /\ k - 1 = m /\ m \in 0..m
          BY <3>1
        <4> QED BY <2>2, <3>1, <4>1
      <3>2. CASE k # m + 1
        <4>1. k \in 0..m /\ (k # 0 => k - 1 \in 0..m)
          BY <3>2
        <4> HIDE DEF last
        <4> QED BY <2>2, <2>3, <4>1
      <3> QED BY <3>1, <3>2
    <2>5. Is(m + 1, g)
      BY <2>2, <2>4 DEF Is, IsSizing
    <2> QED BY <2>5
  <1> HIDE DEF Is
  <1>3. Nat \subseteq S
    <2> HIDE DEF S
    <2> QED BY <1>1, <1>2, NatSet
  <1>4. \E f : Is(n, f)
    BY <1>3
  <1> QED BY <1>4 DEF Is

\* Whatever the options of a message and its payload, it is exactly as long as what is
\* computed before it is encoded.
THEOREM EncodedSizeExact ==
  ASSUME NEW m, IsMessage(m), NEW py \in BOOLEAN
  PROVE  Len(Encode(m, py)) = EncodedSize(m)
  <1> DEFINE s == SortOptions(m.opts)
             n == Len(m.opts)
             e == PayloadBytes(m)
             Body(f) == [k \in 0..n |-> IF k = 0 THEN 0 ELSE Sized(f[k-1], s, k)]
             h == CHOOSE f : f = Body(f)
             t == IF m.payload = <<>> THEN 0 ELSE 1 + Len(m.payload)
  <1>1. s \in Seq(Option) /\ Len(s) = n /\ Sorted(s) /\ n \in Nat
    BY SortOptionsSorted, LenProperties DEF IsMessage
  <1>2. PICK f : IsEncoding(s, n, f, py) /\ Encode(m, py) = f[n] \o e
    BY EncodeIs DEF IsMessage
  <1>3. e \in Seq(Nat) /\ Len(e) = t
    <2>1. Marker \in Nat /\ m.payload \in Seq(Nat)
      BY Limits DEF IsMessage
    <2>2. <<Marker>> \in Seq(Nat) /\ <<>> \in Seq(Nat) /\ Len(<<Marker>>) = 1 /\ Len(<<>>) = 0
      BY <2>1
    <2>3. /\ <<Marker>> \o m.payload \in Seq(Nat)
          /\ Len(<<Marker>> \o m.payload) = 1 + Len(m.payload)
      BY <2>1, <2>2, ConcatProperties
    <2> QED BY <2>2, <2>3 DEF PayloadBytes
  <1> HIDE DEF s, n, e, t
  <1>4. h = Body(h)
    <2>1. PICK g : IsSizing(s, n, g)
      BY <1>1, Sizing
    <2>2. g = Body(g)
      BY <2>1 DEF IsSizing
    <2> HIDE DEF Body
    <2> QED BY <2>2
  <1>5. EncodedSize(m) = h[n] + t
    BY <1>1 DEF EncodedSize, Sized, s, t
  <1>6. h[0] = 0 /\ \A k \in 1..n : h[k] = Sized(h[k-1], s, k)
    <2>1. 0 \in 0..n /\ \A k \in 1..n : k \in 0..n /\ k # 0
      BY <1>1
    <2>2. \A k \in 0..n : h[k] = IF k = 0 THEN 0 ELSE Sized(h[k-1], s, k)
      <3> HIDE DEF h
      <3> QED BY <1>4
    <2> HIDE DEF h, Body
    <2> QED BY <2>1, <2>2
  <1> HIDE DEF h, Body
  <1>7. /\ f[0] = <<>>
        /\ \A k \in 0..n : f[k] \in Seq(Nat) /\ Len(f[k]) \in Nat
        /\ \A k \in 1..n : Len(f[k]) = Len(f[k-1]) + Len(OptionBytes(s, k, py))
    BY <1>1, <1>2, EncodedOptions
  <1>8. \A k \in 1..n, x \in Nat : x + Len(OptionBytes(s, k, py)) = Sized(x, s, k)
    <2>1. ASSUME NEW k \in 1..n, NEW x \in Nat
          PROVE  x + Len(OptionBytes(s, k, py)) = Sized(x, s, k)
      <3> DEFINE l == Len(s[k].val)
                 d == Delta(s, k)
                 w == Len(OptionBytes(s, k, py))
      <3>1. w = 1 + MoreBytes(d) + MoreBytes(l) + l /\ l \in Nat
        BY <1>1, OptionWritten
      <3>2. MoreBytes(d) \in 0..2 /\ MoreBytes(l) \in 0..2
        BY DEF MoreBytes
      <3>3. Sized(x, s, k) = x + 1 + MoreBytes(d) + MoreBytes(l) + l
        BY DEF Sized
      <3> HIDE DEF l, d, w
      <3>4. x + w = Sized(x, s, k)
        BY <3>1, <3>2, <3>3
      <3> QED BY <3>4 DEF w
    <2> QED BY <2>1
  <1> DEFINE P(k) == h[k] = Len(f[k])
             S == {k \in Nat : k <= n => P(k)}
  <1>9. 0 \in S
    <2>1. Len(<<>>) = 0
      BY EmptySeq
    <2> QED BY <1>6, <1>7, <2>1
  <1>10. ASSUME NEW k \in Nat, k \in S
         PROVE  k + 1 \in S
    <2>1. CASE k + 1 <= n
      <3>1. k + 1 \in 1..n /\ (k + 1) - 1 = k /\ k <= n
        BY <1>1, <2>1
      <3>2. /\ h[k] = Len(f[k]) /\ Len(f[k]) \in Nat
            /\ h[k + 1] = Sized(h[k], s, k + 1)
            /\ Len(f[k + 1]) = Len(f[k]) + Len(OptionBytes(s, k + 1, py))
        <4>1. k \in 0..n
          BY <1>1, <3>1
        <4> QED BY <1>6, <1>7, <1>10, <3>1, <4>1
      <3>3. h[k + 1] = Len(f[k + 1])
        BY <1>8, <3>1, <3>2
      <3> QED BY <3>3
    <2> QED BY <2>1
  <1>11. Nat \subseteq S
    <2> HIDE DEF S
    <2> QED BY <1>9, <1>10, NatSet
  <1>12. h[n] = Len(f[n]) /\ n \in 0..n
    BY <1>1, <1>11
  <1>13. Len(f[n] \o e) = Len(f[n]) + Len(e)
    BY <1>3, <1>7, <1>12, ConcatProperties
  <1> QED BY <1>2, <1>3, <1>5, <1>12, <1>13

(* ---------------------------------------------------------------------- *)
(* Integers in options                                                      *)

\* A number without its last byte
LEMMA Quotient ==
  ASSUME NEW k \in Nat
  PROVE  /\ k \div Byte \in 0..k
         /\ k > 0 => k \div Byte \in 0..k - 1
         /\ k % Byte \in 0..Byte - 1
         /\ (k \div Byte) * Byte + (k % Byte) = k
  <1> DEFINE q == k \div Byte
             r == k % Byte
  <1>1. Byte \in Nat /\ Byte >= 16
    BY Limits
  <1>2. q \in Int /\ r \in 0..Byte - 1 /\ k = Byte * q + r
    BY <1>1
  <1> HIDE DEF q, r
  <1>3. q >= 0
    <2>1. ASSUME q < 0
          PROVE  FALSE
      <3>1. Byte * q <= - Byte
        BY <1>1, <1>2, <2>1
      <3>2. Byte * q \in Int
        BY <1>1, <1>2
      <3> QED BY <1>1, <1>2, <3>1, <3>2
    <2> QED BY <1>2, <2>1
  <1>4. q * Byte = Byte * q /\ Byte * q \in Nat /\ Byte * q >= 2 * q
    BY <1>1, <1>2, <1>3
  <1>5. q <= k /\ (k > 0 => q <= k - 1)
    BY <1>1, <1>2, <1>3, <1>4
  <1>6. /\ q \in 0..k /\ (k > 0 => q \in 0..k - 1)
        /\ r \in 0..Byte - 1 /\ q * Byte + r = k
    BY <1>1, <1>2, <1>3, <1>4, <1>5
  <1>7. q = k \div Byte /\ r = k % Byte
    BY DEF q, r
  <1> QED BY <1>6, <1>7

\* f has the bytes of every number up to n.
IsDigits(n, f) ==
  f = [k \in 0..n |-> IF k = 0 THEN <<>> ELSE f[k \div Byte] \o <<k % Byte>>]

\* There is such a function.
LEMMA Digits ==
  ASSUME NEW n \in Nat
  PROVE  \E f : IsDigits(n, f)
  <1> DEFINE Is(m, f) == IsDigits(m, f)
             S == {m \in Nat : \E f : Is(m, f)}
  <1>1. 0 \in S
    <2>1. Is(0, [k \in 0..0 |-> <<>>])
      BY DEF IsDigits
    <2> QED BY <2>1
  <1>2. ASSUME NEW m \in Nat, m \in S
        PROVE  m + 1 \in S
    <2>1. PICK f : Is(m, f)
      BY <1>2
    <2> DEFINE last == f[(m + 1) \div Byte] \o <<(m + 1) % Byte>>
               g == [k \in 0..(m + 1) |-> IF k = m + 1 THEN last ELSE f[k]]
    <2>2. /\ \A k \in 0..m : g[k] = f[k]
          /\ g[m + 1] = last /\ g = [k \in 0..(m + 1) |-> g[k]]
      OBVIOUS
    <2>3. \A k \in 0..m : f[k] = IF k = 0 THEN <<>> ELSE f[k \div Byte] \o <<k % Byte>>
      BY <2>1 DEF IsDigits
    <2> HIDE DEF g, Is
    <2>4. ASSUME NEW k \in 0..(m + 1)
          PROVE  g[k] = IF k = 0 THEN <<>> ELSE g[k \div Byte] \o <<k % Byte>>
      <3>1. CASE k = m + 1
        <4>1. k # 0 /\ (m + 1) \div Byte \in 0..m
          BY <3>1, Quotient
        <4> QED BY <2>2, <3>1, <4>1
      <3>2. CASE k # m + 1
        <4>1. k \in 0..m /\ (k # 0 => k \div Byte \in 0..m)
          BY <3>2, Quotient
        <4> HIDE DEF last
        <4> QED BY <2>2, <2>3, <4>1
      <3> QED BY <3>1, <3>2
    <2>5. Is(m + 1, g)
      BY <2>2, <2>4 DEF Is, IsDigits
    <2> QED BY <2>5
  <1> HIDE DEF Is
  <1>3. Nat \subseteq S
    <2> HIDE DEF S
    <2> QED BY <1>1, <1>2, NatSet
  <1>4. \E f : Is(n, f)
    BY <1>3
  <1> QED BY <1>4 DEF Is


\* f is the number that the first k bytes of b make.
IsUint(b, n, f) ==
  f = [k \in 0..n |-> IF k = 0 THEN 0 ELSE f[k-1] * Byte + b[k]]

\* There is such a function.
LEMMA Uint ==
  ASSUME NEW b, NEW n \in Nat
  PROVE  \E f : IsUint(b, n, f)
  <1> DEFINE Is(m, f) == IsUint(b, m, f)
             S == {m \in Nat : \E f : Is(m, f)}
  <1>1. 0 \in S
    <2>1. Is(0, [k \in 0..0 |-> 0])
      BY DEF IsUint
    <2> QED BY <2>1
  <1>2. ASSUME NEW m \in Nat, m \in S
        PROVE  m + 1 \in S
    <2>1. PICK f : Is(m, f)
      BY <1>2
    <2> DEFINE last == f[m] * Byte + b[m + 1]
               g == [k \in 0..(m + 1) |-> IF k = m + 1 THEN last ELSE f[k]]
    <2>2. /\ \A k \in 0..m : g[k] = f[k]
          /\ g[m + 1] = last /\ g = [k \in 0..(m + 1) |-> g[k]]
      OBVIOUS
    <2>3. \A k \in 0..m : f[k] = IF k = 0 THEN 0 ELSE f[k-1] * Byte + b[k]
      BY <2>1 DEF IsUint
    <2> HIDE DEF g, Is
    <2>4. ASSUME NEW k \in 0..(m + 1)
          PROVE  g[k] = IF k = 0 THEN 0 ELSE g[k-1] * Byte + b[k]
      <3>1. CASE k = m + 1
        <4>1. k # 0 /\ k - 1 = m /\ m \in 0..m
          BY <3>1
        <4> QED BY <2>2, <3>1, <4>1
      <3>2. CASE k # m + 1
        <4>1. k \in 0..m /\ (k # 0 => k - 1 \in 0..m)
          BY <3>2
        <4> HIDE DEF last
        <4> QED BY <2>2, <2>3, <4>1
      <3> QED BY <3>1, <3>2
    <2>5. Is(m + 1, g)
      BY <2>2, <2>4 DEF Is, IsUint
    <2> QED BY <2>5
  <1> HIDE DEF Is
  <1>3. Nat \subseteq S
    <2> HIDE DEF S
    <2> QED BY <1>1, <1>2, NatSet
  <1>4. \E f : Is(n, f)
    BY <1>3
  <1> QED BY <1>4 DEF Is


\* f is the product of the first k bytes of b.
IsProduct(b, n, f) ==
  f = [k \in 0..n |-> IF k = 0 THEN 1 ELSE f[k-1] * b[k]]

\* There is such a function.
LEMMA Product ==
  ASSUME NEW b, NEW n \in Nat
  PROVE  \E f : IsProduct(b, n, f)
  <1> DEFINE Is(m, f) == IsProduct(b, m, f)
             S == {m \in Nat : \E f : Is(m, f)}
  <1>1. 0 \in S
    <2>1. Is(0, [k \in 0..0 |-> 1])
      BY DEF IsProduct
    <2> QED BY <2>1
  <1>2. ASSUME NEW m \in Nat, m \in S
        PROVE  m + 1 \in S
    <2>1. PICK f : Is(m, f)
      BY <1>2
    <2> DEFINE last == f[m] * b[m + 1]
               g == [k \in 0..(m + 1) |-> IF k = m + 1 THEN last ELSE f[k]]
    <2>2. /\ \A k \in 0..m : g[k] = f[k]
          /\ g[m + 1] = last /\ g = [k \in 0..(m + 1) |-> g[k]]
      OBVIOUS
    <2>3. \A k \in 0..m : f[k] = IF k = 0 THEN 1 ELSE f[k-1] * b[k]
      BY <2>1 DEF IsProduct
    <2> HIDE DEF g, Is
    <2>4. ASSUME NEW k \in 0..(m + 1)
          PROVE  g[k] = IF k = 0 THEN 1 ELSE g[k-1] * b[k]
      <3>1. CASE k = m + 1
        <4>1. k # 0 /\ k - 1 = m /\ m \in 0..m
          BY <3>1
        <4> QED BY <2>2, <3>1, <4>1
      <3>2. CASE k # m + 1
        <4>1. k \in 0..m /\ (k # 0 => k - 1 \in 0..m)
          BY <3>2
        <4> HIDE DEF last
        <4> QED BY <2>2, <2>3, <4>1
      <3> QED BY <3>1, <3>2
    <2>5. Is(m + 1, g)
      BY <2>2, <2>4 DEF Is, IsProduct
    <2> QED BY <2>5
  <1> HIDE DEF Is
  <1>3. Nat \subseteq S
    <2> HIDE DEF S
    <2> QED BY <1>1, <1>2, NatSet
  <1>4. \E f : Is(n, f)
    BY <1>3
  <1> QED BY <1>4 DEF Is


\* The number that bytes make
LEMMA BytesUintIs ==
  ASSUME NEW b \in Seq(Nat)
  PROVE  \E u : /\ u[0] = 0
                /\ \A k \in 1..Len(b) : u[k] = u[k-1] * Byte + b[k]
                /\ \A k \in 0..Len(b) : u[k] \in Nat
                /\ BytesUint(b) = u[Len(b)]
  <1> DEFINE n == Len(b)
             Body(f) == [k \in 0..n |-> IF k = 0 THEN 0 ELSE f[k-1] * Byte + b[k]]
             h == CHOOSE f : f = Body(f)
  <1>1. n \in Nat /\ Byte \in Nat /\ \A k \in 1..n : b[k] \in Nat
    BY LenProperties, ElementOfSeq, Limits
  <1>2. h = Body(h)
    <2>1. PICK f : IsUint(b, n, f)
      <3> HIDE DEF n
      <3> QED BY <1>1, Uint
    <2>2. f = Body(f)
      BY <2>1 DEF IsUint
    <2> HIDE DEF Body
    <2> QED BY <2>2
  <1>3. BytesUint(b) = h[n]
    BY DEF BytesUint
  <1>4. h[0] = 0 /\ \A k \in 1..n : h[k] = h[k-1] * Byte + b[k]
    <2> HIDE DEF h
    <2> QED BY <1>1, <1>2
  <1> HIDE DEF h, Body
  <1> DEFINE S == {k \in Nat : k <= n => h[k] \in Nat}
  <1>5. 0 \in S
    BY <1>4
  <1>6. ASSUME NEW k \in Nat, k \in S
        PROVE  k + 1 \in S
    <2>1. CASE k + 1 <= n
      <3>1. k + 1 \in 1..n /\ (k + 1) - 1 = k /\ h[k] \in Nat
        BY <1>1, <1>6, <2>1
      <3>2. h[k + 1] = h[k] * Byte + b[k + 1] /\ b[k + 1] \in Nat
        BY <1>1, <1>4, <3>1
      <3>3. h[k] * Byte \in Nat
        BY <1>1, <3>1
      <3> QED BY <3>2, <3>3
    <2> QED BY <2>1
  <1>7. Nat \subseteq S
    <2> HIDE DEF S
    <2> QED BY <1>5, <1>6, NatSet
  <1>8. \A k \in 0..n : h[k] \in Nat
    BY <1>1, <1>7
  <1> QED BY <1>3, <1>4, <1>8

\* One byte more
LEMMA BytesUintMore ==
  ASSUME NEW b \in Seq(Nat), NEW x \in Nat
  PROVE  BytesUint(b \o <<x>>) = BytesUint(b) * Byte + x
  <1> DEFINE c == b \o <<x>>
             n == Len(b)
  <1>1. <<x>> \in Seq(Nat) /\ Len(<<x>>) = 1 /\ <<x>>[1] = x
    OBVIOUS
  <1>2. /\ c \in Seq(Nat) /\ Len(c) = n + 1 /\ n \in Nat
        /\ \A k \in 1..n : c[k] = b[k]
        /\ c[n + 1] = x
    <2>1. /\ c \in Seq(Nat) /\ Len(c) = n + 1 /\ n \in Nat
      BY <1>1, ConcatProperties, LenProperties
    <2>2. HasAt(c, 0, b) /\ HasAt(c, n, <<x>>)
      BY <1>1, HasAtConcat
    <2>3. \A k \in 1..n : c[k] = b[k]
      <3> HIDE DEF c
      <3>1. \A k \in 1..n : 0 + k = k
        BY <2>1
      <3> QED BY <2>2, <3>1 DEF HasAt
    <2>4. c[n + 1] = x
      <3> HIDE DEF c
      <3>1. 1 \in 1..Len(<<x>>)
        BY <1>1
      <3> QED BY <1>1, <2>2, <3>1 DEF HasAt
    <2> QED BY <2>1, <2>3, <2>4
  <1> HIDE DEF c
  <1>3. PICK u : /\ u[0] = 0
                 /\ \A k \in 1..Len(b) : u[k] = u[k-1] * Byte + b[k]
                 /\ \A k \in 0..Len(b) : u[k] \in Nat
                 /\ BytesUint(b) = u[Len(b)]
    BY BytesUintIs
  <1>4. PICK v : /\ v[0] = 0
                 /\ \A k \in 1..Len(c) : v[k] = v[k-1] * Byte + c[k]
                 /\ \A k \in 0..Len(c) : v[k] \in Nat
                 /\ BytesUint(c) = v[Len(c)]
    BY <1>2, BytesUintIs
  <1> DEFINE S == {k \in Nat : k <= n => u[k] = v[k]}
  <1>5. 0 \in S
    BY <1>3, <1>4
  <1>6. ASSUME NEW k \in Nat, k \in S
        PROVE  k + 1 \in S
    <2>1. CASE k + 1 <= n
      <3>1. k + 1 \in 1..n /\ k + 1 \in 1..Len(c) /\ (k + 1) - 1 = k /\ u[k] = v[k]
        BY <1>2, <1>6, <2>1
      <3>2. u[k + 1] = u[k] * Byte + b[k + 1] /\ v[k + 1] = v[k] * Byte + c[k + 1]
        BY <1>3, <1>4, <3>1
      <3>3. c[k + 1] = b[k + 1]
        BY <1>2, <3>1
      <3> QED BY <3>1, <3>2, <3>3
    <2> QED BY <2>1
  <1>7. Nat \subseteq S
    <2> HIDE DEF S
    <2> QED BY <1>5, <1>6, NatSet
  <1>8. u[n] = v[n]
    BY <1>2, <1>7
  <1>9. v[n + 1] = v[n] * Byte + x
    <2>1. n + 1 \in 1..Len(c) /\ (n + 1) - 1 = n
      BY <1>2
    <2> QED BY <1>2, <1>4, <2>1
  <1> QED BY <1>2, <1>3, <1>4, <1>8, <1>9 DEF c

\* Any number is written with bytes, and read as it was written.
THEOREM BytesUintOfUintBytes ==
  ASSUME NEW n \in Nat
  PROVE  /\ UintBytes(n) \in Seq(0..Byte - 1)
         /\ BytesUint(UintBytes(n)) = n
  <1> DEFINE Body(f) == [k \in 0..n |-> IF k = 0 THEN <<>> ELSE f[k \div Byte] \o <<k % Byte>>]
             h == CHOOSE f : f = Body(f)
             BS == 0..Byte - 1
  <1>1. BS \subseteq Nat
    BY Limits
  <1>2. h = Body(h)
    <2>1. PICK f : IsDigits(n, f)
      BY Digits
    <2>2. f = Body(f)
      BY <2>1 DEF IsDigits
    <2> HIDE DEF Body
    <2> QED BY <2>2
  <1>3. UintBytes(n) = h[n]
    BY DEF UintBytes
  <1>4. h[0] = <<>> /\ \A k \in 1..n : h[k] = h[k \div Byte] \o <<k % Byte>>
    <2>1. \A k \in 0..n : h[k] = IF k = 0 THEN <<>> ELSE h[k \div Byte] \o <<k % Byte>>
      <3> HIDE DEF h
      <3> QED BY <1>2
    <2>2. 0 \in 0..n /\ \A k \in 1..n : k \in 0..n /\ k # 0
      OBVIOUS
    <2> HIDE DEF h, Body
    <2> QED BY <2>1, <2>2
  <1> HIDE DEF h, Body, BS
  <1> DEFINE P(k) == h[k] \in Seq(BS) /\ BytesUint(h[k]) = k
             S == {k \in Nat : \A j \in 0..n : j <= k => P(j)}
  <1>5. P(0)
    <2>1. <<>> \in Seq(BS) /\ <<>> \in Seq(Nat) /\ Len(<<>>) = 0
      BY EmptySeq
    <2>2. BytesUint(<<>>) = 0
      <3>1. PICK u : u[0] = 0 /\ BytesUint(<<>>) = u[Len(<<>>)]
        BY <2>1, BytesUintIs
      <3> QED BY <2>1, <3>1
    <2> QED BY <1>4, <2>1, <2>2
  <1>6. ASSUME NEW k \in 1..n, P(k \div Byte)
        PROVE  P(k)
    <2> DEFINE q == k \div Byte
               r == k % Byte
    <2>1. q \in Nat /\ r \in BS /\ r \in Nat /\ q * Byte + r = k
      <3>1. k \in Nat
        OBVIOUS
      <3> QED BY <1>1, <3>1, Quotient DEF BS
    <2>2. h[k] = h[q] \o <<r>> /\ h[q] \in Seq(BS) /\ BytesUint(h[q]) = q
      BY <1>4, <1>6
    <2> HIDE DEF q, r
    <2>3. h[q] \in Seq(Nat)
      BY <1>1, <2>2, SeqMonotonic
    <2>4. <<r>> \in Seq(BS)
      BY <2>1
    <2>5. h[k] \in Seq(BS)
      BY <2>2, <2>4, ConcatProperties
    <2>6. BytesUint(h[k]) = BytesUint(h[q]) * Byte + r
      BY <2>1, <2>2, <2>3, BytesUintMore
    <2> QED BY <2>1, <2>2, <2>5, <2>6
  <1> HIDE DEF P
  <1>7. 0 \in S
    <2>1. \A j \in 0..n : j <= 0 => j = 0
      OBVIOUS
    <2> QED BY <1>5, <2>1
  <1>8. ASSUME NEW k \in Nat, k \in S
        PROVE  k + 1 \in S
    <2>1. ASSUME NEW j \in 0..n, j <= k + 1
          PROVE  P(j)
      <3>1. CASE j <= k
        BY <1>8, <3>1
      <3>2. CASE ~ (j <= k)
        <4>1. j = k + 1 /\ j \in 1..n /\ j \div Byte \in 0..j - 1
          BY <2>1, <3>2, Quotient
        <4>2. j \div Byte \in 0..n /\ j \div Byte <= k
          BY <4>1
        <4>3. P(j \div Byte)
          BY <1>8, <4>2
        <4> QED BY <1>6, <4>1, <4>3
      <3> QED BY <3>1, <3>2
    <2> QED BY <2>1
  <1>9. Nat \subseteq S
    <2> HIDE DEF S
    <2> QED BY <1>7, <1>8, NatSet
  <1>10. P(n)
    BY <1>9
  <1> QED BY <1>3, <1>10 DEF P, BS

\* What the Python master makes of bytes, their product, is not more than their number.
LEMMA PyBytesUintBelow ==
  ASSUME NEW b \in Seq(0..Byte - 1)
  PROVE  PyBytesUint(b) \in Nat /\ PyBytesUint(b) <= BytesUint(b)
  <1> DEFINE n == Len(b)
             Body(f) == [k \in 0..n |-> IF k = 0 THEN 1 ELSE f[k-1] * b[k]]
             h == CHOOSE f : f = Body(f)
  <1>1. n \in Nat /\ Byte \in Nat /\ \A k \in 1..n : b[k] \in Nat /\ b[k] <= Byte
    BY LenProperties, ElementOfSeq, Limits
  <1>2. b \in Seq(Nat)
    <2>1. 0..Byte - 1 \subseteq Nat
      BY Limits
    <2> QED BY <2>1, SeqMonotonic
  <1>3. PICK u : /\ u[0] = 0
                 /\ \A k \in 1..n : u[k] = u[k-1] * Byte + b[k]
                 /\ \A k \in 0..n : u[k] \in Nat
                 /\ BytesUint(b) = u[n]
    BY <1>2, BytesUintIs
  <1>4. CASE b = <<>>
    <2>1. n = 0
      BY <1>4, EmptySeq
    <2> QED BY <1>3, <1>4, <2>1 DEF PyBytesUint
  <1>5. CASE b # <<>>
    <2>0. n >= 1
      <3>1. n \in Nat \ {0}
        BY <1>2, <1>5, EmptySeq
      <3> HIDE DEF n
      <3> QED BY <3>1
    <2>1. h = Body(h)
      <3>1. PICK f : IsProduct(b, n, f)
        <4> HIDE DEF n
        <4> QED BY <1>1, Product
      <3>2. f = Body(f)
        BY <3>1 DEF IsProduct
      <3> HIDE DEF Body
      <3> QED BY <3>2
    <2>2. PyBytesUint(b) = h[n]
      BY <1>5 DEF PyBytesUint
    <2>3. h[0] = 1 /\ \A k \in 1..n : h[k] = h[k-1] * b[k]
      <3>1. \A k \in 0..n : h[k] = IF k = 0 THEN 1 ELSE h[k-1] * b[k]
        <4> HIDE DEF h
        <4> QED BY <2>1
      <3>2. 0 \in 0..n /\ \A k \in 1..n : k \in 0..n /\ k # 0
        BY <1>1
      <3> HIDE DEF h, Body, n
      <3> QED BY <3>1, <3>2
    <2> HIDE DEF h, Body, n
    <2> DEFINE S == {k \in Nat : k + 1 <= n => h[k + 1] \in Nat /\ h[k + 1] <= u[k + 1]}
    <2>4. 0 \in S
      <3>1. 1 \in 1..n /\ 1 - 1 = 0 /\ 0 + 1 = 1
        BY <1>1, <2>0
      <3>2. h[1] = 1 * b[1] /\ u[1] = 0 * Byte + b[1] /\ b[1] \in Nat
        BY <1>1, <1>3, <2>3, <3>1
      <3>3. h[1] = u[1] /\ h[1] \in Nat
        BY <1>1, <3>2
      <3> QED BY <3>3
    <2>5. ASSUME NEW k \in Nat, k \in S
          PROVE  k + 1 \in S
      <3>1. CASE (k + 1) + 1 <= n
        <4> DEFINE j == k + 1
        <4>1. j \in 1..n /\ j + 1 \in 1..n /\ (j + 1) - 1 = j /\ j \in 0..n /\ j <= n
          BY <1>1, <3>1
        <4>2. h[j] \in Nat /\ h[j] <= u[j] /\ u[j] \in Nat
          BY <1>3, <2>5, <4>1
        <4> HIDE DEF j
        <4>3. /\ h[j + 1] = h[j] * b[j + 1] /\ u[j + 1] = u[j] * Byte + b[j + 1]
              /\ b[j + 1] \in Nat /\ b[j + 1] <= Byte
          BY <1>1, <1>3, <2>3, <4>1
        <4> DEFINE x == h[j]
                   y == u[j]
                   z == b[j + 1]
        <4>4. x \in Nat /\ y \in Nat /\ z \in Nat /\ x <= y /\ z <= Byte /\ Byte \in Nat
          BY <1>1, <4>2, <4>3
        <4> HIDE DEF x, y, z
        <4>5. x * z <= y * z /\ y * z <= y * Byte /\ x * z \in Nat /\ y * z \in Nat /\ y * Byte \in Nat
          <5>1. (y - x) * z \in Nat /\ y * (Byte - z) \in Nat
            <6>1. y - x \in Nat /\ Byte - z \in Nat
              BY <4>4
            <6> QED BY <4>4, <6>1
          <5>2. (y - x) * z = y * z - x * z /\ y * (Byte - z) = y * Byte - y * z
            BY <4>4
          <5>3. x * z \in Nat /\ y * z \in Nat /\ y * Byte \in Nat
            BY <4>4
          <5> QED BY <5>1, <5>2, <5>3
        <4>6. x * z <= y * Byte + z
          BY <4>4, <4>5
        <4>7. h[j + 1] \in Nat /\ h[j + 1] <= u[j + 1]
          BY <4>3, <4>5, <4>6 DEF x, y, z
        <4> QED BY <4>7 DEF j
      <3> QED BY <3>1
    <2>6. Nat \subseteq S
      <3> HIDE DEF S
      <3> QED BY <2>4, <2>5, NatSet
    <2>7. h[n] \in Nat /\ h[n] <= u[n]
      <3>1. n - 1 \in Nat /\ (n - 1) + 1 = n
        BY <1>1, <2>0
      <3>2. n - 1 \in S
        BY <2>6, <3>1
      <3> QED BY <1>1, <3>1, <3>2
    <2> QED BY <1>3, <2>2, <2>7
  <1> QED BY <1>4, <1>5
=============================================================================
