-------------------------------- MODULE Coap --------------------------------
(***************************************************************************)
(* CoAP messages as the masters and the slave write and read them: what    *)
(* comes after the header and the token, that is the options and the       *)
(* payload.  The encoders of the C++ master and of the slave are the same  *)
(* algorithm; that of the Python master differs in one place (py).  The    *)
(* decoders read options in the same way and differ on what follows them.  *)
(*                                                                         *)
(* A nibble has Nib values, 16 in the code: all the limits follow from it. *)
(* An option is a code and a value, which is a sequence of bytes.          *)
(***************************************************************************)
EXTENDS Integers, Sequences, FiniteSetsExt

CONSTANTS
  Nib,    \* values of a nibble
  Junk    \* the byte that is found after the end of a message

ASSUME NibAssumption == Nib \in Nat /\ Nib >= 4 /\ Junk \in Nat

Byte   == Nib * Nib       \* values of a byte
Marker == Byte - 1        \* 0xff, the end of the options
T1     == Nib - 3         \* 13: lengths from here have one byte more
T2     == T1 + Byte       \* 269: lengths from here have two bytes more

UriPath       == 11       \* MO_Uri_Path
ContentFormat == 12       \* MO_Content_Format
MaxAge        == 14       \* MO_Max_Age
Size1         == 60       \* MO_Size1

Opt(c, v) == [code |-> c, val |-> v]

\* option::uint_to_byte: network byte order, without leading null bytes.
UintBytes(n) ==
  LET digits[k \in 0..n] == IF k = 0 THEN <<>> ELSE digits[k \div Byte] \o <<k % Byte>>
  IN  digits[n]

\* option::optval of the C++ master.
BytesUint(b) ==
  LET uint[k \in 0..Len(b)] == IF k = 0 THEN 0 ELSE uint[k-1] * Byte + b[k]
  IN  uint[Len(b)]

\* Option.bytes_to_int of the Python master, which multiplies the bytes.
PyBytesUint(b) ==
  LET r[k \in 0..Len(b)] == IF k = 0 THEN 1 ELSE r[k-1] * b[k]
  IN  IF b = <<>> THEN 0 ELSE r[Len(b)]

---------------------------------------------------------------------------
(* Encoding *)

\* The list of options is sorted when the master encodes, and always on the slave
\* (push_option); either way options of the same code stay in order.
PushOption(s, o) ==
  LET place == Min({i \in 1..Len(s) + 1 : i <= Len(s) => s[i].code > o.code})
  IN  [i \in 1..Len(s) + 1 |-> IF i < place THEN s[i] ELSE IF i = place THEN o ELSE s[i-1]]

SortOptions(s) ==
  LET sorted[k \in 0..Len(s)] == IF k = 0 THEN <<>> ELSE PushOption(sorted[k-1], s[k])
  IN  sorted[Len(s)]

\* The nibble that stands for a difference of codes or a length, and the bytes that
\* should follow it.
Nibble(n) == IF n >= T2 THEN Nib - 2 ELSE IF n >= T1 THEN Nib - 3 ELSE n

Extension(n) ==
  IF n >= T2 THEN <<(n - T2) \div Byte, (n - T2) % Byte>>
  ELSE IF n >= T1 THEN <<n - T1>> ELSE <<>>

Delta(s, i) == s[i].code - (IF i = 1 THEN 0 ELSE s[i-1].code)

\* The lengths that take one byte more.  The C++ master and the slave do not subtract T1
\* from them: they write the low byte of the length itself.
OneByteLength(n) == n >= T1 /\ n < T2

LengthBytes(n, py) == IF OneByteLength(n) /\ ~ py THEN <<n % Byte>> ELSE Extension(n)

OptionBytes(s, i, py) ==
  <<Nibble(Delta(s, i)) * Nib + Nibble(Len(s[i].val))>>
    \o Extension(Delta(s, i)) \o LengthBytes(Len(s[i].val), py) \o s[i].val

\* The lengths of the options of m are all written as they should be.
Readable(m, py) == \A i \in DOMAIN m.opts : OneByteLength(Len(m.opts[i].val)) => py

\* py: the encoder is that of the Python master.
Encode(m, py) ==
  LET s == SortOptions(m.opts)
      bytes[k \in 0..Len(s)] == IF k = 0 THEN <<>> ELSE bytes[k-1] \o OptionBytes(s, k, py)
  IN  bytes[Len(s)] \o (IF m.payload = <<>> THEN <<>> ELSE <<Marker>> \o m.payload)

\* Mutant of MoreBytes: the first length of each kind is taken for one of the kind before.
MoreBytesLate(n) == IF n > T2 THEN 2 ELSE IF n > T1 THEN 1 ELSE 0

MoreBytes(n) == IF n >= T2 THEN 2 ELSE IF n >= T1 THEN 1 ELSE 0

\* The size that is computed before the buffer is allocated or, on the slave,
\* compared with what it may send.
EncodedSize(m) ==
  LET s == SortOptions(m.opts)
      size[k \in 0..Len(s)] ==
        IF k = 0 THEN 0
        ELSE size[k-1] + 1 + MoreBytes(Delta(s, k)) + MoreBytes(Len(s[k].val)) + Len(s[k].val)
  IN  size[Len(s)] + (IF m.payload = <<>> THEN 0 ELSE 1 + Len(m.payload))

---------------------------------------------------------------------------
(* Decoding: i bytes of b are read, nb is the code of the last option *)

\* Nothing stops the decoders at the end of a message in the middle of an option.
ByteAt(b, j) == IF j <= Len(b) THEN b[j] ELSE Junk

\* Mutant of ReadLength: two bytes more count from 13 too.
ReadLengthFrom13(b, i, n) ==
  IF n = Nib - 3 THEN [v |-> ByteAt(b, i+1) + T1, i |-> i + 1]
  ELSE IF n = Nib - 2 THEN [v |-> ByteAt(b, i+1) * Byte + ByteAt(b, i+2) + T1, i |-> i + 2]
  ELSE [v |-> n, i |-> i]

ReadLength(b, i, n) ==
  IF n = Nib - 3 THEN [v |-> ByteAt(b, i+1) + T1, i |-> i + 1]
  ELSE IF n = Nib - 2 THEN [v |-> ByteAt(b, i+1) * Byte + ByteAt(b, i+2) + T2, i |-> i + 2]
  ELSE [v |-> n, i |-> i]

ReadOption(b, d) ==
  LET head   == b[d.i + 1]
      delta  == ReadLength(b, d.i + 1, head \div Nib)
      length == ReadLength(b, delta.i, head % Nib)
      nb     == d.nb + delta.v
      val    == [j \in 1..length.v |-> ByteAt(b, length.i + j)]
  IN  IF Nib - 1 \in {head \div Nib, head % Nib} THEN [d EXCEPT !.ok = FALSE]
      ELSE [ok |-> d.ok, i |-> length.i + length.v, nb |-> nb,
            opts |-> Append(d.opts, Opt(nb, val))]

\* The loop goes on until the end of the message, a payload or an error.
ReadOptions(b) ==
  LET after[turns \in 0..Len(b)] ==
        IF turns = 0 THEN [ok |-> TRUE, i |-> 0, nb |-> 0, opts |-> <<>>]
        ELSE LET d == after[turns - 1]
             IN  IF d.ok /\ d.i < Len(b) /\ b[d.i + 1] # Marker THEN ReadOption(b, d) ELSE d
  IN  after[Len(b)]

\* The masters: what is left is the payload, and nothing is if the last option goes past
\* the end.
Decode(b) ==
  LET d == ReadOptions(b)
  IN  [ok |-> d.ok, opts |-> d.opts,
       payload |-> IF d.ok THEN SubSeq(b, d.i + 2, Len(b)) ELSE <<>>]

\* The slave only reads the header and the token of a message that is too long for it.
\* It counts the byte before the payload as one of the payload, whose last byte is then
\* the one after the message; and a number of bytes left that is negative is, without a
\* sign, a payload that is not there or that exhausts the memory.
SlaveDecode(b, truncated) ==
  LET d  == ReadOptions(b)
      ok == d.ok /\ d.i <= Len(b)
  IN  IF truncated THEN [ok |-> TRUE, opts |-> <<>>, payload |-> <<>>]
      ELSE [ok |-> ok, opts |-> d.opts,
            payload |-> IF ok /\ d.i < Len(b) THEN SubSeq(b, d.i + 2, Len(b)) \o <<Junk>>
                        ELSE <<>>]

\* The positions of the options of a code, of which Msg::search_option takes the first.
OptionsOf(m, c) == {i \in DOMAIN m.opts : m.opts[i].code = c}

SearchOption(m, c) == m.opts[Min(OptionsOf(m, c))]
============================================================================
