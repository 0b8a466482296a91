-------------------------- MODULE HttpCache_proofs --------------------------
(***************************************************************************)
(* What is proved of HTTP requests and the cache, for every number of      *)
(* threads, every set of names, ages and methods, every MTU and lifetime:  *)
(* what the runs check of both masters (ReadAsWritten, SizeIsExact, Fresh) *)
(* and of the C++ one (OwnValue, OneEntryEach: PyCache shows that the      *)
(* first does not hold of the Python one).                                 *)
(*                                                                         *)
(* The inductive invariant, HInv, says of each thread and of each entry of *)
(* the cache what its request and its answer can be, and bounds the age of *)
(* an answer together with the time that is left for it.  NotMine is added *)
(* for OneEntryEach.  That a long name, which the C++ master writes wrong, *)
(* is not taken for another one is LongOptionNotRead of Coap_proofs.       *)
(***************************************************************************)
EXTENDS HttpCache, Coap_proofs

(* ---------------------------------------------------------------------- *)
(* What is kept of a sequence                                               *)

\* f has what is kept of the first k elements of s.
IsKeeping(s, I, n, f) ==
  f = [k \in 0..n |-> IF k = 0 THEN <<>> ELSE IF k \in I THEN Append(f[k-1], s[k]) ELSE f[k-1]]

\* There is such a function.
LEMMA Keeping ==
  ASSUME NEW s, NEW I, NEW n \in Nat
  PROVE  \E f : IsKeeping(s, I, n, f)
  <1> DEFINE Is(m, f) == IsKeeping(s, I, m, f)
             S == {m \in Nat : \E f : Is(m, f)}
  <1>1. 0 \in S
    <2>1. Is(0, [k \in 0..0 |-> <<>>])
      BY DEF IsKeeping
    <2> QED BY <2>1
  <1>2. ASSUME NEW m \in Nat, m \in S
        PROVE  m + 1 \in S
    <2>1. PICK f : Is(m, f)
      BY <1>2
    <2> DEFINE last == IF m + 1 \in I THEN Append(f[m], s[m + 1]) ELSE f[m]
               g == [k \in 0..(m + 1) |-> IF k = m + 1 THEN last ELSE f[k]]
    <2>2. /\ \A k \in 0..m : g[k] = f[k]
          /\ g[m + 1] = last /\ g = [k \in 0..(m + 1) |-> g[k]]
      OBVIOUS
    <2>3. \A k \in 0..m : f[k] = IF k = 0 THEN <<>> ELSE IF k \in I THEN Append(f[k-1], s[k]) ELSE f[k-1]
      BY <2>1 DEF IsKeeping
    <2> HIDE DEF g, Is
    <2>4. ASSUME NEW k \in 0..(m + 1)
          PROVE  g[k] = IF k = 0 THEN <<>> ELSE IF k \in I THEN Append(g[k-1], s[k]) ELSE g[k-1]
      <3>1. CASE k = m + 1
        <4>1. k # 0 /\ k - 1 = m /\ m \in 0..m
          BY <3>1
        <4> QED BY <2>2, <3>1, <4>1
      <3>2. CASE k # m + 1
        <4>1. k \in 0..m /\ (k # 0 => k - 1 \in 0..m)
          BY <3>2
        <4> HIDE DEF last
        <4> QED BY <2>2, <2>3, <4>1
      <3> QED BY <3>1, <3>2
    <2>5. Is(m + 1, g)
      BY <2>2, <2>4 DEF Is, IsKeeping
    <2> QED BY <2>5
  <1> HIDE DEF Is
  <1>3. Nat \subseteq S
    <2> HIDE DEF S
    <2> QED BY <1>1, <1>2, NatSet
  <1>4. \E f : Is(n, f)
    BY <1>3
  <1> QED BY <1>4 DEF Is

\* The elements of k are elements of s at positions of I, different ones for different
\* positions of k.
Kept(k, s, I) ==
  /\ \A i \in 1..Len(k) : \E a \in 1..Len(s) : a \in I /\ k[i] = s[a]
  /\ \A i, j \in 1..Len(k) : i # j =>
       \E a, c \in 1..Len(s) : a # c /\ a \in I /\ c \in I /\ k[i] = s[a] /\ k[j] = s[c]

\* What is kept are elements of the sequence.
LEMMA KeepIs ==
  ASSUME NEW T, NEW s \in Seq(T), NEW I
  PROVE  Keep(s, I) \in Seq(T) /\ Kept(Keep(s, I), s, I)
  <1> DEFINE n == Len(s)
             Body(f) == [k \in 0..n |-> IF k = 0 THEN <<>> ELSE IF k \in I THEN Append(f[k-1], s[k]) ELSE f[k-1]]
             h == CHOOSE f : f = Body(f)
  <1>1. n \in Nat /\ \A i \in 1..n : s[i] \in T
    BY LenProperties, ElementOfSeq
  <1>2. h = Body(h)
    <2>1. PICK f : IsKeeping(s, I, n, f)
      <3> HIDE DEF n
      <3> QED BY <1>1, Keeping
    <2>2. f = Body(f)
      BY <2>1 DEF IsKeeping
    <2> HIDE DEF Body
    <2> QED BY <2>2
  <1>3. Keep(s, I) = h[n]
    BY DEF Keep
  <1>4. h[0] = <<>> /\ \A k \in 1..n : h[k] = IF k \in I THEN Append(h[k-1], s[k]) ELSE h[k-1]
    <2>1. \A k \in 0..n : h[k] = IF k = 0 THEN <<>> ELSE IF k \in I THEN Append(h[k-1], s[k]) ELSE h[k-1]
      <3> HIDE DEF h
      <3> QED BY <1>2
    <2>2. 0 \in 0..n /\ \A k \in 1..n : k \in 0..n /\ k # 0
      BY <1>1
    <2> HIDE DEF h, Body, n
    <2> QED BY <2>1, <2>2
  <1> HIDE DEF h, Body
  <1> DEFINE A(k) == h[k] \in Seq(T)
             B(k) == \A i \in 1..Len(h[k]) : \E a \in 1..k : a \in I /\ h[k][i] = s[a]
             C(k) == \A i, j \in 1..Len(h[k]) : i # j =>
                       \E a, c \in 1..k : a # c /\ a \in I /\ c \in I /\ h[k][i] = s[a] /\ h[k][j] = s[c]
             S == {k \in Nat : k <= n => A(k) /\ B(k) /\ C(k)}
  <1>5. 0 \in S
    <2>1. <<>> \in Seq(T) /\ Len(<<>>) = 0
      BY EmptySeq
    <2>2. A(0) /\ Len(h[0]) = 0
      BY <1>4, <2>1
    <2>3. \A i \in 1..Len(h[0]) : FALSE
      BY <2>2
    <2>4. B(0) /\ C(0)
      <3> HIDE DEF A
      <3> QED BY <2>3
    <2> HIDE DEF A, B, C
    <2> QED BY <2>2, <2>4
  <1>6. ASSUME NEW k \in Nat, k \in S, k + 1 <= n
        PROVE  A(k + 1) /\ B(k + 1) /\ C(k + 1)
    <2>1. k + 1 \in 1..n /\ (k + 1) - 1 = k /\ A(k) /\ B(k) /\ C(k)
      <3>1. k <= n /\ k + 1 \in 1..n /\ (k + 1) - 1 = k
        BY <1>1, <1>6
      <3> HIDE DEF A, B, C
      <3> QED BY <1>6, <3>1
    <2>2. \A a \in 1..k : a \in 1..k + 1 /\ a # k + 1
      OBVIOUS
    <2>3. CASE k + 1 \notin I
      <3>1. h[k + 1] = h[k]
        BY <1>4, <2>1, <2>3
      <3> QED BY <2>1, <2>2, <3>1
    <2>4. CASE k + 1 \in I
      <3> DEFINE l == Len(h[k])
      <3>1. h[k + 1] = Append(h[k], s[k + 1]) /\ s[k + 1] \in T /\ h[k] \in Seq(T)
        BY <1>1, <1>4, <2>1, <2>4
      <3>2. /\ h[k + 1] \in Seq(T) /\ Len(h[k + 1]) = l + 1 /\ l \in Nat
            /\ \A i \in 1..l : h[k + 1][i] = h[k][i]
            /\ h[k + 1][l + 1] = s[k + 1]
        BY <3>1, AppendProperties, LenProperties
      <3>3. \A i \in 1..l + 1 : i \in 1..l \/ i = l + 1
        BY <3>2
      <3>4. B(k + 1)
        <4>1. ASSUME NEW i \in 1..l + 1
              PROVE  \E a \in 1..k + 1 : a \in I /\ h[k + 1][i] = s[a]
          <5>1. CASE i = l + 1
            <6>1. k + 1 \in 1..k + 1 /\ h[k + 1][i] = s[k + 1]
              BY <3>2, <5>1
            <6> QED BY <2>4, <6>1
          <5>2. CASE i \in 1..l
            <6>1. PICK a \in 1..k : a \in I /\ h[k][i] = s[a]
              BY <2>1, <5>2
            <6> QED BY <2>2, <3>2, <5>2, <6>1
          <5> QED BY <3>3, <5>1, <5>2
        <4> QED BY <3>2, <4>1
      <3>5. C(k + 1)
        <4>1. ASSUME NEW i \in 1..l + 1, NEW j \in 1..l + 1, i # j
              PROVE  \E a, c \in 1..k + 1 : a # c /\ a \in I /\ c \in I /\ h[k + 1][i] = s[a] /\ h[k + 1][j] = s[c]
          <5>0. k + 1 \in 1..k + 1
            OBVIOUS
          <5>1. CASE i \in 1..l /\ j \in 1..l
            <6>1. PICK a \in 1..k, c \in 1..k : a # c /\ a \in I /\ c \in I /\ h[k][i] = s[a] /\ h[k][j] = s[c]
              BY <2>1, <4>1, <5>1
            <6> QED BY <2>2, <3>2, <5>1, <6>1
          <5>2. CASE i \in 1..l /\ j = l + 1
            <6>1. PICK a \in 1..k : a \in I /\ h[k][i] = s[a]
              BY <2>1, <5>2
            <6>2. h[k + 1][i] = s[a] /\ h[k + 1][j] = s[k + 1] /\ a # k + 1 /\ a \in 1..k + 1
              BY <2>2, <3>2, <5>2, <6>1
            <6> QED BY <2>4, <5>0, <6>1, <6>2
          <5>3. CASE i = l + 1 /\ j \in 1..l
            <6>1. PICK c \in 1..k : c \in I /\ h[k][j] = s[c]
              BY <2>1, <5>3
            <6>2. h[k + 1][i] = s[k + 1] /\ h[k + 1][j] = s[c] /\ c # k + 1 /\ c \in 1..k + 1
              BY <2>2, <3>2, <5>3, <6>1
            <6> QED BY <2>4, <5>0, <6>1, <6>2
          <5> QED BY <3>3, <4>1, <5>1, <5>2, <5>3
        <4> QED BY <3>2, <4>1
      <3> QED BY <3>2, <3>4, <3>5
    <2> QED BY <2>3, <2>4
  <1>7. Nat \subseteq S
    <2> HIDE DEF A, B, C
    <2>1. \A k \in Nat : k \in S => k + 1 \in S
      BY <1>6
    <2> HIDE DEF S
    <2> QED BY <1>5, <2>1, NatSet
  <1>8. A(n) /\ B(n) /\ C(n)
    <2> HIDE DEF A, B, C
    <2> QED BY <1>1, <1>7
  <1> QED BY <1>3, <1>8 DEF Kept

\* One element, when it is kept
LEMMA KeepOne ==
  ASSUME NEW T, NEW o \in T
  PROVE  Keep(<<o>>, {1}) = <<o>>
  <1> DEFINE s == <<o>>
             Body(f) == [k \in 0..1 |-> IF k = 0 THEN <<>> ELSE IF k \in {1} THEN Append(f[k-1], s[k]) ELSE f[k-1]]
             h == CHOOSE f : f = Body(f)
  <1>1. Len(s) = 1 /\ s[1] = o
    OBVIOUS
  <1> HIDE DEF s
  <1>2. h = Body(h)
    <2>1. PICK f : IsKeeping(s, {1}, 1, f)
      BY Keeping
    <2>2. f = Body(f)
      BY <2>1 DEF IsKeeping
    <2> HIDE DEF Body
    <2> QED BY <2>2
  <1>3. Keep(s, {1}) = h[1]
    BY <1>1 DEF Keep
  <1>4. h[0] = <<>> /\ h[1] = Append(h[0], s[1])
    <2>1. \A k \in 0..1 : h[k] = IF k = 0 THEN <<>> ELSE IF k \in {1} THEN Append(h[k-1], s[k]) ELSE h[k-1]
      <3> HIDE DEF h
      <3> QED BY <1>2
    <2> HIDE DEF h, Body
    <2> QED BY <2>1
  <1> HIDE DEF h, Body
  <1>5. Append(<<>>, o) = <<o>>
    OBVIOUS
  <1> QED BY <1>1, <1>3, <1>4, <1>5 DEF s

(* ---------------------------------------------------------------------- *)
(* Requests and replies                                                     *)

Requests == {Request(s, n, m) : s \in Slaves, n \in Names, m \in Methods}

ByteOption == [code : Nat, val : Seq(0..Byte - 1)]

ShortOption == {o \in ByteOption : Len(o.val) < T1}

\* What the slave puts in its answers: its options are short.
IsReply(p) == p.opts \in Seq(ShortOption) /\ p.payload \in Seq(Nat)

\* The value of a reply is one of the resource of the request.
OwnReply(p, r) == p.code = "OK" => p.payload = Value(r.opts[1].val)

\* The options that are made of bytes are options.
LEMMA ByteOptions == ByteOption \subseteq Option
  <1>1. 0..Byte - 1 \subseteq Nat
    BY Limits
  <1>2. Seq(0..Byte - 1) \subseteq Seq(Nat)
    BY <1>1, SeqMonotonic
  <1> QED BY <1>2 DEF ByteOption, Option

\* The short ones too.
LEMMA ShortOptions == ShortOption \subseteq Option
  BY ByteOptions DEF ShortOption

\* A reply is a message of module Coap, whose lengths are all written as they are read.
LEMMA ReplyIsMessage == ASSUME NEW p, IsReply(p) PROVE IsMessage(p) /\ Readable(p, FALSE)
  <1>1. p.opts \in Seq(Option)
    BY ShortOptions, SeqMonotonic DEF IsReply
  <1>2. Readable(p, FALSE)
    <2>1. DOMAIN p.opts = 1..Len(p.opts)
      BY <1>1, LenProperties
    <2>2. ASSUME NEW i \in DOMAIN p.opts
          PROVE  ~ OneByteLength(Len(p.opts[i].val))
      <3>1. p.opts[i] \in ShortOption
        BY <2>1, ElementOfSeq DEF IsReply
      <3>2. p.opts[i].val \in Seq(0..Byte - 1) /\ Len(p.opts[i].val) < T1
        BY <3>1 DEF ShortOption, ByteOption
      <3>3. Len(p.opts[i].val) \in Nat
        BY <3>2, LenProperties
      <3> QED BY <3>2, <3>3, Limits DEF OneByteLength
    <2> QED BY <2>2 DEF Readable
  <1> QED BY <1>1, <1>2 DEF IsReply, IsMessage

\* A request has the name of its resource for only option.
LEMMA RequestIs ==
  ASSUME NEW r \in Requests
  PROVE  \E n \in Names : /\ r.opts = <<Opt(UriPath, n)>> /\ r.opts[1].val = n
                          /\ Opt(UriPath, n) \in Option
                          /\ r.payload = <<>> /\ r.type = "CON" /\ IsMessage(r)
                          /\ n \in Seq(Nat) /\ Len(n) \in Nat /\ Len(n) < Byte
  <1>1. PICK s \in Slaves, n \in Names, m \in Methods : r = Request(s, n, m)
    BY DEF Requests
  <1> DEFINE o == Opt(UriPath, n)
  <1>2. n \in Seq(0..Byte - 1) /\ Len(n) < Byte
    BY CacheAssumption
  <1>3. o \in ByteOption /\ o.val = n
    BY <1>2 DEF ByteOption, Opt, UriPath
  <1>4. r.opts = <<o>> /\ r.payload = <<>> /\ r.type = "CON"
    BY <1>1 DEF Request
  <1>5. n \in Seq(Nat) /\ o \in Option
    <2>1. o \in Option
      BY <1>3, ByteOptions
    <2> QED BY <1>3, <2>1 DEF Option
  <1> HIDE DEF o
  <1>6. <<o>> \in Seq(Option) /\ <<o>>[1] = o
    BY <1>5
  <1>7. IsMessage(r) /\ r.opts[1].val = n
    BY <1>3, <1>4, <1>6, EmptySeq DEF IsMessage
  <1>8. Len(n) \in Nat
    BY <1>5, LenProperties
  <1> QED BY <1>2, <1>4, <1>5, <1>7, <1>8 DEF o

\* A request is readable unless its name is long and the master the C++ one.
LEMMA RequestReadable ==
  ASSUME NEW r \in Requests, NEW n, r.opts = <<Opt(UriPath, n)>>,
         ~ Readable(r, Python)
  PROVE  Python = FALSE /\ OneByteLength(Len(n))
  <1> DEFINE o == Opt(UriPath, n)
  <1>1. o.val = n
    BY DEF Opt
  <1> HIDE DEF o
  <1>2. r.opts = <<o>> /\ DOMAIN <<o>> = 1..1 /\ <<o>>[1] = o
    BY DEF o
  <1>3. \E i \in DOMAIN r.opts : OneByteLength(Len(r.opts[i].val)) /\ ~ Python
    BY DEF Readable
  <1>4. OneByteLength(Len(r.opts[1].val)) /\ ~ Python
    BY <1>2, <1>3
  <1> QED BY <1>1, <1>2, <1>4, CacheAssumption

\* A request that the slave understands is either too long for it or readable.
LEMMA UnderstoodIs ==
  ASSUME NEW r \in Requests, SlaveReads(r).ok, ~ TooLong(r)
  PROVE  Readable(r, Python)
  <1> SUFFICES ASSUME ~ Readable(r, Python)
               PROVE  FALSE
    OBVIOUS
  <1>1. PICK n \in Names : /\ r.opts = <<Opt(UriPath, n)>> /\ r.opts[1].val = n
                           /\ Opt(UriPath, n) \in Option
                           /\ r.payload = <<>> /\ r.type = "CON" /\ IsMessage(r)
                           /\ n \in Seq(Nat) /\ Len(n) \in Nat /\ Len(n) < Byte
    BY RequestIs
  <1>2. Python = FALSE /\ OneByteLength(Len(n))
    BY <1>1, RequestReadable
  <1>3. T1 <= Len(n) /\ UriPath \in Nat
    BY <1>1, <1>2, Limits DEF OneByteLength, UriPath
  <1>4. SlaveDecode(Encode(r, FALSE), FALSE).ok = FALSE
    BY <1>1, <1>3, LongOptionNotRead
  <1>5. TooLong(r) = FALSE
    BY DEF TooLong
  <1>6. SlaveReads(r) = SlaveDecode(Encode(r, FALSE), FALSE)
    BY <1>2, <1>5 DEF SlaveReads
  <1> QED BY <1>4, <1>6

\* The first option of a code that is there
LEMMA SearchIs ==
  ASSUME NEW O, NEW m, m.opts \in Seq(O), NEW c, OptionsOf(m, c) # {}
  PROVE  SearchOption(m, c) \in O /\ SearchOption(m, c).code = c
  <1> DEFINE I == OptionsOf(m, c)
  <1>1. DOMAIN m.opts = 1..Len(m.opts) /\ Len(m.opts) \in Nat
    BY LenProperties
  <1>2. I \in SUBSET Nat /\ \A i \in I : i \in 1..Len(m.opts) /\ m.opts[i].code = c
    BY <1>1 DEF OptionsOf
  <1> HIDE DEF I
  <1>3. Min(I) \in I
    BY <1>2, LeastOf DEF I
  <1>4. SearchOption(m, c) = m.opts[Min(I)]
    BY DEF SearchOption, I
  <1>5. m.opts[Min(I)] \in O
    BY <1>2, <1>3, ElementOfSeq
  <1> QED BY <1>2, <1>3, <1>4, <1>5

\* A reply is made of bytes, and its value is the one of the resource.
LEMMA ReplyIs ==
  ASSUME NEW r \in Requests, NEW age \in Ages \cup {NoAge}, SlaveReads(r).ok
  PROVE  IsReply(SlaveReply(r, age)) /\ OwnReply(SlaveReply(r, age), r)
  <1>1. PICK n \in Names : /\ r.opts = <<Opt(UriPath, n)>> /\ r.opts[1].val = n
                           /\ Opt(UriPath, n) \in Option
                           /\ r.payload = <<>> /\ r.type = "CON" /\ IsMessage(r)
                           /\ n \in Seq(Nat) /\ Len(n) \in Nat /\ Len(n) < Byte
    BY RequestIs
  <1> DEFINE tr == TooLong(r)
             d == SlaveReads(r)
             p == Reply(tr, d, age)
             o == Opt(UriPath, n)
  <1>2. SlaveReply(r, age) = p
    BY DEF SlaveReply
  <1>3. \A k \in Nat, c \in Nat : Len(UintBytes(k)) < T1 => Opt(c, UintBytes(k)) \in ShortOption
    <2>1. ASSUME NEW k \in Nat, NEW c \in Nat, Len(UintBytes(k)) < T1
          PROVE  Opt(c, UintBytes(k)) \in ShortOption
      <3>1. UintBytes(k) \in Seq(0..Byte - 1)
        BY BytesUintOfUintBytes
      <3> DEFINE u == UintBytes(k)
      <3> HIDE DEF u
      <3>2. Opt(c, u) = [code |-> c, val |-> u] /\ u \in Seq(0..Byte - 1) /\ Len(u) < T1
        BY <2>1, <3>1 DEF Opt, u
      <3>3. Opt(c, u) \in ByteOption /\ Opt(c, u).val = u
        BY <3>2 DEF ByteOption
      <3> QED BY <3>2, <3>3 DEF ShortOption, u
    <2> QED BY <2>1
  <1>4. CASE tr = TRUE
    <2>1. p = [code |-> "TOO_LARGE", opts |-> <<Opt(Size1, UintBytes(Mtu))>>, payload |-> <<>>]
      <3> HIDE DEF d, tr
      <3> QED BY <1>4 DEF Reply
    <2>2. Opt(Size1, UintBytes(Mtu)) \in ShortOption
      <3>1. Mtu \in Nat /\ Len(UintBytes(Mtu)) < T1 /\ Size1 \in Nat
        BY CacheAssumption DEF Size1
      <3> QED BY <1>3, <3>1
    <2>3. <<Opt(Size1, UintBytes(Mtu))>> \in Seq(ShortOption)
      BY <2>2
    <2> HIDE DEF p
    <2> QED BY <1>2, <2>1, <2>3, EmptySeq DEF IsReply, OwnReply
  <1>5. CASE tr = FALSE
    <2>1. d = [ok |-> TRUE, opts |-> <<o>>, payload |-> <<>>]
      <3>0. Readable(r, Python) /\ Python \in BOOLEAN
        BY <1>5, UnderstoodIs, CacheAssumption
      <3>1. SlaveDecode(Encode(r, Python), FALSE) =
              [ok |-> TRUE, opts |-> SortOptions(r.opts),
               payload |-> IF r.payload = <<>> THEN <<>> ELSE r.payload \o <<Junk>>]
        BY <1>1, <3>0, SlaveDecodeEncode
      <3>2. SortOptions(<<o>>) = <<o>>
        BY <1>1, SortOne
      <3>3. d = SlaveDecode(Encode(r, Python), FALSE)
        BY <1>5 DEF SlaveReads
      <3>4. r.opts = <<o>> /\ r.payload = <<>>
        BY <1>1
      <3> HIDE DEF tr, o, d
      <3> QED BY <3>1, <3>2, <3>3, <3>4
    <2>2. OptionsOf(d, UriPath) # {} /\ SearchOption(d, UriPath).val = n
      <3>0. o.code = UriPath /\ o.val = n
        BY DEF Opt
      <3>1. d.opts = <<o>> /\ Len(<<o>>) = 1 /\ <<o>>[1] = o /\ DOMAIN <<o>> = 1..1
        BY <2>1
      <3> HIDE DEF d, o
      <3>2. OptionsOf(d, UriPath) = {1}
        BY <3>0, <3>1 DEF OptionsOf
      <3>3. Min({1}) = 1
        BY LeastOf
      <3> QED BY <3>0, <3>1, <3>2, <3>3 DEF SearchOption
    <2> DEFINE q == IF age = NoAge THEN <<>> ELSE <<Opt(MaxAge, UintBytes(age))>>
               c == Opt(ContentFormat, <<>>)
    <2>3. p = [code |-> "OK", payload |-> Value(n), opts |-> PushOption(q, c)]
      <3> HIDE DEF d, tr
      <3> QED BY <1>5, <2>2 DEF Reply
    <2>4. q \in Seq(ShortOption) /\ Sorted(q)
      <3>1. <<>> \in Seq(ShortOption) /\ Len(<<>>) = 0
        BY EmptySeq
      <3>2. CASE age = NoAge
        <4>1. Sorted(<<>>)
          BY <3>1 DEF Sorted
        <4> QED BY <3>1, <3>2, <4>1
      <3>3. CASE age # NoAge
        <4>1. age \in Nat /\ Len(UintBytes(age)) < T1 /\ MaxAge \in Nat
          BY <3>3, CacheAssumption DEF MaxAge
        <4> DEFINE x == Opt(MaxAge, UintBytes(age))
        <4>2. x \in ShortOption
          BY <1>3, <4>1
        <4> HIDE DEF x
        <4>3. <<x>> \in Seq(ShortOption) /\ Len(<<x>>) = 1
          BY <4>2
        <4>4. Sorted(<<x>>)
          <5>1. \A i, j \in 1..1 : ~ (i < j)
            OBVIOUS
          <5> QED BY <4>3, <5>1 DEF Sorted
        <4> QED BY <3>3, <4>3, <4>4 DEF x
      <3> QED BY <3>2, <3>3
    <2>5. c \in ShortOption
      <3>1. <<>> \in Seq(0..Byte - 1) /\ Len(<<>>) = 0 /\ 0 < T1
        BY EmptySeq, Limits
      <3>2. c \in ByteOption /\ c.val = <<>>
        BY <3>1 DEF ByteOption, Opt, ContentFormat
      <3> HIDE DEF c
      <3> QED BY <3>1, <3>2 DEF ShortOption
    <2> HIDE DEF q, c
    <2>6. PushOption(q, c) \in Seq(ShortOption)
      BY <2>4, <2>5, ShortOptions, PushSorted
    <2>7. Value(n) \in Seq(Nat)
      <3>1. Marker \in Nat
        BY Limits
      <3>2. <<Marker>> \in Seq(Nat)
        BY <3>1
      <3> QED BY <1>1, <3>2, ConcatProperties DEF Value
    <2> HIDE DEF p
    <2> QED BY <1>1, <1>2, <2>3, <2>6, <2>7 DEF IsReply, OwnReply
  <1>6. tr \in BOOLEAN
    BY DEF TooLong
  <1> HIDE DEF tr
  <1> QED BY <1>4, <1>5, <1>6

\* A reply is received as it was sent, with its options in order.
LEMMA ReceivedIs ==
  ASSUME NEW p, IsReply(p)
  PROVE  /\ IsReply(Received(p)) /\ Received(p).ok = TRUE
         /\ Received(p).code = p.code /\ Received(p).payload = p.payload
         /\ Received(p) = [code |-> p.code, ok |-> TRUE, opts |-> SortOptions(p.opts),
                           payload |-> p.payload]
  <1>1. Decode(Encode(p, FALSE)) = [ok |-> TRUE, opts |-> SortOptions(p.opts), payload |-> p.payload]
    BY ReplyIsMessage, DecodeEncode
  <1> DEFINE d == Decode(Encode(p, FALSE))
  <1>2. Received(p) = [code |-> p.code, ok |-> TRUE, opts |-> SortOptions(p.opts), payload |-> p.payload]
    <2>1. Received(p) = [code |-> p.code, ok |-> d.ok, opts |-> d.opts, payload |-> d.payload]
      BY DEF Received
    <2>0. d = [ok |-> TRUE, opts |-> SortOptions(p.opts), payload |-> p.payload]
      BY <1>1
    <2> HIDE DEF d
    <2>2. d.ok = TRUE /\ d.opts = SortOptions(p.opts) /\ d.payload = p.payload
      BY <2>0
    <2> QED BY <2>1, <2>2
  <1>3. SortOptions(p.opts) \in Seq(ShortOption)
    BY ShortOptions, SortOptionsSorted DEF IsReply
  <1> QED BY <1>2, <1>3 DEF IsReply

\* The Max-Age that a master reads is never more than the one that was written.
LEMMA AgeIs ==
  ASSUME NEW p, IsReply(p)
  PROVE  /\ Cacheable(p) => AgeOf(p) \in Nat
         /\ OptionsOf(p, MaxAge) # {} =>
              /\ BytesUint(SearchOption(p, MaxAge).val) \in Nat
              /\ AgeOf(p) <= BytesUint(SearchOption(p, MaxAge).val)
  <1>1. CASE OptionsOf(p, MaxAge) = {}
    BY <1>1, CacheAssumption DEF AgeOf, Cacheable
  <1>2. CASE OptionsOf(p, MaxAge) # {}
    <2> DEFINE v == SearchOption(p, MaxAge).val
    <2>1. v \in Seq(0..Byte - 1)
      <3>1. SearchOption(p, MaxAge) \in ByteOption
        BY <1>2, SearchIs DEF IsReply, ShortOption
      <3> QED BY <3>1 DEF ByteOption
    <2> HIDE DEF v
    <2>2. v \in Seq(Nat)
      <3>1. 0..Byte - 1 \subseteq Nat
        BY Limits
      <3> QED BY <2>1, <3>1, SeqMonotonic
    <2>3. BytesUint(v) \in Nat
      <3>1. PICK u : (\A k \in 0..Len(v) : u[k] \in Nat) /\ BytesUint(v) = u[Len(v)]
        BY <2>2, BytesUintIs
      <3>2. Len(v) \in 0..Len(v)
        <4>1. Len(v) \in Nat
          BY <2>2, LenProperties
        <4> QED BY <4>1
      <3> QED BY <3>1, <3>2
    <2>4. PyBytesUint(v) \in Nat /\ PyBytesUint(v) <= BytesUint(v)
      BY <2>1, PyBytesUintBelow
    <2>5. AgeOf(p) = IF Python THEN PyBytesUint(v) ELSE BytesUint(v)
      BY <1>2 DEF AgeOf, v
    <2>6. AgeOf(p) \in Nat /\ AgeOf(p) <= BytesUint(v)
      BY <2>3, <2>4, <2>5
    <2> QED BY <2>3, <2>6 DEF v
  <1> QED BY <1>1, <1>2

\* Two requests that match in the cache of the C++ master have the same name.
LEMMA MatchIsSameName ==
  ASSUME NEW r \in Requests, NEW q \in Requests, CacheMatch(r, q)
  PROVE  r.opts[1].val = q.opts[1].val
  <1>1. ASSUME NEW x \in Requests
        PROVE  CacheKey(x) = <<x.opts[1]>>
    <2>1. PICK n \in Names : x.opts = <<Opt(UriPath, n)>> /\ Opt(UriPath, n) \in Option
      BY RequestIs
    <2> DEFINE o == Opt(UriPath, n)
    <2>2. ~ NoCacheKey(o)
      <3>1. o.code = 11
        BY DEF Opt, UriPath
      <3> HIDE DEF o
      <3> QED BY <3>1 DEF NoCacheKey
    <2>3. Len(<<o>>) = 1 /\ <<o>>[1] = o /\ DOMAIN <<o>> = 1..1
      OBVIOUS
    <2> HIDE DEF o
    <2>4. SortOptions(<<o>>) = <<o>>
      BY <2>1, SortOne DEF o
    <2>5. {i \in DOMAIN <<o>> : ~ NoCacheKey(<<o>>[i])} = {1}
      BY <2>2, <2>3
    <2>6. Keep(<<o>>, {1}) = <<o>>
      BY KeepOne
    <2>7. x.opts = <<o>>
      BY <2>1 DEF o
    <2> QED BY <2>3, <2>4, <2>5, <2>6, <2>7 DEF CacheKey
  <1>2. <<r.opts[1]>> = <<q.opts[1]>>
    BY <1>1 DEF CacheMatch
  <1> QED BY <1>2

(* ---------------------------------------------------------------------- *)
(* The inductive invariant                                                  *)

\* A value of age a, with what its Max-Age allows it and the time its answer took
Young(p, a) ==
  OptionsOf(p, MaxAge) # {} => a <= BytesUint(SearchOption(p, MaxAge).val) + Lifetime

\* The age of an answer and the time that is left for its thread are within its lifetime.
ThreadOK(x) ==
  \/ x = Idle
  \/ /\ x = [at |-> "sent", req |-> x.req, left |-> x.left]
     /\ x.req \in Requests /\ x.left \in 0..Lifetime
  \/ /\ x = [at |-> "answered", req |-> x.req, left |-> x.left, rep |-> x.rep, age |-> x.age]
     /\ x.req \in Requests /\ x.left \in Nat /\ x.age \in Nat /\ x.age + x.left <= Lifetime
     /\ IsReply(x.rep) /\ OwnReply(x.rep, x.req)
  \/ /\ x = Served(x.req, x.rep, x.asked, x.age)
     /\ x.req \in Requests
     /\ Young(x.rep, x.age)
     /\ Python \/ OwnReply(x.rep, x.req)

\* The age of a value and the time it stays in the cache are within its Max-Age and the
\* time its answer took.
EntryOK(e) ==
  /\ e = [req |-> e.req, rep |-> e.rep, by |-> e.by, left |-> e.left, age |-> e.age]
  /\ e.req \in Requests /\ e.by \in Threads /\ e.left \in Int /\ e.age \in Nat
  /\ e.left >= 0 => IsReply(e.rep) /\ OwnReply(e.rep, e.req) /\ Young(e.rep, e.age + e.left)

IsSeq(c) == \E T : c \in Seq(T)

HInv ==
  /\ threads = [t \in Threads |-> threads[t]]
  /\ \A t \in Threads : ThreadOK(threads[t])
  /\ IsSeq(cache)
  /\ \A i \in DOMAIN cache : EntryOK(cache[i])

\* The positions of a sequence, and one element more
LEMMA AddElement ==
  ASSUME NEW c, IsSeq(c), NEW e
  PROVE  /\ IsSeq(c) /\ DOMAIN c = 1..Len(c) /\ Len(c) \in Nat
         /\ IsSeq(Append(c, e)) /\ DOMAIN Append(c, e) = 1..Len(c) + 1
         /\ \A i \in 1..Len(c) : Append(c, e)[i] = c[i]
         /\ Append(c, e)[Len(c) + 1] = e
  <1>1. PICK T : c \in Seq(T)
    BY DEF IsSeq
  <1> DEFINE U == T \cup {e}
  <1>2. c \in Seq(U) /\ e \in U
    BY <1>1, SeqMonotonic
  <1> HIDE DEF U
  <1>3. DOMAIN c = 1..Len(c) /\ Len(c) \in Nat
    BY <1>2, LenProperties
  <1>4. /\ Append(c, e) \in Seq(U) /\ Len(Append(c, e)) = Len(c) + 1
        /\ \A i \in 1..Len(c) : Append(c, e)[i] = c[i]
        /\ Append(c, e)[Len(c) + 1] = e
    BY <1>2, AppendProperties
  <1>5. DOMAIN Append(c, e) = 1..Len(Append(c, e))
    BY <1>4, LenProperties
  <1> QED BY <1>3, <1>4, <1>5 DEF IsSeq

\* What AfterGet leaves: entries of the cache, from different positions
LEMMA AfterGetIs ==
  ASSUME IsSeq(cache), NEW m
  PROVE  LET c == AfterGet(m)
         IN  /\ IsSeq(c)
             /\ \A i \in DOMAIN c : \E a \in DOMAIN cache : c[i] = cache[a]
             /\ \A i, j \in DOMAIN c : i # j =>
                  \E a, b \in DOMAIN cache : a # b /\ c[i] = cache[a] /\ c[j] = cache[b]
             /\ ~ Python /\ Hits(m) = {} =>
                  \A i \in DOMAIN c : Live(c[i])
  <1> DEFINE I == {i \in DOMAIN cache : Live(cache[i])}
             k == Keep(cache, I)
  <1>1. PICK T : cache \in Seq(T)
    BY DEF IsSeq
  <1>2. DOMAIN cache = 1..Len(cache) /\ Len(cache) \in Nat
    BY <1>1, LenProperties
  <1>3. k \in Seq(T) /\ Kept(k, cache, I)
    <2> HIDE DEF I
    <2> QED BY <1>1, KeepIs
  <1>4. DOMAIN k = 1..Len(k) /\ IsSeq(k)
    <2> HIDE DEF k
    <2> QED BY <1>3, LenProperties DEF IsSeq
  <1>5. \A i \in DOMAIN k : Live(k[i])
    <2> HIDE DEF k
    <2> QED BY <1>3, <1>4 DEF Kept
  <1>9. /\ \A i \in DOMAIN k : \E a \in DOMAIN cache : k[i] = cache[a]
        /\ \A i, j \in DOMAIN k : i # j =>
             \E a, b \in DOMAIN cache : a # b /\ k[i] = cache[a] /\ k[j] = cache[b]
    <2> HIDE DEF k, I
    <2>1. ASSUME NEW i \in DOMAIN k
          PROVE  \E a \in DOMAIN cache : k[i] = cache[a]
      <3>1. PICK a \in 1..Len(cache) : a \in I /\ k[i] = cache[a]
        BY <1>3, <1>4 DEF Kept
      <3> QED BY <1>2, <3>1
    <2>2. ASSUME NEW i \in DOMAIN k, NEW j \in DOMAIN k, i # j
          PROVE  \E a, b \in DOMAIN cache : a # b /\ k[i] = cache[a] /\ k[j] = cache[b]
      <3>1. i \in 1..Len(k) /\ j \in 1..Len(k)
        BY <1>4
      <3>2. PICK a \in 1..Len(cache), b \in 1..Len(cache) :
              a # b /\ a \in I /\ b \in I /\ k[i] = cache[a] /\ k[j] = cache[b]
        BY <1>3, <2>2, <3>1 DEF Kept
      <3> QED BY <1>2, <3>2
    <2> QED BY <2>1, <2>2
  <1>6. LiveEntries = k
    BY DEF LiveEntries
  <1>7. CASE AfterGet(m) = k
    <2> HIDE DEF k, I
    <2> QED BY <1>4, <1>5, <1>7, <1>9
  <1>8. CASE AfterGet(m) # k
    <2>1. AfterGet(m) = cache
      BY <1>6, <1>8 DEF AfterGet
    <2>2. ~ Python /\ Hits(m) = {} => \A i \in DOMAIN cache : Live(cache[i])
      BY <1>6, <1>8 DEF AfterGet
    <2> HIDE DEF k, I
    <2> QED BY <2>1, <2>2
  <1> QED BY <1>7, <1>8

\* A hit is a position of a live entry that matches.
LEMMA HitIs ==
  ASSUME IsSeq(cache), NEW m, Hits(m) # {}
  PROVE  LET e == cache[Min(Hits(m))]
         IN  Min(Hits(m)) \in DOMAIN cache /\ Live(e) /\ Match(m, e.req)
  <1>1. PICK T : cache \in Seq(T)
    BY DEF IsSeq
  <1>2. DOMAIN cache = 1..Len(cache) /\ Len(cache) \in Nat
    BY <1>1, LenProperties
  <1>3. Hits(m) \in SUBSET Nat
    BY <1>2 DEF Hits
  <1>4. Min(Hits(m)) \in Hits(m)
    BY <1>3, LeastOf
  <1> QED BY <1>4 DEF Hits

\* Initially, no request and no answer.
LEMMA HInvInit == Init => HInv
  <1> SUFFICES ASSUME Init
               PROVE  HInv
    OBVIOUS
  <1>1. threads = [t \in Threads |-> Idle] /\ cache = <<>>
    BY DEF Init
  <1>2. IsSeq(cache) /\ DOMAIN cache = {}
    <2>1. <<>> \in Seq(Nat) /\ DOMAIN <<>> = {}
      OBVIOUS
    <2> QED BY <1>1, <2>1 DEF IsSeq
  <1>3. \A t \in Threads : ThreadOK(threads[t])
    BY <1>1 DEF ThreadOK
  <1>4. threads = [t \in Threads |-> threads[t]]
    BY <1>1
  <1> QED BY <1>2, <1>3, <1>4 DEF HInv

\* A thread that changes
LEMMA ThreadChanges ==
  ASSUME HInv, NEW t \in Threads, NEW x, ThreadOK(x), threads' = [threads EXCEPT ![t] = x]
  PROVE  /\ threads' = [u \in Threads |-> threads'[u]]
         /\ \A u \in Threads : ThreadOK(threads'[u])
         /\ threads'[t] = x /\ \A u \in Threads \ {t} : threads'[u] = threads[u]
  <1>1. threads = [u \in Threads |-> threads[u]] /\ \A u \in Threads : ThreadOK(threads[u])
    BY DEF HInv
  <1>2. threads'[t] = x /\ \A u \in Threads \ {t} : threads'[u] = threads[u]
    BY <1>1
  <1>3. threads' = [u \in Threads |-> threads'[u]]
    BY <1>1
  <1> QED BY <1>1, <1>2, <1>3

\* The requests that threads make
LEMMA RequestsAre == \A s \in Slaves, n \in Names, m \in Methods : Request(s, n, m) \in Requests
  BY DEF Requests

\* A thread that is idle, and one whose record is given, is not another one.
LEMMA ThreadIs ==
  ASSUME NEW x, ThreadOK(x)
  PROVE  /\ x.at = "sent" =>
              /\ x = [at |-> "sent", req |-> x.req, left |-> x.left]
              /\ x.req \in Requests /\ x.left \in 0..Lifetime
         /\ x.at = "answered" =>
              /\ x = [at |-> "answered", req |-> x.req, left |-> x.left, rep |-> x.rep, age |-> x.age]
              /\ x.req \in Requests /\ x.left \in Nat /\ x.age \in Nat /\ x.age + x.left <= Lifetime
              /\ IsReply(x.rep) /\ OwnReply(x.rep, x.req)
         /\ x.at = "served" =>
              /\ x.req \in Requests
              /\ Young(x.rep, x.age)
              /\ Python \/ OwnReply(x.rep, x.req)
  <1>1. Idle.at = "idle"
    BY DEF Idle
  <1>2. \A r, p, q, a : Served(r, p, q, a).at = "served"
    BY DEF Served
  <1>3. CASE x = Idle
    BY <1>1, <1>3
  <1>4. CASE /\ x = [at |-> "sent", req |-> x.req, left |-> x.left]
             /\ x.req \in Requests /\ x.left \in 0..Lifetime
    <2>1. x.at = "sent"
      BY <1>4
    <2> QED BY <1>4, <2>1
  <1>5. CASE /\ x = [at |-> "answered", req |-> x.req, left |-> x.left, rep |-> x.rep, age |-> x.age]
             /\ x.req \in Requests /\ x.left \in Nat /\ x.age \in Nat /\ x.age + x.left <= Lifetime
             /\ IsReply(x.rep) /\ OwnReply(x.rep, x.req)
    <2>1. x.at = "answered"
      BY <1>5
    <2> QED BY <1>5, <2>1
  <1>6. CASE /\ x = Served(x.req, x.rep, x.asked, x.age)
             /\ x.req \in Requests
             /\ Young(x.rep, x.age)
             /\ Python \/ OwnReply(x.rep, x.req)
    <2>1. x.at = "served"
      BY <1>2, <1>6
    <2> QED BY <1>6, <2>1
  <1> QED BY <1>3, <1>4, <1>5, <1>6 DEF ThreadOK

\* A request is looked for, and served or sent.
LEMMA HInvAsk ==
  ASSUME HInv, NEW t \in Threads, NEW r \in Requests, Ask(t, r)
  PROVE  HInv'
  <1> DEFINE e == cache[Min(Hits(r))]
             x == IF Hits(r) # {} THEN Served(r, e.rep, e.req, e.age)
                  ELSE [at |-> "sent", req |-> r, left |-> Lifetime]
  <1>1. threads' = [threads EXCEPT ![t] = x] /\ cache' = AfterGet(r)
    BY DEF Ask
  <1>2. ThreadOK(x)
    <2>1. CASE Hits(r) = {}
      <3> DEFINE y == [at |-> "sent", req |-> r, left |-> Lifetime]
      <3>1. x = y
        BY <2>1
      <3>2. /\ y = [at |-> "sent", req |-> y.req, left |-> y.left] /\ y.req = r /\ y.left = Lifetime
        OBVIOUS
      <3>3. Lifetime \in 0..Lifetime
        BY CacheAssumption
      <3> HIDE DEF x, y
      <3> QED BY <3>1, <3>2, <3>3 DEF ThreadOK
    <2>2. CASE Hits(r) # {}
      <3> DEFINE i == Min(Hits(r))
      <3>1. i \in DOMAIN cache /\ Live(e) /\ Match(r, e.req)
        BY <2>2, HitIs DEF HInv
      <3>2. EntryOK(e)
        BY <3>1 DEF HInv
      <3>3. x = Served(r, e.rep, e.req, e.age)
        BY <2>2
      <3> HIDE DEF e, x
      <3>4. /\ e.req \in Requests /\ e.age \in Nat /\ e.left \in Int /\ e.left >= 0
            /\ IsReply(e.rep) /\ OwnReply(e.rep, e.req) /\ Young(e.rep, e.age + e.left)
        BY <3>1, <3>2 DEF EntryOK, Live
      <3>5. Young(e.rep, e.age)
        <4> DEFINE b == BytesUint(SearchOption(e.rep, MaxAge).val) + Lifetime
        <4>1. CASE OptionsOf(e.rep, MaxAge) # {}
          <5>1. e.age + e.left <= b
            BY <3>4, <4>1 DEF Young
          <5>2. b \in Int => e.age <= b
            <6> HIDE DEF b
            <6> QED BY <3>4, <5>1
          <5>3. b \in Int
            <6>1. BytesUint(SearchOption(e.rep, MaxAge).val) \in Nat
              BY <3>4, <4>1, AgeIs
            <6> QED BY <6>1, CacheAssumption
          <5> QED BY <5>2, <5>3 DEF Young
        <4>2. CASE OptionsOf(e.rep, MaxAge) = {}
          BY <4>2 DEF Young
        <4> QED BY <4>1, <4>2
      <3>6. Python \/ OwnReply(e.rep, r)
        <4>1. CASE ~ Python
          <5>1. CacheMatch(r, e.req)
            BY <3>1, <4>1 DEF Match
          <5>2. r.opts[1].val = e.req.opts[1].val
            BY <3>4, <5>1, MatchIsSameName
          <5> QED BY <3>4, <5>2 DEF OwnReply
        <4> QED BY <4>1
      <3>7. /\ x = Served(x.req, x.rep, x.asked, x.age)
            /\ x.req = r /\ x.rep = e.rep /\ x.age = e.age
        BY <3>3 DEF Served
      <3> QED BY <3>5, <3>6, <3>7 DEF ThreadOK
    <2> QED BY <2>1, <2>2
  <1> HIDE DEF x
  <1>3. /\ threads' = [u \in Threads |-> threads'[u]]
        /\ \A u \in Threads : ThreadOK(threads'[u])
    BY <1>1, <1>2, ThreadChanges
  <1>4. /\ IsSeq(cache') /\ \A i \in DOMAIN cache' : \E a \in DOMAIN cache : cache'[i] = cache[a]
    BY <1>1, AfterGetIs DEF HInv
  <1>5. \A i \in DOMAIN cache' : EntryOK(cache'[i])
    BY <1>4 DEF HInv
  <1> QED BY <1>3, <1>4, <1>5 DEF HInv

\* The slave answers.
LEMMA HInvAnswer ==
  ASSUME HInv, NEW t \in Threads, NEW age \in Ages \cup {NoAge}, Answer(t, age)
  PROVE  HInv'
  <1> DEFINE x == threads[t]
             p == SlaveReply(x.req, age)
             y == [at |-> "answered", req |-> x.req, left |-> x.left, rep |-> p, age |-> 0]
  <1>1. x.at = "sent" /\ cache' = cache
    BY DEF Answer
  <1>2. x.req \in Requests /\ x.left \in 0..Lifetime
    BY <1>1, ThreadIs DEF HInv
  <1>3. threads' = [threads EXCEPT ![t] = y]
    BY DEF Answer
  <1>4. IsReply(p) /\ OwnReply(p, x.req)
    <2>1. SlaveReads(x.req).ok
      BY DEF Answer
    <2> HIDE DEF x
    <2> QED BY <1>2, <2>1, ReplyIs
  <1> HIDE DEF x, p
  <1>5. ThreadOK(y)
    <2>1. /\ y = [at |-> "answered", req |-> y.req, left |-> y.left, rep |-> y.rep, age |-> y.age]
          /\ y.req = x.req /\ y.left = x.left /\ y.rep = p /\ y.age = 0
      OBVIOUS
    <2>2. x.left \in Nat /\ 0 + x.left <= Lifetime
      BY <1>2, CacheAssumption
    <2> HIDE DEF y
    <2> QED BY <1>2, <1>4, <2>1, <2>2 DEF ThreadOK
  <1> HIDE DEF y
  <1>6. /\ threads' = [u \in Threads |-> threads'[u]]
        /\ \A u \in Threads : ThreadOK(threads'[u])
    BY <1>3, <1>5, ThreadChanges
  <1> QED BY <1>1, <1>6 DEF HInv

\* The thread serves the answer and adds it to the cache.
LEMMA HInvWake ==
  ASSUME HInv, NEW t \in Threads, Wake(t)
  PROVE  HInv'
  <1> DEFINE x == threads[t]
             p == Received(x.rep)
             e == [req |-> x.req, rep |-> p, by |-> t, left |-> AgeOf(p), age |-> x.age]
             y == Served(x.req, p, x.req, x.age)
  <1>1. x.at = "answered"
    BY DEF Wake
  <1>2. /\ x.req \in Requests /\ x.left \in Nat /\ x.age \in Nat /\ x.age + x.left <= Lifetime
        /\ IsReply(x.rep) /\ OwnReply(x.rep, x.req)
    BY <1>1, ThreadIs DEF HInv
  <1>3. threads' = [threads EXCEPT ![t] = y] /\ cache' = IF Cacheable(p) THEN Append(cache, e) ELSE cache
    BY DEF Wake
  <1>4. IsReply(p) /\ OwnReply(p, x.req)
    <2> HIDE DEF x
    <2> QED BY <1>2, ReceivedIs DEF OwnReply
  <1> HIDE DEF x, p
  <1>5. /\ Cacheable(p) => AgeOf(p) \in Nat
        /\ OptionsOf(p, MaxAge) # {} =>
             /\ BytesUint(SearchOption(p, MaxAge).val) \in Nat
             /\ AgeOf(p) <= BytesUint(SearchOption(p, MaxAge).val)
    BY <1>4, AgeIs
  <1>6. Young(p, x.age)
    <2> DEFINE b == BytesUint(SearchOption(p, MaxAge).val)
    <2>1. CASE OptionsOf(p, MaxAge) # {}
      <3>1. b \in Nat
        BY <1>5, <2>1
      <3> HIDE DEF b
      <3>2. x.age <= b + Lifetime
        BY <1>2, <3>1, CacheAssumption
      <3> QED BY <3>2 DEF Young, b
    <2> QED BY <2>1 DEF Young
  <1>7. ThreadOK(y)
    <2>1. y = Served(y.req, y.rep, y.asked, y.age) /\ y.req = x.req /\ y.rep = p /\ y.age = x.age
      BY DEF Served
    <2> HIDE DEF y
    <2> QED BY <1>2, <1>4, <1>6, <2>1 DEF ThreadOK
  <1> HIDE DEF y
  <1>8. /\ threads' = [u \in Threads |-> threads'[u]]
        /\ \A u \in Threads : ThreadOK(threads'[u])
    BY <1>3, <1>7, ThreadChanges
  <1>9. CASE ~ Cacheable(p)
    BY <1>3, <1>8, <1>9 DEF HInv
  <1>10. CASE Cacheable(p)
    <2>1. EntryOK(e)
      <3>1. /\ e = [req |-> e.req, rep |-> e.rep, by |-> e.by, left |-> e.left, age |-> e.age]
            /\ e.req = x.req /\ e.rep = p /\ e.by = t /\ e.left = AgeOf(p) /\ e.age = x.age
        OBVIOUS
      <3>2. Young(p, x.age + AgeOf(p))
        <4> DEFINE b == BytesUint(SearchOption(p, MaxAge).val)
                   a == AgeOf(p)
        <4>1. CASE OptionsOf(p, MaxAge) # {}
          <5>1. b \in Nat /\ a \in Nat /\ a <= b
            BY <1>5, <1>10, <4>1
          <5> HIDE DEF a, b
          <5>2. x.age + a <= b + Lifetime
            BY <1>2, <5>1, CacheAssumption
          <5> QED BY <5>2 DEF Young, a, b
        <4> QED BY <4>1 DEF Young
      <3> HIDE DEF e
      <3>3. e.left \in Int /\ e.age + e.left = x.age + AgeOf(p)
        BY <1>5, <1>10, <3>1
      <3> QED BY <1>2, <1>4, <3>1, <3>2, <3>3 DEF EntryOK
    <2> HIDE DEF e
    <2>2. cache' = Append(cache, e)
      BY <1>3, <1>10
    <2>3. /\ IsSeq(cache') /\ DOMAIN cache = 1..Len(cache) /\ Len(cache) \in Nat
          /\ DOMAIN cache' = 1..Len(cache) + 1
          /\ \A i \in 1..Len(cache) : cache'[i] = cache[i]
          /\ cache'[Len(cache) + 1] = e
      BY <2>2, AddElement DEF HInv
    <2>4. \A i \in 1..Len(cache) + 1 : i \in 1..Len(cache) \/ i = Len(cache) + 1
      BY <2>3
    <2>5. \A i \in DOMAIN cache' : EntryOK(cache'[i])
      BY <2>1, <2>3, <2>4 DEF HInv
    <2> QED BY <1>8, <2>3, <2>5 DEF HInv
  <1> QED BY <1>9, <1>10

\* A thread is idle again.
LEMMA HInvIdle ==
  ASSUME HInv, NEW t \in Threads, GiveUp(t) \/ Return(t)
  PROVE  HInv'
  <1>1. threads' = [threads EXCEPT ![t] = Idle] /\ cache' = cache
    BY DEF GiveUp, Return
  <1>2. ThreadOK(Idle)
    BY DEF ThreadOK
  <1>3. /\ threads' = [u \in Threads |-> threads'[u]]
        /\ \A u \in Threads : ThreadOK(threads'[u])
    BY <1>1, <1>2, ThreadChanges
  <1> QED BY <1>1, <1>3 DEF HInv

\* A thread after a tick
LEMMA ThreadTicks ==
  ASSUME HInv, Tick, NEW t \in Threads
  PROVE  /\ ThreadOK(threads'[t])
         /\ threads'[t].at = threads[t].at
         /\ t \in Waiting => threads'[t].req = threads[t].req
  <1> DEFINE x == threads[t]
             y == threads'[t]
  <1>1. y = IF x.at = "sent" THEN [x EXCEPT !.left = @ - 1]
            ELSE IF x.at = "answered" THEN [x EXCEPT !.left = @ - 1, !.age = @ + 1]
            ELSE x
    BY DEF Tick
  <1>2. t \in Waiting => x.left > 0
    BY DEF Tick
  <1>3. t \in Waiting <=> (x.at = "sent" \/ x.at = "answered")
    BY DEF Waiting
  <1>4. ThreadOK(x)
    BY DEF HInv
  <1> HIDE DEF x, y
  <1>5. CASE x.at = "sent"
    <2>1. /\ x = [at |-> "sent", req |-> x.req, left |-> x.left]
          /\ x.req \in Requests /\ x.left \in 0..Lifetime /\ x.left > 0
      BY <1>2, <1>3, <1>4, <1>5, ThreadIs
    <2>2. y = [at |-> "sent", req |-> x.req, left |-> x.left - 1]
      BY <1>1, <1>5, <2>1
    <2>3. x.left - 1 \in 0..Lifetime
      BY <2>1, CacheAssumption
    <2>4. /\ y.at = "sent" /\ y.req = x.req /\ y.left = x.left - 1
      BY <2>2
    <2>5. ThreadOK(y)
      BY <2>1, <2>2, <2>3, <2>4 DEF ThreadOK
    <2> QED BY <1>5, <2>4, <2>5 DEF x, y
  <1>6. CASE x.at = "answered"
    <2>1. /\ x = [at |-> "answered", req |-> x.req, left |-> x.left, rep |-> x.rep, age |-> x.age]
          /\ x.req \in Requests /\ x.left \in Nat /\ x.age \in Nat /\ x.age + x.left <= Lifetime
          /\ IsReply(x.rep) /\ OwnReply(x.rep, x.req) /\ x.left > 0
      BY <1>2, <1>3, <1>4, <1>6, ThreadIs
    <2>2. y = [at |-> "answered", req |-> x.req, left |-> x.left - 1, rep |-> x.rep, age |-> x.age + 1]
      BY <1>1, <1>6, <2>1
    <2>3. x.left - 1 \in Nat /\ x.age + 1 \in Nat /\ (x.age + 1) + (x.left - 1) <= Lifetime
      BY <2>1, CacheAssumption
    <2>4. /\ y.at = "answered" /\ y.req = x.req /\ y.left = x.left - 1 /\ y.rep = x.rep /\ y.age = x.age + 1
      BY <2>2
    <2>5. ThreadOK(y)
      BY <2>1, <2>2, <2>3, <2>4 DEF ThreadOK
    <2> QED BY <1>6, <2>4, <2>5 DEF x, y
  <1>7. CASE x.at # "sent" /\ x.at # "answered"
    <2>1. y = x
      BY <1>1, <1>7
    <2> QED BY <1>3, <1>4, <1>7, <2>1 DEF x, y
  <1> QED BY <1>5, <1>6, <1>7

\* An entry after a tick
LEMMA EntryTicks ==
  ASSUME HInv, Tick
  PROVE  /\ DOMAIN cache' = DOMAIN cache /\ IsSeq(cache')
         /\ \A i \in DOMAIN cache :
              /\ EntryOK(cache'[i]) /\ cache'[i].req = cache[i].req /\ cache'[i].by = cache[i].by
  <1>1. cache' = [i \in DOMAIN cache |->
          IF cache[i].left <= 0 THEN Expired(cache[i])
          ELSE [cache[i] EXCEPT !.left = @ - 1, !.age = @ + 1]]
    BY DEF Tick
  <1>2. DOMAIN cache' = DOMAIN cache
    BY <1>1
  <1>3. IsSeq(cache')
    <2>1. DOMAIN cache = 1..Len(cache) /\ Len(cache) \in Nat
      BY AddElement DEF HInv
    <2> DEFINE T == {cache'[i] : i \in DOMAIN cache}
    <2>2. cache' \in [1..Len(cache) -> T]
      BY <1>1, <2>1
    <2> HIDE DEF T
    <2>3. cache' \in Seq(T)
      BY <2>1, <2>2
    <2> QED BY <2>3 DEF IsSeq
  <1>4. ASSUME NEW i \in DOMAIN cache
        PROVE  EntryOK(cache'[i]) /\ cache'[i].req = cache[i].req /\ cache'[i].by = cache[i].by
    <2> DEFINE e == cache[i]
               y == cache'[i]
    <2>1. y = IF e.left <= 0 THEN Expired(e) ELSE [e EXCEPT !.left = @ - 1, !.age = @ + 1]
      BY <1>1
    <2>2. EntryOK(e)
      BY DEF HInv
    <2> HIDE DEF e, y
    <2>3. /\ e = [req |-> e.req, rep |-> e.rep, by |-> e.by, left |-> e.left, age |-> e.age]
          /\ e.req \in Requests /\ e.by \in Threads /\ e.left \in Int /\ e.age \in Nat
      BY <2>2 DEF EntryOK
    <2>4. CASE e.left <= 0
      <3>1. y = [req |-> e.req, rep |-> {}, by |-> e.by, left |-> -1, age |-> 0]
        BY <2>1, <2>3, <2>4 DEF Expired
      <3>2. /\ y.req = e.req /\ y.rep = {} /\ y.by = e.by /\ y.left = -1 /\ y.age = 0
        BY <3>1
      <3>3. ~ (-1 >= 0) /\ -1 \in Int
        OBVIOUS
      <3>4. EntryOK(y)
        BY <2>3, <3>1, <3>2, <3>3 DEF EntryOK
      <3> QED BY <3>2, <3>4 DEF e, y
    <2>5. CASE ~ (e.left <= 0)
      <3>1. y = [req |-> e.req, rep |-> e.rep, by |-> e.by, left |-> e.left - 1, age |-> e.age + 1]
        BY <2>1, <2>3, <2>5
      <3>2. /\ y.req = e.req /\ y.rep = e.rep /\ y.by = e.by /\ y.left = e.left - 1 /\ y.age = e.age + 1
        BY <3>1
      <3>3. /\ e.left >= 0 /\ e.left - 1 \in Int /\ e.age + 1 \in Nat
            /\ (e.age + 1) + (e.left - 1) = e.age + e.left
        BY <2>3, <2>5
      <3>4. IsReply(e.rep) /\ OwnReply(e.rep, e.req) /\ Young(e.rep, e.age + e.left)
        BY <2>2, <3>3 DEF EntryOK
      <3>5. EntryOK(y)
        BY <2>3, <3>1, <3>2, <3>3, <3>4 DEF EntryOK
      <3> QED BY <3>2, <3>5 DEF e, y
    <2> QED BY <2>4, <2>5
  <1> QED BY <1>2, <1>3, <1>4

\* Time passes.
LEMMA HInvTick == HInv /\ Tick => HInv'
  <1> SUFFICES ASSUME HInv, Tick
               PROVE  HInv'
    OBVIOUS
  <1>1. \A t \in Threads : ThreadOK(threads'[t])
    BY ThreadTicks
  <1>2. threads' = [t \in Threads |-> threads'[t]]
    <2>1. DOMAIN threads' = Threads
      BY DEF Tick
    <2> QED BY <2>1 DEF Tick
  <1>3. IsSeq(cache') /\ \A i \in DOMAIN cache' : EntryOK(cache'[i])
    BY EntryTicks
  <1> QED BY <1>1, <1>2, <1>3 DEF HInv

\* Every step keeps the invariant.
LEMMA HInvNext == HInv /\ [Next]_vars => HInv'
  <1> SUFFICES ASSUME HInv, [Next]_vars
               PROVE  HInv'
    OBVIOUS
  <1>1. ASSUME NEW t \in Threads, NEW s \in Slaves, NEW n \in Names, NEW m \in Methods,
               Ask(t, Request(s, n, m))
        PROVE  HInv'
    BY <1>1, HInvAsk, RequestsAre
  <1>2. ASSUME NEW t \in Threads, NEW age \in Ages \cup {NoAge}, Answer(t, age)
        PROVE  HInv'
    BY <1>2, HInvAnswer
  <1>3. ASSUME NEW t \in Threads, Wake(t)
        PROVE  HInv'
    BY <1>3, HInvWake
  <1>4. ASSUME NEW t \in Threads, GiveUp(t) \/ Return(t)
        PROVE  HInv'
    BY <1>4, HInvIdle
  <1>5. CASE Tick
    BY <1>5, HInvTick
  <1>6. CASE UNCHANGED vars
    BY <1>6 DEF vars, HInv
  <1> QED BY <1>1, <1>2, <1>3, <1>4, <1>5, <1>6 DEF Next

\* The invariant holds of every state.
LEMMA HInvAlways == Spec => []HInv
  BY HInvInit, HInvNext, PTL DEF Spec

(* ---------------------------------------------------------------------- *)
(* What follows                                                             *)

\* What threads have sent and what slaves have answered are messages of module Coap.
LEMMA SentAre == ASSUME HInv, NEW t \in Sent PROVE threads[t].req \in Requests /\ IsMessage(threads[t].req)
  <1>1. threads[t].req \in Requests
    BY ThreadIs DEF HInv, Sent
  <1> QED BY <1>1, RequestIs

LEMMA AnsweredAre ==
  ASSUME HInv, NEW t \in Answered
  PROVE  IsReply(threads[t].rep) /\ IsMessage(threads[t].rep)
  <1>1. IsReply(threads[t].rep)
    BY ThreadIs DEF HInv, Answered
  <1> QED BY <1>1, ReplyIsMessage

\* Every answer is read as it was written, and every request of the Python master, and
\* of the C++ master those for a name of fewer than 13 bytes, unless they are too long
\* (the encoders and the decoders of msg.cc, msg.py and msg.cpp).
THEOREM AlwaysReadAsWritten == Spec => []ReadAsWritten
  <1>1. ASSUME HInv, NEW t \in Sent, ~ TooLong(threads[t].req), Readable(threads[t].req, Python)
        PROVE  ReadBySlave(threads[t].req)
    <2> DEFINE r == threads[t].req
               d == SlaveReads(r)
    <2>1. r \in Requests /\ IsMessage(r) /\ Python \in BOOLEAN /\ TooLong(r) = FALSE
      BY <1>1, SentAre, CacheAssumption DEF TooLong
    <2>2. PICK n \in Names : r.payload = <<>>
      BY <2>1, RequestIs
    <2>3. SlaveDecode(Encode(r, Python), FALSE) =
            [ok |-> TRUE, opts |-> SortOptions(r.opts),
             payload |-> IF r.payload = <<>> THEN <<>> ELSE r.payload \o <<Junk>>]
      BY <1>1, <2>1, SlaveDecodeEncode
    <2>4. d = SlaveDecode(Encode(r, Python), FALSE)
      BY <2>1 DEF SlaveReads
    <2> HIDE DEF r, d
    <2>5. d = [ok |-> TRUE, opts |-> SortOptions(r.opts), payload |-> r.payload]
      BY <2>2, <2>3, <2>4
    <2>6. d.ok = TRUE /\ d.opts = SortOptions(r.opts) /\ d.payload = r.payload
      BY <2>5
    <2> QED BY <2>6 DEF ReadBySlave, r, d
  <1>2. ASSUME HInv, NEW t \in Answered
        PROVE  LET rep == threads[t].rep
               IN  Received(rep) = [code |-> rep.code, ok |-> TRUE, opts |-> SortOptions(rep.opts),
                                    payload |-> rep.payload]
    BY <1>2, AnsweredAre, ReceivedIs
  <1>3. HInv => ReadAsWritten
    BY <1>1, <1>2 DEF ReadAsWritten
  <1> QED BY <1>3, HInvAlways, PTL

\* Requests and answers are exactly as long as what was computed before they were
\* written, those whose lengths are written wrong too: nothing is written after what is
\* allocated (msg.cpp, Msg::coap_encode).
THEOREM SizeAlwaysExact == Spec => []SizeIsExact
  <1>1. ASSUME HInv, NEW t \in Sent
        PROVE  Len(Encode(threads[t].req, Python)) = EncodedSize(threads[t].req)
    BY <1>1, SentAre, EncodedSizeExact, CacheAssumption
  <1>2. ASSUME HInv, NEW t \in Answered
        PROVE  Len(Encode(threads[t].rep, FALSE)) = EncodedSize(threads[t].rep)
    BY <1>2, AnsweredAre, EncodedSizeExact
  <1>3. HInv => SizeIsExact
    BY <1>1, <1>2 DEF SizeIsExact
  <1> QED BY <1>3, HInvAlways, PTL

\* Through the encoders, the decoders, the slave and the cache of the C++ master, the
\* value that is served is one of the resource that was asked for: the slave does not
\* understand a request whose name is written with a wrong length.
THEOREM AlwaysOwnValue ==
  ASSUME ~ Python
  PROVE  Spec => []OwnValue
  <1>1. HInv => OwnValue
    BY ThreadIs DEF HInv, OwnValue, OwnReply
  <1> QED BY <1>1, HInvAlways, PTL

\* In both masters, a value that is served is not older than its Max-Age and the time
\* that a thread may wait for it: entries expire on time (cache.cc, cache.py).
THEOREM AlwaysFresh == Spec => []Fresh
  <1>1. HInv => Fresh
    BY ThreadIs DEF HInv, Fresh, Young
  <1> QED BY <1>1, HInvAlways, PTL

(* ---------------------------------------------------------------------- *)
(* One entry each                                                           *)

\* No thread waits for an answer that it would add to one it has added.
NotMine ==
  \A t \in Waiting : \A i \in DOMAIN cache :
    CacheMatch(cache[i].req, threads[t].req) => cache[i].by # t

\* In the C++ master, a request that is sent is one that no entry left matches.
MissIsSent == \A r : \A i \in DOMAIN AfterGet(r) :
  Hits(r) = {} => ~ CacheMatch(AfterGet(r)[i].req, r)

\* Looking for a request that misses forgets what is expired, and the rest does not match.
LEMMA MissLeavesNone == ASSUME HInv, ~ Python PROVE MissIsSent
  <1> SUFFICES ASSUME NEW r, NEW i \in DOMAIN AfterGet(r), Hits(r) = {},
                      CacheMatch(AfterGet(r)[i].req, r)
               PROVE  FALSE
    BY DEF MissIsSent
  <1> DEFINE c == AfterGet(r)
  <1>1. PICK a \in DOMAIN cache : c[i] = cache[a]
    BY AfterGetIs DEF HInv
  <1>2. Live(c[i])
    BY AfterGetIs DEF HInv
  <1>3. CacheMatch(cache[a].req, r)
    BY <1>1
  <1>4. CacheMatch(r, cache[a].req)
    BY <1>3 DEF CacheMatch
  <1>5. a \in Hits(r)
    BY <1>1, <1>2, <1>4 DEF Hits, Match
  <1> QED BY <1>5

\* A request is looked for: only if it is not found is it sent.
LEMMA OneEachAsk ==
  ASSUME HInv, ~ Python, NotMine, OneEntryEach, NEW t \in Threads, NEW r \in Requests, Ask(t, r)
  PROVE  NotMine' /\ OneEntryEach'
  <1> DEFINE e == cache[Min(Hits(r))]
             y == Served(r, e.rep, e.req, e.age)
             z == [at |-> "sent", req |-> r, left |-> Lifetime]
             x == IF Hits(r) # {} THEN y ELSE z
  <1>1. threads' = [threads EXCEPT ![t] = x] /\ cache' = AfterGet(r)
    BY DEF Ask
  <1>2. y.at = "served" /\ z.at = "sent" /\ z.req = r
    BY DEF Served
  <1>3. Hits(r) # {} => x = y
    OBVIOUS
  <1>4. Hits(r) = {} => x = z
    OBVIOUS
  <1> HIDE DEF x, y, z
  <1>5. \A u \in Waiting' : u # t => u \in Waiting /\ threads'[u].req = threads[u].req
    <2>1. threads = [u \in Threads |-> threads[u]]
      BY DEF HInv
    <2> QED BY <1>1, <2>1 DEF Waiting
  <1>6. t \in Waiting' => Hits(r) = {} /\ threads'[t].req = r
    <2>1. threads'[t] = x
      BY <1>1 DEF HInv
    <2> QED BY <1>2, <1>3, <1>4, <2>1 DEF Waiting
  <1>7. /\ \A i \in DOMAIN cache' : \E a \in DOMAIN cache : cache'[i] = cache[a]
        /\ \A i, j \in DOMAIN cache' : i # j =>
             \E a, b \in DOMAIN cache : a # b /\ cache'[i] = cache[a] /\ cache'[j] = cache[b]
    BY <1>1, AfterGetIs DEF HInv
  <1>8. NotMine'
    <2> SUFFICES ASSUME NEW u \in Waiting', NEW i \in DOMAIN cache',
                        CacheMatch(cache'[i].req, threads'[u].req)
                 PROVE  cache'[i].by # u
      BY DEF NotMine, CacheMatch, CacheKey
    <2>1. CASE u = t
      <3>1. Hits(r) = {} /\ CacheMatch(cache'[i].req, r)
        BY <1>6, <2>1
      <3>2. ~ CacheMatch(cache'[i].req, r)
        BY <1>1, <3>1, MissLeavesNone DEF MissIsSent
      <3> QED BY <3>1, <3>2
    <2>2. CASE u # t
      <3>1. PICK a \in DOMAIN cache : cache'[i] = cache[a]
        BY <1>7
      <3>2. u \in Waiting /\ CacheMatch(cache[a].req, threads[u].req)
        BY <1>5, <2>2, <3>1
      <3> QED BY <3>1, <3>2 DEF NotMine
    <2> QED BY <2>1, <2>2
  <1>9. OneEntryEach'
    <2> SUFFICES ASSUME NEW i \in DOMAIN cache', NEW j \in DOMAIN cache', i # j,
                        CacheMatch(cache'[i].req, cache'[j].req)
                 PROVE  cache'[i].by # cache'[j].by
      BY DEF OneEntryEach, CacheMatch, CacheKey
    <2>1. PICK a \in DOMAIN cache, b \in DOMAIN cache :
            a # b /\ cache'[i] = cache[a] /\ cache'[j] = cache[b]
      BY <1>7
    <2>2. CacheMatch(cache[a].req, cache[b].req)
      BY <2>1
    <2> QED BY <2>1, <2>2 DEF OneEntryEach
  <1> QED BY <1>8, <1>9

\* A thread adds an answer that matches none it has added.
LEMMA OneEachWake ==
  ASSUME HInv, NotMine, OneEntryEach, NEW t \in Threads, Wake(t)
  PROVE  NotMine' /\ OneEntryEach'
  <1> DEFINE x == threads[t]
             p == Received(x.rep)
             e == [req |-> x.req, rep |-> p, by |-> t, left |-> AgeOf(p), age |-> x.age]
             y == Served(x.req, p, x.req, x.age)
  <1>1. t \in Waiting
    BY DEF Wake, Waiting
  <1>2. threads' = [threads EXCEPT ![t] = y] /\ cache' = IF Cacheable(p) THEN Append(cache, e) ELSE cache
    BY DEF Wake
  <1>3. y.at = "served" /\ e.req = threads[t].req /\ e.by = t
    BY DEF Served
  <1> HIDE DEF e, y, p
  <1>4. \A u \in Waiting' : u # t /\ u \in Waiting /\ threads'[u].req = threads[u].req
    <2>1. threads = [u \in Threads |-> threads[u]]
      BY DEF HInv
    <2> QED BY <1>2, <1>3, <2>1 DEF Waiting
  <1>5. \A i \in DOMAIN cache' : (i \in DOMAIN cache /\ cache'[i] = cache[i])
                                 \/ (i = Len(cache) + 1 /\ cache'[i] = e)
    <2>1. CASE ~ Cacheable(p)
      BY <1>2, <2>1
    <2>2. CASE Cacheable(p)
      <3>1. cache' = Append(cache, e)
        BY <1>2, <2>2
      <3>2. /\ DOMAIN cache = 1..Len(cache) /\ Len(cache) \in Nat
            /\ DOMAIN cache' = 1..Len(cache) + 1
            /\ \A i \in 1..Len(cache) : cache'[i] = cache[i]
            /\ cache'[Len(cache) + 1] = e
        BY <3>1, AddElement DEF HInv
      <3>3. \A i \in 1..Len(cache) + 1 : i \in 1..Len(cache) \/ i = Len(cache) + 1
        BY <3>2
      <3> QED BY <3>2, <3>3
    <2> QED BY <2>1, <2>2
  <1>6. \A i \in DOMAIN cache : CacheMatch(cache[i].req, e.req) => cache[i].by # e.by
    BY <1>1, <1>3 DEF NotMine
  <1>7. NotMine'
    <2> SUFFICES ASSUME NEW u \in Waiting', NEW i \in DOMAIN cache',
                        CacheMatch(cache'[i].req, threads'[u].req)
                 PROVE  cache'[i].by # u
      BY DEF NotMine, CacheMatch, CacheKey
    <2>1. CASE i \in DOMAIN cache /\ cache'[i] = cache[i]
      <3>1. u \in Waiting /\ CacheMatch(cache[i].req, threads[u].req)
        BY <1>4, <2>1
      <3> QED BY <2>1, <3>1 DEF NotMine
    <2>2. CASE cache'[i] = e
      BY <1>3, <1>4, <2>2
    <2> QED BY <1>5, <2>1, <2>2
  <1>8. OneEntryEach'
    <2> SUFFICES ASSUME NEW i \in DOMAIN cache', NEW j \in DOMAIN cache', i # j,
                        CacheMatch(cache'[i].req, cache'[j].req)
                 PROVE  cache'[i].by # cache'[j].by
      BY DEF OneEntryEach, CacheMatch, CacheKey
    <2>0. CacheMatch(cache'[j].req, cache'[i].req)
      BY DEF CacheMatch
    <2>1. CASE /\ i \in DOMAIN cache /\ cache'[i] = cache[i]
               /\ j \in DOMAIN cache /\ cache'[j] = cache[j]
      <3>1. CacheMatch(cache[i].req, cache[j].req)
        BY <2>1
      <3> QED BY <2>1, <3>1 DEF OneEntryEach
    <2>2. CASE i \in DOMAIN cache /\ cache'[i] = cache[i] /\ cache'[j] = e
      <3>1. CacheMatch(cache[i].req, e.req)
        BY <2>2
      <3> QED BY <1>6, <2>2, <3>1
    <2>3. CASE j \in DOMAIN cache /\ cache'[j] = cache[j] /\ cache'[i] = e
      <3>1. CacheMatch(cache[j].req, e.req)
        BY <2>0, <2>3
      <3> QED BY <1>6, <2>3, <3>1
    <2>4. CASE i = Len(cache) + 1 /\ j = Len(cache) + 1
      BY <2>4
    <2> QED BY <1>5, <2>1, <2>2, <2>3, <2>4
  <1> QED BY <1>7, <1>8

\* The other steps of a thread leave the cache as it is, and make no request.
LEMMA OneEachOther ==
  ASSUME HInv, NotMine, OneEntryEach, cache' = cache,
         \A u \in Waiting' : u \in Waiting /\ threads'[u].req = threads[u].req
  PROVE  NotMine' /\ OneEntryEach'
  <1>1. NotMine'
    <2> SUFFICES ASSUME NEW u \in Waiting', NEW i \in DOMAIN cache',
                        CacheMatch(cache'[i].req, threads'[u].req)
                 PROVE  cache'[i].by # u
      BY DEF NotMine, CacheMatch, CacheKey
    <2>1. CacheMatch(cache[i].req, threads[u].req)
      OBVIOUS
    <2> QED BY <2>1 DEF NotMine
  <1>2. OneEntryEach'
    BY DEF OneEntryEach, CacheMatch, CacheKey
  <1> QED BY <1>1, <1>2

\* Time passes: the entries and the requests stay those they are.
LEMMA OneEachTick ==
  ASSUME HInv, NotMine, OneEntryEach, Tick
  PROVE  NotMine' /\ OneEntryEach'
  <1>1. \A u \in Waiting' : u \in Waiting /\ threads'[u].req = threads[u].req
    BY ThreadTicks DEF Waiting
  <1>2. /\ DOMAIN cache' = DOMAIN cache
        /\ \A i \in DOMAIN cache : cache'[i].req = cache[i].req /\ cache'[i].by = cache[i].by
    BY EntryTicks
  <1>3. NotMine'
    <2> SUFFICES ASSUME NEW u \in Waiting', NEW i \in DOMAIN cache',
                        CacheMatch(cache'[i].req, threads'[u].req)
                 PROVE  cache'[i].by # u
      BY DEF NotMine, CacheMatch, CacheKey
    <2>1. u \in Waiting /\ CacheMatch(cache[i].req, threads[u].req)
      BY <1>1, <1>2
    <2> QED BY <1>2, <2>1 DEF NotMine
  <1>4. OneEntryEach'
    <2> SUFFICES ASSUME NEW i \in DOMAIN cache', NEW j \in DOMAIN cache', i # j,
                        CacheMatch(cache'[i].req, cache'[j].req)
                 PROVE  cache'[i].by # cache'[j].by
      BY DEF OneEntryEach, CacheMatch, CacheKey
    <2>1. CacheMatch(cache[i].req, cache[j].req)
      BY <1>2
    <2> QED BY <1>2, <2>1 DEF OneEntryEach
  <1> QED BY <1>3, <1>4

\* Every step keeps it.
LEMMA OneEachNext ==
  ASSUME HInv, ~ Python, NotMine, OneEntryEach, [Next]_vars
  PROVE  NotMine' /\ OneEntryEach'
  <1>1. ASSUME NEW t \in Threads, NEW s \in Slaves, NEW n \in Names, NEW m \in Methods,
               Ask(t, Request(s, n, m))
        PROVE  NotMine' /\ OneEntryEach'
    BY <1>1, OneEachAsk, RequestsAre
  <1>2. ASSUME NEW t \in Threads, NEW age \in Ages \cup {NoAge}, Answer(t, age)
        PROVE  NotMine' /\ OneEntryEach'
    <2> DEFINE x == threads[t]
               p == SlaveReply(x.req, age)
               y == [at |-> "answered", req |-> x.req, left |-> x.left, rep |-> p, age |-> 0]
    <2>1. x.at = "sent" /\ cache' = cache /\ threads' = [threads EXCEPT ![t] = y]
      BY <1>2 DEF Answer
    <2>2. y.req = threads[t].req
      OBVIOUS
    <2>3. threads = [u \in Threads |-> threads[u]]
      BY DEF HInv
    <2> HIDE DEF y
    <2>4. \A u \in Waiting' : u \in Waiting /\ threads'[u].req = threads[u].req
      BY <2>1, <2>2, <2>3 DEF Waiting
    <2> QED BY <2>1, <2>4, OneEachOther
  <1>3. ASSUME NEW t \in Threads, Wake(t)
        PROVE  NotMine' /\ OneEntryEach'
    BY <1>3, OneEachWake
  <1>4. ASSUME NEW t \in Threads, GiveUp(t) \/ Return(t)
        PROVE  NotMine' /\ OneEntryEach'
    <2>1. threads' = [threads EXCEPT ![t] = Idle] /\ cache' = cache
      BY <1>4 DEF GiveUp, Return
    <2>2. threads = [u \in Threads |-> threads[u]] /\ Idle.at = "idle"
      BY DEF HInv, Idle
    <2>3. \A u \in Waiting' : u \in Waiting /\ threads'[u].req = threads[u].req
      BY <2>1, <2>2 DEF Waiting
    <2> QED BY <2>1, <2>3, OneEachOther
  <1>5. CASE Tick
    BY <1>5, OneEachTick
  <1>6. CASE UNCHANGED vars
    <2>1. cache' = cache /\ \A u \in Waiting' : u \in Waiting /\ threads'[u].req = threads[u].req
      BY <1>6 DEF vars, Waiting
    <2> QED BY <2>1, OneEachOther
  <1> QED BY <1>1, <1>2, <1>3, <1>4, <1>5, <1>6 DEF Next

\* In the C++ master, no thread adds a second answer to a request while its first one is
\* there, expired or not: the cache grows with the threads, not with time (cache.cc).
THEOREM AlwaysOneEntryEach ==
  ASSUME ~ Python
  PROVE  Spec => []OneEntryEach
  <1> DEFINE Inv == HInv /\ NotMine /\ OneEntryEach
  <1>1. Init => Inv
    <2>1. Init => DOMAIN cache = {}
      BY DEF Init
    <2> QED BY <2>1, HInvInit DEF NotMine, OneEntryEach
  <1>2. Inv /\ [Next]_vars => Inv'
    BY HInvNext, OneEachNext
  <1>3. Inv => OneEntryEach
    OBVIOUS
  <1> QED BY <1>1, <1>2, <1>3, PTL DEF Spec
=============================================================================
