-------------------------- MODULE XBeeFrame_proofs --------------------------
(***************************************************************************)
(* Proofs about XBeeFrame, for any base of bytes, any limits on frames and *)
(* any line: recv always has room to read, never waits while it has a      *)
(* packet, returns the packets of the line in their order, and is ended by *)
(* nothing else than a packet that is shorter than its header.             *)
(***************************************************************************)
EXTENDS XBeeFrame, SequenceTheorems, FiniteSetTheorems, WellFoundedInduction, TLAPS

\* When is_frame_complete has returned false, what is left begins no complete frame.
Settled == pc \notin {"scan", "crashed"} => ~ Enough(buffer)

\* Until is_frame_complete finds a frame, there is no packet in the list.
Fetching ==
  /\ pc = "read" => found = FALSE
  /\ pc # "extract" /\ found = FALSE => \A i \in DOMAIN framelist : ~ IsPacket(framelist[i])

\* What ended recv is still in the buffer.
Crashed == pc = "crashed" => \E b \in Aligned : Enough(b) /\ Valid(b) /\ Short(b)

XInv == TypeOK /\ Settled /\ Fetching /\ Crashed

\* Removing the first bytes leaves bytes.
LEMMA DropType ==
  ASSUME NEW b \in Seq(Byte), NEW n \in 0..Len(b)
  PROVE  /\ DropFirst(b, n) \in Seq(Byte)
         /\ Len(DropFirst(b, n)) = Len(b) - n
  <1>1. Len(b) \in Nat BY LenProperties
  <1>2. n + 1 \in 1..(Len(b) + 1) /\ Len(b) \in ((n + 1) - 1)..Len(b) BY <1>1
  <1>q. QED BY <1>1, <1>2, SubSeqProperties DEF DropFirst

\* The buffer, from its first start byte, holds bytes.
LEMMA AlignedType == ASSUME TypeOK, NEW b \in Aligned PROVE b \in Seq(Byte)
  <1>1. buffer \in Seq(Byte) BY DEF TypeOK
  <1>2. PICK i \in DOMAIN buffer : b = DropFirst(buffer, i - 1) BY DEF Aligned
  <1>3. i \in 1..Len(buffer) /\ Len(buffer) \in Nat BY <1>1, LenProperties
  <1>4. i - 1 \in 0..Len(buffer) BY <1>3
  <1>q. QED BY <1>1, <1>2, <1>4, DropType

\* The fields of a frame whose beginning is there
LEMMA LengthType ==
  ASSUME NEW b \in Seq(Byte), Len(b) >= MinFrame
  PROVE  Length(b) \in Nat /\ b[4] \in Byte /\ Len(b) \in Nat
  <1>1. Len(b) \in Nat /\ Len(b) >= 4 /\ MinFrame \in Nat
    BY LenProperties, XBeeAssumption
  <1>2. \A i \in 1..4 : b[i] \in Byte BY <1>1, ElementOfSeq
  <1>3. b[2] \in Nat /\ b[3] \in Nat /\ b[4] \in Byte BY <1>2, XBeeAssumption DEF Byte
  <1>4. b[2] * Base \in Nat
    <2>1. Base \in Nat BY XBeeAssumption
    <2>2. \A x, y \in Nat : x * y \in Nat OBVIOUS
    <2>q. QED BY <1>3, <2>1, <2>2
  <1>q. QED BY <1>1, <1>3, <1>4 DEF Length

\* What begins no complete frame leaves room in the buffer.
LEMMA NotEnoughShort ==
  ASSUME NEW b \in Seq(Byte), ~ Enough(b)
  PROVE  Len(b) < BufLen
  <1>1. Len(b) \in Nat BY LenProperties
  <1>2. CASE Len(b) < MinFrame BY <1>1, <1>2, XBeeAssumption
  <1>3. CASE ~ (Len(b) < MinFrame)
    <2>1. Len(b) >= MinFrame BY <1>1, <1>3, XBeeAssumption
    <2>2. Length(b) \in Nat BY <2>1, LengthType
    <2>3. Length(b) + 4 > Len(b) /\ Length(b) <= MaxFrame
      BY <1>1, <2>1, <2>2, XBeeAssumption DEF Enough, Unlikely, PktLen
    <2>q. QED BY <1>1, <2>2, <2>3, XBeeAssumption
  <1>q. QED BY <1>2, <1>3

\* The empty sequence begins no frame.
LEMMA EmptySettled == << >> \in Seq(Byte) /\ ~ Enough(<< >>)
  <1>1. Len(<< >>) = 0 /\ << >> \in Seq(Byte) BY EmptySeq
  <1>q. QED BY <1>1, XBeeAssumption DEF Enough

\* The invariant holds before recv is called.
LEMMA InitHolds == Init => XInv
  <1> SUFFICES ASSUME Init PROVE XInv OBVIOUS
  <1>1. << >> \in Seq(Frame) BY EmptySeq
  <1>2. TypeOK BY <1>1, EmptySettled DEF Init, TypeOK
  <1>q. QED BY <1>2, EmptySettled DEF Init, XInv, Settled, Fetching, Crashed

\* The end of is_frame_complete, with no start byte or with some bytes of a frame
LEMMA EndsKeep == ASSUME XInv, ScanJunk \/ ScanIncomplete PROVE XInv'
  <1>1. TypeOK BY DEF XInv
  <1>2. buffer' \in Seq(Byte) /\ ~ Enough(buffer')
    BY <1>1, EmptySettled, AlignedType DEF ScanJunk, ScanIncomplete
  <1>3. UNCHANGED <<framelist, found, line, packets>> /\ pc' = IF found THEN "extract" ELSE "read"
    BY DEF ScanJunk, ScanIncomplete
  <1>4. TypeOK' BY <1>1, <1>2, <1>3 DEF TypeOK
  <1>5. Settled' BY <1>2 DEF Settled
  <1>6. pc = "scan" BY DEF ScanJunk, ScanIncomplete
  <1>7. Fetching' /\ Crashed' BY <1>3, <1>6 DEF XInv, Fetching, Crashed, TypeOK
  <1>q. QED BY <1>4, <1>5, <1>7 DEF XInv

\* A start byte that begins no frame is skipped.
LEMMA SkipKeeps == ASSUME XInv, ScanSkips PROVE XInv'
  <1>1. TypeOK BY DEF XInv
  <1>2. PICK b \in Aligned : Enough(b) /\ buffer' = DropFirst(b, 1) BY DEF ScanSkips
  <1>3. b \in Seq(Byte) /\ Len(b) \in Nat BY <1>1, AlignedType, LenProperties
  <1>4. 1 \in 0..Len(b) BY <1>2, <1>3, XBeeAssumption DEF Enough
  <1>5. buffer' \in Seq(Byte) BY <1>2, <1>3, <1>4, DropType
  <1>6. TypeOK' BY <1>1, <1>5 DEF ScanSkips, TypeOK
  <1>7. Settled' /\ Fetching' /\ Crashed' BY DEF XInv, ScanSkips, Settled, Fetching, Crashed
  <1>q. QED BY <1>6, <1>7 DEF XInv

\* A frame goes to the list.
LEMMA ExtractKeeps == ASSUME XInv, ScanExtracts PROVE XInv'
  <1>1. TypeOK BY DEF XInv
  <1>2. PICK b \in Aligned :
          /\ Enough(b) /\ Valid(b)
          /\ framelist' = Append(framelist, FrameOf(b))
          /\ buffer' = DropFirst(b, PktLen(b))
    BY DEF ScanExtracts
  <1>3. b \in Seq(Byte) /\ Len(b) >= MinFrame BY <1>1, <1>2, AlignedType DEF Enough
  <1>4. Length(b) \in Nat /\ b[4] \in Byte /\ Len(b) \in Nat BY <1>3, LengthType
  <1>5. PktLen(b) \in 0..Len(b) BY <1>2, <1>4 DEF Enough, Valid, PktLen
  <1>6. buffer' \in Seq(Byte) BY <1>2, <1>3, <1>5, DropType
  <1>7. SubSeq(b, 4, Length(b) + 3) \in Seq(Byte)
    <2>1. 4 \in 1..(Len(b) + 1) /\ Length(b) + 3 \in (4 - 1)..Len(b)
      BY <1>4, <1>5 DEF PktLen
    <2>q. QED BY <1>3, <2>1, SubSeqProperties
  <1>8. FrameOf(b) \in Frame BY <1>4, <1>7 DEF FrameOf, Frame
  <1>9. framelist' \in Seq(Frame) BY <1>1, <1>2, <1>8, AppendProperties DEF TypeOK
  <1>10. TypeOK' BY <1>1, <1>6, <1>9 DEF ScanExtracts, TypeOK
  <1>11. Settled' /\ Fetching' /\ Crashed' BY DEF ScanExtracts, Settled, Fetching, Crashed
  <1>q. QED BY <1>10, <1>11 DEF XInv

\* A payload of a negative length is copied.
LEMMA CrashKeeps == ASSUME XInv, ScanCrashes PROVE XInv'
  <1>1. TypeOK' BY DEF XInv, ScanCrashes, TypeOK
  <1>2. Settled' /\ Fetching' BY DEF XInv, ScanCrashes, Settled, Fetching
  <1>3. Aligned' = Aligned BY DEF ScanCrashes, Aligned, FirstStart
  <1>4. Crashed' BY <1>3 DEF ScanCrashes, Crashed
  <1>q. QED BY <1>1, <1>2, <1>4 DEF XInv

\* Bytes arrive.
LEMMA ReadKeeps == ASSUME XInv, ReadBytes PROVE XInv'
  <1>1. TypeOK BY DEF XInv
  <1>2. PICK n \in 1..MaxRead : \E bytes \in [1..n -> Byte] :
          buffer' = buffer \o bytes /\ line' = line \o bytes
    BY DEF ReadBytes
  <1>3. PICK bytes \in [1..n -> Byte] : buffer' = buffer \o bytes /\ line' = line \o bytes
    BY <1>2
  <1>4. bytes \in Seq(Byte) BY <1>3, XBeeAssumption
  <1>5. buffer' \in Seq(Byte) /\ line' \in Seq(Byte)
    BY <1>1, <1>3, <1>4, ConcatProperties DEF TypeOK
  <1>6. TypeOK' BY <1>1, <1>5 DEF ReadBytes, TypeOK
  <1>7. Settled' /\ Fetching' /\ Crashed' BY DEF XInv, ReadBytes, Settled, Fetching, Crashed
  <1>q. QED BY <1>6, <1>7 DEF XInv

\* A packet is returned.
LEMMA PacketKeeps == ASSUME XInv, ExtractPacket PROVE XInv'
  <1>1. TypeOK BY DEF XInv
  <1>2. PICK i \in DOMAIN framelist :
          /\ packets' = Append(packets, framelist[i])
          /\ framelist' = SubSeq(framelist, 1, i - 1) \o DropFirst(framelist, i)
    BY DEF ExtractPacket
  <1>3. framelist \in Seq(Frame) /\ i \in 1..Len(framelist) /\ Len(framelist) \in Nat
    BY <1>1, LenProperties DEF TypeOK
  <1>4. framelist[i] \in Frame BY <1>3, ElementOfSeq
  <1>5. packets' \in Seq(Frame) BY <1>1, <1>2, <1>4, AppendProperties DEF TypeOK
  <1>6. SubSeq(framelist, 1, i - 1) \in Seq(Frame)
    <2>1. 1 \in 1..(Len(framelist) + 1) /\ i - 1 \in (1 - 1)..Len(framelist) BY <1>3
    <2>q. QED BY <1>3, <2>1, SubSeqProperties
  <1>7. DropFirst(framelist, i) \in Seq(Frame)
    <2>1. i + 1 \in 1..(Len(framelist) + 1) /\ Len(framelist) \in ((i + 1) - 1)..Len(framelist)
      BY <1>3
    <2>q. QED BY <1>3, <2>1, SubSeqProperties DEF DropFirst
  <1>8. framelist' \in Seq(Frame) BY <1>2, <1>6, <1>7, ConcatProperties
  <1>9. TypeOK' BY <1>1, <1>5, <1>8 DEF ExtractPacket, TypeOK
  <1>10. Settled' /\ Fetching' /\ Crashed'
    BY DEF XInv, ExtractPacket, Settled, Fetching, Crashed
  <1>q. QED BY <1>9, <1>10 DEF XInv

\* recv needs bytes.
LEMMA NoPacketKeeps == ASSUME XInv, NoPacket PROVE XInv'
  <1>1. TypeOK' BY DEF XInv, NoPacket, TypeOK
  <1>2. Settled' /\ Fetching' /\ Crashed' BY DEF XInv, NoPacket, Settled, Fetching, Crashed
  <1>q. QED BY <1>1, <1>2 DEF XInv

\* Every step of recv keeps it.
LEMMA StepHolds == XInv /\ [Next]_vars => XInv'
  <1> SUFFICES ASSUME XInv, [Next]_vars PROVE XInv' OBVIOUS
  <1>1. CASE UNCHANGED vars
    <2>1. Aligned' = Aligned BY <1>1 DEF Aligned, FirstStart, vars
    <2>q. QED BY <1>1, <2>1 DEF XInv, TypeOK, Settled, Fetching, Crashed, vars
  <1>2. CASE Next
    BY <1>2, EndsKeep, SkipKeeps, ExtractKeeps, CrashKeeps, ReadKeeps, PacketKeeps, NoPacketKeeps
    DEF Next, Work
  <1>q. QED BY <1>1, <1>2

\* It holds of every reachable state.
LEMMA XInvAlways == Spec => []XInv
  BY InitHolds, StepHolds, PTL DEF Spec

\* recv only keeps bytes and frames, wherever a frame is cut.
THEOREM XBeeTypeCorrect == Spec => []TypeOK
  <1>1. XInv => TypeOK BY DEF XInv
  <1>q. QED BY <1>1, XInvAlways, PTL

\* The comment of read_complete_frame: the end of the buffer is never reached, for
\* any line, provided the buffer is longer than the longest frame that is accepted.
THEOREM AlwaysRoomToRead == Spec => []RoomToRead
  <1>1. XInv => RoomToRead
    BY NotEnoughShort DEF XInv, TypeOK, Settled, RoomToRead
  <1>q. QED BY <1>1, XInvAlways, PTL

\* recv returns each packet before it waits for more bytes.
THEOREM PacketsNeverWait == Spec => []NoPacketWaits
  <1>1. XInv => NoPacketWaits BY DEF XInv, Fetching, NoPacketWaits
  <1>q. QED BY <1>1, XInvAlways, PTL

(***************************************************************************)
(* What recv returns, compared with what the line holds.                   *)
(***************************************************************************)
\* Induction over the natural numbers, for a set.
LEMMA NatSet ==
  ASSUME NEW S, 0 \in S, \A n \in Nat : n \in S => n + 1 \in S
  PROVE  Nat \subseteq S
  <1> SUFFICES ASSUME Nat \ S # {}
               PROVE  FALSE
    OBVIOUS
  <1> DEFINE R == {ss \in Nat \X Nat : ss[1] < ss[2]}
             T == Nat \ S
  <1>1. IsWellFoundedOn(R, Nat)
    BY NatLessThanWellFounded DEF OpToRel
  <1>2. \A x, y \in Nat : y < x => <<y, x>> \in R
    OBVIOUS
  <1>3. T \subseteq Nat /\ T # {}
    OBVIOUS
  <1> HIDE DEF R
  <1>4. PICK x \in T : \A y \in T : ~ (<<y, x>> \in R)
    <2> HIDE DEF T
    <2> QED BY <1>1, <1>3, WFMin
  <1>5. x # 0 /\ x - 1 \in Nat /\ x - 1 < x /\ (x - 1) + 1 = x
    OBVIOUS
  <1>6. x - 1 \in S
    BY <1>2, <1>4, <1>5
  <1> QED BY <1>4, <1>5, <1>6

\* f tells which positions are held, among the candidates V that end at end.
IsGreedy(V, end, n, f) ==
  f = [p \in 1..n |-> p \in V /\ \A q \in 1..(p - 1) : f[q] => p >= end[q]]

\* There is such a function.
LEMMA Greedy ==
  ASSUME NEW V, NEW end, NEW n \in Nat
  PROVE  \E f : IsGreedy(V, end, n, f)
  <1> DEFINE Is(m, f) == IsGreedy(V, end, m, f)
             S == {m \in Nat : \E f : Is(m, f)}
  <1>1. 0 \in S
    <2>1. Is(0, [p \in 1..0 |-> TRUE])
      BY DEF IsGreedy
    <2> QED BY <2>1
  <1>2. ASSUME NEW m \in Nat, m \in S
        PROVE  m + 1 \in S
    <2>1. PICK f : Is(m, f)
      BY <1>2
    <2> DEFINE last == m + 1 \in V /\ \A q \in 1..m : f[q] => m + 1 >= end[q]
               g == [p \in 1..(m + 1) |-> IF p = m + 1 THEN last ELSE f[p]]
    <2>2. \A q \in 1..m : q # m + 1 /\ g[q] = f[q]
      OBVIOUS
    <2>3. ASSUME NEW p \in 1..(m + 1)
          PROVE  g[p] = (p \in V /\ \A q \in 1..(p - 1) : g[q] => p >= end[q])
      <3>1. CASE p = m + 1
        <4>1. g[p] = last /\ p - 1 = m
          BY <3>1
        <4> HIDE DEF g
        <4> QED BY <2>2, <3>1, <4>1
      <3>2. CASE p # m + 1
        <4>1. p \in 1..m /\ \A q \in 1..(p - 1) : q \in 1..m
          BY <3>2
        <4>2. f[p] = (p \in V /\ \A q \in 1..(p - 1) : f[q] => p >= end[q])
          BY <2>1, <4>1 DEF IsGreedy
        <4>3. g[p] = f[p] /\ \A q \in 1..(p - 1) : g[q] = f[q]
          BY <2>2, <4>1
        <4> HIDE DEF g, Is
        <4> QED BY <4>2, <4>3
      <3> QED BY <3>1, <3>2
    <2>4. g = [p \in 1..(m + 1) |-> g[p]]
      OBVIOUS
    <2> HIDE DEF g, last
    <2>5. Is(m + 1, g)
      BY <2>3, <2>4 DEF IsGreedy
    <2> QED BY <2>5
  <1> HIDE DEF Is
  <1>3. Nat \subseteq S
    <2> HIDE DEF S
    <2> QED BY <1>1, <1>2, NatSet
  <1>4. \E f : Is(n, f)
    BY <1>3
  <1> QED BY <1>4 DEF Is

\* H holds the candidates V, as IsGreedy says.
HeldFrom(n, V, end, H) ==
  /\ H \subseteq Nat /\ 0 \notin H
  /\ \A p \in 1..n : p \in H <=> p \in V /\ \A q \in H : q < p => p >= end[q]

\* Two ways to hold positions, from candidates that differ only where one of them
\* already holds an earlier position, are the same.
LEMMA GreedyUnique ==
  ASSUME NEW n \in Nat, NEW V, NEW W, NEW c, NEW e, NEW H, NEW G,
         HeldFrom(n, V, c, H), HeldFrom(n, W, e, G),
         \A p \in 1..n : p \in H => c[p] = e[p],
         \A p \in 1..n : (p \in V <=> p \in W) \/ \E q \in H : q < p /\ ~ (p >= c[q])
  PROVE  \A p \in 1..n : p \in H <=> p \in G
  <1>0. /\ H \in SUBSET Nat /\ G \in SUBSET Nat /\ 0 \notin H /\ 0 \notin G
        /\ \A p \in 1..n : p \in H <=> p \in V /\ \A q \in H : q < p => p >= c[q]
        /\ \A p \in 1..n : p \in G <=> p \in W /\ \A q \in G : q < p => p >= e[q]
    BY DEF HeldFrom
  <1> DEFINE S == {k \in Nat : \A p \in 1..n : p <= k => (p \in H <=> p \in G)}
  <1>1. 0 \in S
    OBVIOUS
  <1>2. ASSUME NEW k \in Nat, k \in S
        PROVE  k + 1 \in S
    <2>1. ASSUME NEW p \in 1..n, p <= k + 1
          PROVE  p \in H <=> p \in G
      <3>1. \A q \in Nat : q < p /\ q # 0 => q \in 1..n /\ q <= k
        BY <2>1
      <3>2. \A q \in Nat : q < p => (q \in H <=> q \in G)
        BY <1>0, <1>2, <3>1
      <3>3. \A q \in H : q < p => c[q] = e[q]
        BY <1>0, <3>1
      <3>4. (\A q \in H : q < p => p >= c[q]) <=> \A q \in G : q < p => p >= e[q]
        BY <1>0, <3>2, <3>3
      <3> QED BY <1>0, <3>4
    <2> QED BY <2>1
  <1>3. Nat \subseteq S
    <2> HIDE DEF S
    <2> QED BY <1>1, <1>2, NatSet
  <1> QED BY <1>3

(* ---------------------------------------------------------------------- *)
(* The order of packets: H holds positions of frames, F the frames.        *)

\* The positions of the packets that have left the list
Gone(H, F, fl, at) == {p \in H : IsPacket(F[p]) /\ \A i \in DOMAIN fl : at[i] # p}

\* The frames of the list fl are at the positions at, in order; the sequence of packets
\* pk is in the order of its positions too, and none comes after a packet of the list.
OrderedBy(H, F, fl, pk, at) ==
  /\ at \in [DOMAIN fl -> H]
  /\ \A i, j \in DOMAIN fl : i < j => at[i] < at[j]
  /\ \A i \in DOMAIN fl : fl[i] = F[at[i]]
  /\ Len(pk) = Cardinality(Gone(H, F, fl, at))
  /\ \A p \in Gone(H, F, fl, at) :
       /\ pk[Cardinality({q \in Gone(H, F, fl, at) : q <= p})] = F[p]
       /\ \A i \in DOMAIN fl : IsPacket(fl[i]) => p < at[i]

InOrder(H, F, fl, pk) == \E at : OrderedBy(H, F, fl, pk, at)

\* A frame that comes after the others is added to the list.
LEMMA FrameAdded ==
  ASSUME NEW H \in SUBSET Nat, NEW F, NEW G, NEW fl \in Seq(Frame), NEW pk, InOrder(H, F, fl, pk),
         NEW s \in Nat, \A p \in H : p < s, NEW f \in Frame, G[s] = f, \A p \in H : G[p] = F[p]
  PROVE  InOrder(H \cup {s}, G, Append(fl, f), pk)
  <1>1. PICK at : OrderedBy(H, F, fl, pk, at)
    BY DEF InOrder
  <1> DEFINE n == Len(fl)
             L == Append(fl, f)
             H2 == H \cup {s}
             at2 == [i \in 1..(n + 1) |-> IF i = n + 1 THEN s ELSE at[i]]
  <1>2. /\ n \in Nat /\ DOMAIN fl = 1..n /\ DOMAIN L = 1..(n + 1)
        /\ \A i \in 1..n : L[i] = fl[i]
        /\ L[n + 1] = f
    BY LenProperties, AppendProperties
  <1>3. /\ \A i \in 1..n : at2[i] = at[i] /\ at[i] \in H
        /\ at2[n + 1] = s /\ at2 \in [1..(n + 1) -> H2]
    BY <1>1, <1>2 DEF OrderedBy
  <1>4. s \notin H /\ \A i \in 1..(n + 1) : i \in 1..n \/ i = n + 1
    BY <1>2
  <1> HIDE DEF at2, L, n
  <1>5. Gone(H2, G, L, at2) = Gone(H, F, fl, at)
    <2>1. s \notin Gone(H2, G, L, at2)
      <3>1. n + 1 \in DOMAIN L /\ at2[n + 1] = s
        BY <1>2, <1>3
      <3> QED BY <3>1 DEF Gone
    <2>2. ASSUME NEW p \in H
          PROVE  p \in Gone(H2, G, L, at2) <=> p \in Gone(H, F, fl, at)
      <3>1. p # s /\ G[p] = F[p] /\ p \in H2
        BY <1>4
      <3>2. (\A i \in DOMAIN L : at2[i] # p) <=> \A i \in DOMAIN fl : at[i] # p
        <4> HIDE DEF H2
        <4>1. (\A i \in 1..(n + 1) : at2[i] # p) => \A i \in 1..n : at[i] # p
          BY <1>2, <1>3
        <4>2. (\A i \in 1..n : at[i] # p) => \A i \in 1..(n + 1) : at2[i] # p
          BY <1>3, <1>4, <3>1
        <4> QED BY <1>2, <4>1, <4>2
      <3> QED BY <3>1, <3>2 DEF Gone
    <2>3. Gone(H, F, fl, at) \subseteq H /\ Gone(H2, G, L, at2) \subseteq H \cup {s}
      BY DEF Gone
    <2> QED BY <1>4, <2>1, <2>2, <2>3
  <1>6. OrderedBy(H2, G, L, pk, at2)
    <2>0. /\ \A i, j \in 1..n : i < j => at[i] < at[j]
          /\ \A i \in 1..n : fl[i] = F[at[i]]
      BY <1>1, <1>2 DEF OrderedBy
    <2>1. ASSUME NEW i \in 1..(n + 1), NEW j \in 1..(n + 1), i < j
          PROVE  at2[i] < at2[j]
      <3>1. i \in 1..n
        BY <1>2, <2>1
      <3>2. CASE j = n + 1
        BY <1>3, <3>1, <3>2
      <3>3. CASE j # n + 1
        BY <1>3, <1>4, <2>0, <2>1, <3>1, <3>3
      <3> QED BY <3>2, <3>3
    <2>2. ASSUME NEW i \in 1..(n + 1)
          PROVE  L[i] = G[at2[i]]
      <3>1. CASE i = n + 1
        BY <1>2, <1>3, <3>1
      <3>2. CASE i # n + 1
        BY <1>2, <1>3, <1>4, <2>0, <3>2
      <3> QED BY <3>1, <3>2
    <2>3. \A p \in Gone(H, F, fl, at) : p \in H /\ F[p] = G[p] /\ p < s
      BY DEF Gone
    <2>4. Len(pk) = Cardinality(Gone(H, F, fl, at))
      BY <1>1 DEF OrderedBy
    <2>5. \A p \in Gone(H, F, fl, at) :
            /\ pk[Cardinality({q \in Gone(H, F, fl, at) : q <= p})] = G[p]
            /\ \A i \in 1..(n + 1) : IsPacket(L[i]) => p < at2[i]
      <3> SUFFICES ASSUME NEW p \in Gone(H, F, fl, at)
                   PROVE  /\ pk[Cardinality({q \in Gone(H, F, fl, at) : q <= p})] = G[p]
                          /\ \A i \in 1..(n + 1) : IsPacket(L[i]) => p < at2[i]
        OBVIOUS
      <3>1. /\ pk[Cardinality({q \in Gone(H, F, fl, at) : q <= p})] = F[p]
            /\ \A i \in 1..n : IsPacket(fl[i]) => p < at[i]
        BY <1>1, <1>2 DEF OrderedBy
      <3>2. \A i \in 1..(n + 1) : IsPacket(L[i]) => p < at2[i]
        BY <1>2, <1>3, <1>4, <2>3, <3>1
      <3> QED BY <2>3, <3>1, <3>2
    <2> QED BY <1>2, <1>3, <1>5, <2>1, <2>2, <2>4, <2>5 DEF OrderedBy
  <1> QED BY <1>6 DEF InOrder, L

\* The first packet of the list leaves it.
LEMMA PacketTaken ==
  ASSUME NEW H \in SUBSET Nat, IsFiniteSet(H), NEW F, NEW fl \in Seq(Frame), NEW pk \in Seq(Frame),
         InOrder(H, F, fl, pk), NEW i \in DOMAIN fl, IsPacket(fl[i]),
         \A j \in 1..(i - 1) : ~ IsPacket(fl[j])
  PROVE  InOrder(H, F, SubSeq(fl, 1, i - 1) \o DropFirst(fl, i), Append(pk, fl[i]))
  <1>1. PICK at : OrderedBy(H, F, fl, pk, at)
    BY DEF InOrder
  <1> DEFINE n == Len(fl)
             L == SubSeq(fl, 1, i - 1) \o DropFirst(fl, i)
             P == Append(pk, fl[i])
             from == [j \in 1..(n - 1) |-> IF j < i THEN j ELSE j + 1]
             at2 == [j \in 1..(n - 1) |-> at[from[j]]]
             s == at[i]
             A == Gone(H, F, fl, at)
             B == Gone(H, F, L, at2)
  <1>2. n \in Nat /\ DOMAIN fl = 1..n /\ i \in 1..n /\ i \in Int /\ fl[i] \in Frame
    BY LenProperties, ElementOfSeq
  <1>3. DOMAIN L = 1..(n - 1) /\ \A j \in 1..(n - 1) : L[j] = fl[from[j]]
    <2> DEFINE a == SubSeq(fl, 1, i - 1)
               b == DropFirst(fl, i)
    <2>1. /\ a \in Seq(Frame) /\ Len(a) = i - 1 /\ \A j \in 1..(i - 1) : a[j] = fl[j]
      <3>1. \A j \in 1..(i - 1) : fl[j] \in Frame
        BY <1>2, ElementOfSeq
      <3> QED BY <1>2, <3>1, SubSeqProperties
    <2>2. /\ b \in Seq(Frame) /\ Len(b) = n - i /\ \A j \in 1..(n - i) : b[j] = fl[i + j]
      <3>1. \A j \in (i + 1)..n : fl[j] \in Frame
        BY <1>2, ElementOfSeq
      <3>2. i + 1 \in Int /\ n \in Int
        BY <1>2
      <3>3. /\ SubSeq(fl, i + 1, n) \in Seq(Frame)
            /\ Len(SubSeq(fl, i + 1, n)) = IF i + 1 <= n THEN n - (i + 1) + 1 ELSE 0
            /\ \A j \in 1..(n - (i + 1) + 1) : SubSeq(fl, i + 1, n)[j] = fl[(i + 1) + j - 1]
        BY <3>1, <3>2, SubSeqProperties
      <3> QED BY <1>2, <3>3 DEF DropFirst
    <2> HIDE DEF a, b, n
    <2>3. /\ a \o b \in Seq(Frame) /\ Len(a \o b) = n - 1
          /\ \A j \in 1..(n - 1) : (a \o b)[j] = IF j <= i - 1 THEN a[j] ELSE b[j - (i - 1)]
      <3>1. /\ a \o b \in Seq(Frame) /\ Len(a \o b) = Len(a) + Len(b)
            /\ \A j \in 1..(Len(a) + Len(b)) :
                 (a \o b)[j] = IF j <= Len(a) THEN a[j] ELSE b[j - Len(a)]
        BY <2>1, <2>2, ConcatProperties
      <3>2. Len(a) + Len(b) = n - 1
        BY <1>2, <2>1, <2>2
      <3> QED BY <2>1, <3>1, <3>2
    <2>4. DOMAIN (a \o b) = 1..(n - 1)
      BY <2>3, LenProperties
    <2>5. \A j \in 1..(n - 1) : (a \o b)[j] = fl[from[j]]
      <3> SUFFICES ASSUME NEW j \in 1..(n - 1)
                   PROVE  (a \o b)[j] = fl[from[j]]
        OBVIOUS
      <3>1. CASE j < i
        BY <1>2, <2>1, <2>3, <3>1
      <3>2. CASE ~ (j < i)
        <4>1. j - (i - 1) \in 1..(n - i) /\ i + (j - (i - 1)) = j + 1 /\ ~ (j <= i - 1)
          BY <1>2, <3>2
        <4> QED BY <2>2, <2>3, <3>2, <4>1
      <3> QED BY <3>1, <3>2
    <2> QED BY <2>4, <2>5 DEF a, b
  <1>4. /\ \A j \in 1..(n - 1) : from[j] \in 1..n /\ from[j] # i
        /\ \A j, k \in 1..(n - 1) : j < k => from[j] < from[k]
        /\ \A k \in 1..n : k # i => \E j \in 1..(n - 1) : from[j] = k
    <2>1. \A j \in 1..(n - 1) : from[j] \in 1..n /\ from[j] # i
      BY <1>2
    <2>2. \A j, k \in 1..(n - 1) : j < k => from[j] < from[k]
      BY <1>2
    <2>3. ASSUME NEW k \in 1..n, k # i
          PROVE  \E j \in 1..(n - 1) : from[j] = k
      <3>1. CASE k < i
        <4>1. k \in 1..(n - 1) /\ from[k] = k
          BY <1>2, <3>1
        <4> QED BY <4>1
      <3>2. CASE ~ (k < i)
        <4>1. k - 1 \in 1..(n - 1) /\ ~ (k - 1 < i) /\ (k - 1) + 1 = k
          BY <1>2, <2>3, <3>2
        <4>2. from[k - 1] = k
          BY <4>1
        <4> QED BY <4>1, <4>2
      <3> QED BY <3>1, <3>2
    <2> QED BY <2>1, <2>2, <2>3
  <1>5. /\ \A k \in 1..n : at[k] \in H /\ fl[k] = F[at[k]] /\ (k # i => at[k] # s)
        /\ \A j, k \in 1..n : j < k => at[j] < at[k]
        /\ s \in H /\ F[s] = fl[i]
    <2>1. /\ \A k \in 1..n : at[k] \in H /\ at[k] \in Nat /\ fl[k] = F[at[k]]
          /\ \A j, k \in 1..n : j < k => at[j] < at[k]
      BY <1>1, <1>2 DEF OrderedBy
    <2>2. ASSUME NEW k \in 1..n, k # i
          PROVE  at[k] # s
      <3>1. k < i \/ i < k
        BY <1>2, <2>2
      <3>2. at[k] < at[i] \/ at[i] < at[k]
        BY <1>2, <2>1, <3>1
      <3> QED BY <1>2, <2>1, <3>2
    <2> QED BY <1>2, <2>1, <2>2
  <1>6. \A j \in 1..(n - 1) : at2[j] = at[from[j]] /\ at2[j] \in H
    BY <1>4, <1>5
  <1>7. at2 \in [1..(n - 1) -> H]
    BY <1>6
  <1>8. \A p \in A : p < s /\ p \in H
    BY <1>1 DEF OrderedBy, Gone
  <1>9. B = A \cup {s} /\ s \notin A
    <2>1. s \notin A
      BY DEF Gone
    <2>2. s \in B
      <3>1. \A j \in 1..(n - 1) : at2[j] # s
        BY <1>4, <1>5, <1>6
      <3> HIDE DEF at2, L, s, n
      <3> QED BY <1>3, <1>5, <3>1 DEF Gone
    <2>3. ASSUME NEW p \in H, p # s
          PROVE  (\A k \in 1..n : at[k] # p) <=> \A j \in 1..(n - 1) : at2[j] # p
      <3> HIDE DEF at2, from
      <3>1. ASSUME \A k \in 1..n : at[k] # p, NEW j \in 1..(n - 1)
            PROVE  at2[j] # p
        <4>1. from[j] \in 1..n /\ at2[j] = at[from[j]]
          BY <1>4, <1>6
        <4> QED BY <3>1, <4>1
      <3>2. ASSUME \A j \in 1..(n - 1) : at2[j] # p, NEW k \in 1..n
            PROVE  at[k] # p
        <4>1. CASE k = i
          BY <2>3, <4>1
        <4>2. CASE k # i
          <5>1. PICK j \in 1..(n - 1) : from[j] = k
            BY <1>4, <4>2
          <5> QED BY <1>6, <3>2, <5>1
        <4> QED BY <4>1, <4>2
      <3> QED BY <3>1, <3>2
    <2> HIDE DEF at2, L, s, n
    <2>4. \A p \in H : p # s => (p \in A <=> p \in B)
      BY <1>2, <1>3, <2>3 DEF Gone
    <2>5. A \subseteq H /\ B \subseteq H
      BY DEF Gone
    <2> QED BY <2>1, <2>2, <2>4, <2>5
  <1>10. IsFiniteSet(A) /\ A \subseteq H /\ Cardinality(A) = Len(pk) /\ Len(pk) \in Nat
    <2>1. A \subseteq H
      BY DEF Gone
    <2> QED BY <1>1, <2>1, FS_Subset, LenProperties DEF OrderedBy
  <1>11. Cardinality(B) = Len(pk) + 1
    <2> HIDE DEF A, B, s
    <2> QED BY <1>9, <1>10, FS_AddElement
  <1>12. /\ Len(P) = Len(pk) + 1 /\ P[Len(pk) + 1] = fl[i]
         /\ \A k \in 1..Len(pk) : P[k] = pk[k]
    BY <1>2, AppendProperties
  <1>13. ASSUME NEW p \in B
         PROVE  P[Cardinality({q \in B : q <= p})] = F[p]
    <2>0. s \in Nat /\ \A q \in A : q \in Nat
      BY <1>5, <1>8
    <2>1. CASE p = s
      <3>1. \A q \in B : q <= s
        BY <1>8, <1>9, <2>0
      <3>2. {q \in B : q <= p} = B
        BY <2>1, <3>1
      <3> HIDE DEF B, s, P
      <3> QED BY <1>5, <1>11, <1>12, <2>1, <3>2
    <2>2. CASE p # s
      <3> DEFINE C == {q \in A : q <= p}
      <3>1. p \in A /\ ~ (s <= p) /\ p <= p
        BY <1>8, <1>9, <2>0, <2>2
      <3>2. {q \in B : q <= p} = C
        BY <1>9, <3>1
      <3>3. C \subseteq A /\ p \in C
        BY <3>1
      <3>4. pk[Cardinality(C)] = F[p]
        BY <1>1, <3>1 DEF OrderedBy
      <3> HIDE DEF A, B, C, P
      <3>5. Cardinality(C) \in 1..Len(pk)
        <4>1. IsFiniteSet(C) /\ Cardinality(C) <= Len(pk)
          BY <1>10, <3>3, FS_Subset
        <4>2. Cardinality(C) \in Nat /\ Cardinality(C) # 0
          BY <3>3, <4>1, FS_CardinalityType, FS_EmptySet
        <4> QED BY <1>10, <4>1, <4>2
      <3> QED BY <1>12, <3>2, <3>4, <3>5
    <2> QED BY <2>1, <2>2
  <1>14. ASSUME NEW p \in B, NEW j \in 1..(n - 1), IsPacket(L[j])
         PROVE  p < at2[j]
    <2>1. from[j] \in 1..n /\ from[j] # i /\ IsPacket(fl[from[j]]) /\ at2[j] = at[from[j]]
      BY <1>3, <1>4, <1>6, <1>14
    <2>2. i < from[j]
      <3> HIDE DEF from, at2
      <3>1. ~ (from[j] \in 1..(i - 1))
        BY <2>1
      <3> QED BY <1>2, <2>1, <3>1
    <2>3. s < at[from[j]]
      BY <1>2, <1>5, <2>1, <2>2
    <2>4. CASE p = s
      BY <2>1, <2>3, <2>4
    <2>5. CASE p \in A
      <3> HIDE DEF from, at2, L, s, n
      <3> QED BY <1>1, <1>2, <2>1, <2>5 DEF OrderedBy
    <2> QED BY <1>9, <2>4, <2>5
  <1>15. \A j, k \in 1..(n - 1) : j < k => at2[j] < at2[k]
    <2> SUFFICES ASSUME NEW j \in 1..(n - 1), NEW k \in 1..(n - 1), j < k
                 PROVE  at2[j] < at2[k]
      OBVIOUS
    <2> HIDE DEF from, at2
    <2>1. from[j] \in 1..n /\ from[k] \in 1..n /\ from[j] < from[k]
      BY <1>4
    <2>2. at2[j] = at[from[j]] /\ at2[k] = at[from[k]]
      BY <1>6
    <2> HIDE DEF n, s
    <2> QED BY <1>5, <2>1, <2>2
  <1>16. \A j \in 1..(n - 1) : L[j] = F[at2[j]]
    <2> SUFFICES ASSUME NEW j \in 1..(n - 1)
                 PROVE  L[j] = F[at2[j]]
      OBVIOUS
    <2> HIDE DEF from, at2, L
    <2>1. L[j] = fl[from[j]] /\ from[j] \in 1..n /\ at2[j] = at[from[j]]
      BY <1>3, <1>4, <1>6
    <2> HIDE DEF n, s
    <2> QED BY <1>5, <2>1
  <1> HIDE DEF n, L, P, from, at2, s
  <1>17. OrderedBy(H, F, L, P, at2)
    BY <1>3, <1>7, <1>11, <1>12, <1>13, <1>14, <1>15, <1>16 DEF OrderedBy
  <1> QED BY <1>17 DEF InOrder, L, P

(* ---------------------------------------------------------------------- *)
(* Sequences of bytes *)

\* Removing the first bytes leaves the others.
LEMMA Dropped ==
  ASSUME NEW b \in Seq(Byte), NEW n \in 0..Len(b)
  PROVE  /\ DropFirst(b, n) \in Seq(Byte)
         /\ Len(DropFirst(b, n)) = Len(b) - n
         /\ \A k \in 1..(Len(b) - n) : DropFirst(b, n)[k] = b[n + k]
  <1>1. Len(b) \in Nat /\ n \in Nat /\ n <= Len(b)
    BY LenProperties
  <1>2. n + 1 \in Int /\ Len(b) \in Int /\ \A k \in (n + 1)..Len(b) : b[k] \in Byte
    BY <1>1, ElementOfSeq
  <1>3. \A k \in 1..(Len(b) - (n + 1) + 1) : SubSeq(b, n + 1, Len(b))[k] = b[(n + 1) + k - 1]
    BY <1>2, SubSeqProperties
  <1>4. \A k \in 1..(Len(b) - n) : /\ k \in 1..(Len(b) - (n + 1) + 1)
                                   /\ (n + 1) + k - 1 = n + k
    BY <1>1
  <1> QED BY <1>3, <1>4, DropType DEF DropFirst

\* Bytes may be removed in two times.
LEMMA DroppedTwice ==
  ASSUME NEW b \in Seq(Byte), NEW n \in 0..Len(b), NEW m \in 0..(Len(b) - n)
  PROVE  DropFirst(DropFirst(b, n), m) = DropFirst(b, n + m)
  <1> DEFINE c == DropFirst(b, n)
             d == DropFirst(c, m)
             e == DropFirst(b, n + m)
  <1>1. Len(b) \in Nat /\ n + m \in 0..Len(b) /\ n \in Nat /\ m \in Nat
    BY LenProperties
  <1>2. /\ c \in Seq(Byte) /\ Len(c) = Len(b) - n
        /\ \A k \in 1..(Len(b) - n) : c[k] = b[n + k]
    BY Dropped
  <1>3. /\ e \in Seq(Byte) /\ Len(e) = Len(b) - (n + m)
        /\ \A k \in 1..(Len(b) - (n + m)) : e[k] = b[(n + m) + k]
    BY <1>1, Dropped
  <1> HIDE DEF c, e
  <1>4. m \in 0..Len(c)
    BY <1>1, <1>2
  <1>5. /\ d \in Seq(Byte) /\ Len(d) = Len(c) - m
        /\ \A k \in 1..(Len(c) - m) : d[k] = c[m + k]
    BY <1>2, <1>4, Dropped
  <1> HIDE DEF d
  <1>6. Len(d) = Len(e) /\ \A k \in 1..Len(d) : d[k] = e[k]
    <2>1. Len(d) = Len(e) /\ Len(d) = Len(b) - (n + m)
      BY <1>1, <1>2, <1>3, <1>5
    <2>2. \A k \in 1..Len(d) : m + k \in 1..(Len(b) - n) /\ n + (m + k) = (n + m) + k
      BY <1>1, <2>1
    <2> QED BY <1>2, <1>3, <1>5, <2>1, <2>2
  <1>7. d = e
    BY <1>3, <1>5, <1>6, SeqEqual
  <1> QED BY <1>7 DEF c, d, e

\* Bytes that come after others do not change what the first ones leave.
LEMMA DroppedBefore ==
  ASSUME NEW b \in Seq(Byte), NEW c \in Seq(Byte), NEW n \in 0..Len(b)
  PROVE  DropFirst(b \o c, n) = DropFirst(b, n) \o c
  <1> DEFINE d == DropFirst(b, n)
             x == DropFirst(b \o c, n)
             y == d \o c
  <1>1. Len(b) \in Nat /\ Len(c) \in Nat /\ n \in Nat /\ n <= Len(b)
    BY LenProperties
  <1>2. /\ b \o c \in Seq(Byte) /\ Len(b \o c) = Len(b) + Len(c)
        /\ \A i \in 1..(Len(b) + Len(c)) :
             (b \o c)[i] = IF i <= Len(b) THEN b[i] ELSE c[i - Len(b)]
    BY ConcatProperties
  <1>3. /\ d \in Seq(Byte) /\ Len(d) = Len(b) - n
        /\ \A k \in 1..(Len(b) - n) : d[k] = b[n + k]
    BY Dropped
  <1>4. n \in 0..Len(b \o c)
    BY <1>1, <1>2
  <1>5. /\ x \in Seq(Byte) /\ Len(x) = Len(b \o c) - n
        /\ \A k \in 1..(Len(b \o c) - n) : x[k] = (b \o c)[n + k]
    BY <1>2, <1>4, Dropped
  <1> HIDE DEF d, x
  <1>6. /\ y \in Seq(Byte) /\ Len(y) = Len(d) + Len(c)
        /\ \A i \in 1..(Len(d) + Len(c)) : y[i] = IF i <= Len(d) THEN d[i] ELSE c[i - Len(d)]
    BY <1>3, ConcatProperties
  <1> HIDE DEF y
  <1>7. Len(x) = Len(y)
    BY <1>1, <1>2, <1>3, <1>5, <1>6
  <1>8. ASSUME NEW k \in 1..Len(x)
        PROVE  x[k] = y[k]
    <2>1. /\ k \in 1..(Len(d) + Len(c)) /\ k \in 1..(Len(b \o c) - n)
          /\ n + k \in 1..(Len(b) + Len(c))
      BY <1>1, <1>2, <1>3, <1>5, <1>7
    <2>2. CASE k <= Len(d)
      <3>1. k \in 1..(Len(b) - n) /\ n + k <= Len(b)
        BY <1>1, <1>3, <2>1, <2>2
      <3> QED BY <1>2, <1>3, <1>5, <1>6, <2>1, <2>2, <3>1
    <2>3. CASE ~ (k <= Len(d))
      <3>1. ~ (n + k <= Len(b)) /\ (n + k) - Len(b) = k - Len(d)
        BY <1>1, <1>3, <2>1, <2>3
      <3> QED BY <1>2, <1>5, <1>6, <2>1, <2>3, <3>1
    <2> QED BY <2>2, <2>3
  <1>9. x = y
    BY <1>5, <1>6, <1>7, <1>8, SeqEqual
  <1> QED BY <1>9 DEF x, y, d

\* What can be told of the beginning of a sequence does not depend on what follows.
LEMMA LongerSame ==
  ASSUME NEW b \in Seq(Byte), NEW c \in Seq(Byte), Enough(b)
  PROVE  /\ Enough(b \o c) /\ PktLen(b \o c) = PktLen(b) /\ (b \o c)[1] = b[1]
         /\ Valid(b \o c) <=> Valid(b)
         /\ Valid(b) => FrameOf(b \o c) = FrameOf(b)
  <1> DEFINE d == b \o c
  <1>1. Len(b) \in Nat /\ Len(c) \in Nat /\ Len(b) >= MinFrame /\ MinFrame > 3 /\ MinFrame \in Nat
    BY LenProperties, XBeeAssumption DEF Enough
  <1>2. /\ d \in Seq(Byte) /\ Len(d) = Len(b) + Len(c)
        /\ \A i \in 1..(Len(b) + Len(c)) : d[i] = IF i <= Len(b) THEN b[i] ELSE c[i - Len(b)]
    BY ConcatProperties
  <1> HIDE DEF d
  <1>3. \A i \in 1..Len(b) : d[i] = b[i]
    BY <1>1, <1>2
  <1>4. Length(d) = Length(b) /\ d[4] = b[4] /\ d[1] = b[1]
    <2>1. {1, 2, 3, 4} \subseteq 1..Len(b)
      BY <1>1
    <2> QED BY <1>3, <2>1 DEF Length
  <1>5. Length(b) \in Nat /\ PktLen(b) = Length(b) + 4 /\ PktLen(d) = PktLen(b)
    BY <1>1, <1>4, LengthType DEF PktLen
  <1>6. Unlikely(d) <=> Unlikely(b)
    BY <1>4 DEF Unlikely
  <1>7. Enough(d)
    BY <1>1, <1>2, <1>5, <1>6 DEF Enough
  <1>8. CASE Unlikely(b)
    BY <1>4, <1>5, <1>6, <1>7, <1>8 DEF Valid, d
  <1>9. CASE PktLen(b) <= Len(b)
    <2> DEFINE n == Length(b) + 3
               x == SubSeq(b, 4, n)
               y == SubSeq(d, 4, n)
    <2>1. n \in Int /\ n <= Len(b) /\ \A i \in 4..n : b[i] \in Byte /\ d[i] \in Byte /\ b[i] = d[i]
      <3>1. n \in Int /\ n <= Len(b) /\ \A i \in 4..n : i \in 1..Len(b) /\ i \in 1..Len(d)
        BY <1>1, <1>2, <1>5, <1>9
      <3> HIDE DEF n
      <3>2. \A i \in 4..n : b[i] \in Byte /\ b[i] = d[i]
        BY <1>3, <3>1, ElementOfSeq
      <3> QED BY <3>1, <3>2
    <2> HIDE DEF n
    <2>2. /\ x \in Seq(Byte) /\ Len(x) = IF 4 <= n THEN n - 4 + 1 ELSE 0
          /\ \A i \in 1..(n - 4 + 1) : x[i] = b[4 + i - 1]
      BY <2>1, SubSeqProperties
    <2>3. /\ y \in Seq(Byte) /\ Len(y) = IF 4 <= n THEN n - 4 + 1 ELSE 0
          /\ \A i \in 1..(n - 4 + 1) : y[i] = d[4 + i - 1]
      BY <2>1, SubSeqProperties
    <2> HIDE DEF x, y
    <2>4. Len(x) = Len(y) /\ \A i \in 1..Len(x) : x[i] = y[i]
      <3>1. \A i \in 1..Len(x) : i \in 1..(n - 4 + 1) /\ 4 + i - 1 \in 4..n
        BY <2>1, <2>2
      <3> QED BY <2>1, <2>2, <2>3, <3>1
    <2>5. x = y
      BY <2>2, <2>3, <2>4, SeqEqual
    <2>6. FrameOf(d) = FrameOf(b)
      BY <1>4, <2>5 DEF FrameOf, x, y, n
    <2>7. ComputeChecksum(d) = ComputeChecksum(b)
      BY <2>6 DEF ComputeChecksum
    <2>8. d[PktLen(b)] = b[PktLen(b)]
      BY <1>1, <1>3, <1>5, <1>9
    <2>9. Valid(d) <=> Valid(b)
      BY <1>5, <1>6, <2>7, <2>8 DEF Valid, Wrong
    <2> QED BY <1>4, <1>5, <1>7, <2>6, <2>9 DEF d
  <1> QED BY <1>8, <1>9 DEF Enough

(* ---------------------------------------------------------------------- *)
(* The line *)

\* Position p begins a frame that is right; End is the position after it.
Whole(p) == line[p] = Start /\ Enough(From(p)) /\ Valid(From(p))

End(p) == p + PktLen(From(p))

\* Holds satisfies the equation that its recursive definition states.
LEMMA HoldsChar ==
  line \in Seq(Byte) =>
    /\ Holds \subseteq 1..Len(line)
    /\ \A p \in 1..Len(line) :
         p \in Holds <=> Whole(p) /\ \A q \in Holds : q < p => p >= End(q)
  <1> SUFFICES ASSUME line \in Seq(Byte)
               PROVE  /\ Holds \subseteq 1..Len(line)
                      /\ \A p \in 1..Len(line) :
                           p \in Holds <=> Whole(p) /\ \A q \in Holds : q < p => p >= End(q)
    OBVIOUS
  <1> DEFINE Body(f) == [p \in DOMAIN line |->
       (line[p] = Start /\ Enough(From(p)) /\ Valid(From(p)))
         /\ \A q \in 1..(p - 1) : f[q] => p >= q + PktLen(From(q))]
  <1> DEFINE h == CHOOSE f : f = Body(f)
  <1>1. Holds = {p \in DOMAIN line : h[p]}
    BY DEF Holds
  <1>2. \E f : f = Body(f)
    <2> DEFINE V == {p \in DOMAIN line : Whole(p)}
               end == [p \in DOMAIN line |-> End(p)]
    <2>1. DOMAIN line = 1..Len(line) /\ Len(line) \in Nat
      BY LenProperties
    <2>2. PICK f : IsGreedy(V, end, Len(line), f)
      <3> HIDE DEF V, end
      <3> QED BY <2>1, Greedy
    <2>3. ASSUME NEW p \in DOMAIN line
          PROVE  (p \in V /\ \A q \in 1..(p - 1) : f[q] => p >= end[q]) =
                 ((line[p] = Start /\ Enough(From(p)) /\ Valid(From(p)))
                    /\ \A q \in 1..(p - 1) : f[q] => p >= q + PktLen(From(q)))
      <3>1. \A q \in 1..(p - 1) : q \in DOMAIN line
        BY <2>1
      <3> QED BY <3>1 DEF Whole, End
    <2> QED BY <2>1, <2>2, <2>3 DEF IsGreedy
  <1> HIDE DEF Body
  <1>3. h = Body(h)
    BY <1>2
  <1> HIDE DEF h
  <1>4. \A p \in DOMAIN line : h[p] = (Whole(p) /\ \A q \in 1..(p - 1) : h[q] => p >= End(q))
    BY <1>3 DEF Body, Whole, End
  <1>5. DOMAIN line = 1..Len(line) /\ Len(line) \in Nat
    BY LenProperties
  <1>6. ASSUME NEW p \in 1..Len(line)
        PROVE  p \in Holds <=> Whole(p) /\ \A q \in Holds : q < p => p >= End(q)
    <2>1. p \in Holds <=> h[p]
      BY <1>1, <1>5
    <2>2. \A q \in 1..Len(line) : q \in 1..(p - 1) <=> q < p
      BY <1>5
    <2>3. \A q \in 1..(p-1) : q \in 1..Len(line)
      BY <1>5
    <2>4. (\A q \in 1..(p - 1) : h[q] => p >= End(q)) <=> \A q \in Holds : q < p => p >= End(q)
      BY <1>1, <1>5, <2>2, <2>3
    <2> QED BY <1>4, <1>5, <2>1, <2>4
  <1> QED BY <1>1, <1>5, <1>6

\* It does in the next state too.
LEMMA HoldsCharNext ==
  (line \in Seq(Byte))' =>
    (/\ Holds \subseteq 1..Len(line)
     /\ \A p \in 1..Len(line) :
         p \in Holds <=> Whole(p) /\ \A q \in Holds : q < p => p >= End(q))'
  BY HoldsChar, PTL

\* What is left of the line from a position
LEMMA FromType ==
  ASSUME line \in Seq(Byte), NEW p \in 1..(Len(line) + 1)
  PROVE  /\ From(p) \in Seq(Byte) /\ Len(From(p)) = Len(line) - p + 1
         /\ \A k \in 1..(Len(line) - p + 1) : From(p)[k] = line[p + k - 1]
  <1>1. Len(line) \in Nat /\ p - 1 \in 0..Len(line) /\ p \in Nat
    BY LenProperties
  <1>2. /\ DropFirst(line, p - 1) \in Seq(Byte)
        /\ Len(DropFirst(line, p - 1)) = Len(line) - (p - 1)
        /\ \A k \in 1..(Len(line) - (p - 1)) : DropFirst(line, p - 1)[k] = line[(p - 1) + k]
    BY <1>1, Dropped
  <1>3. /\ Len(line) - (p - 1) = Len(line) - p + 1
        /\ \A k \in 1..(Len(line) - p + 1) : (p - 1) + k = p + k - 1
    BY <1>1
  <1> QED BY <1>2, <1>3 DEF From

\* A frame that is right ends after its beginning, and on the line.
LEMMA WholeEnds ==
  ASSUME line \in Seq(Byte), NEW p \in 1..Len(line), Whole(p)
  PROVE  /\ From(p) \in Seq(Byte) /\ PktLen(From(p)) \in Nat /\ End(p) \in Nat
         /\ p + 3 < End(p) /\ End(p) <= Len(line) + 1
         /\ FrameOf(From(p)) \in Frame /\ FrameOf(From(p)).type = line[p + 3]
  <1> DEFINE b == From(p)
  <1>1. /\ Len(line) \in Nat /\ b \in Seq(Byte) /\ Len(b) = Len(line) - p + 1
        /\ \A k \in 1..(Len(line) - p + 1) : b[k] = line[p + k - 1]
    <2>1. Len(line) \in Nat /\ p \in 1..(Len(line) + 1)
      BY LenProperties
    <2> QED BY <2>1, FromType
  <1> HIDE DEF b
  <1>2. Enough(b) /\ ~ Unlikely(b) /\ Len(b) >= MinFrame
    BY DEF b, Whole, Valid, Enough
  <1>3. Length(b) \in Nat /\ b[4] \in Byte
    BY <1>1, <1>2, LengthType
  <1>4. PktLen(b) = Length(b) + 4 /\ PktLen(b) \in Nat /\ PktLen(b) <= Len(b)
    BY <1>2, <1>3 DEF PktLen, Enough
  <1>5. SubSeq(b, 4, Length(b) + 3) \in Seq(Byte)
    <2>1. 4 \in 1..(Len(b) + 1) /\ Length(b) + 3 \in (4 - 1)..Len(b)
      BY <1>1, <1>3, <1>4
    <2>2. \A i \in 4..(Length(b) + 3) : i \in 1..Len(b)
      BY <2>1
    <2>3. \A i \in 4..(Length(b) + 3) : b[i] \in Byte
      BY <1>1, <2>2, ElementOfSeq
    <2> QED BY <1>3, <2>3, SubSeqProperties
  <1>6. 4 \in 1..(Len(line) - p + 1) /\ p + 4 - 1 = p + 3
    BY <1>1, <1>3, <1>4
  <1>7. b[4] = line[p + 3]
    BY <1>1, <1>6
  <1>8. FrameOf(b) \in Frame /\ FrameOf(b).type = line[p + 3]
    BY <1>3, <1>5, <1>7 DEF FrameOf, Frame
  <1>9. p + PktLen(b) \in Nat /\ p + 3 < p + PktLen(b) /\ p + PktLen(b) <= Len(line) + 1
    BY <1>1, <1>3, <1>4
  <1> QED BY <1>1, <1>4, <1>8, <1>9 DEF End, b

\* recv is done with the first u bytes: no frame goes beyond them, and there is
\* no telling of a start byte among them that they make no difference.
Done(u) ==
  /\ \A p \in Holds : p <= u => End(p) <= u + 1
  /\ \A p \in 1..u : Open(p) => Inside(p)

Held(u) == {p \in Holds : p <= u}

\* The frame at each position that is held
Frames(u) == [p \in Held(u) |-> FrameOf(From(p))]

\* recv skips bytes that begin no frame.
LEMMA SkipTo ==
  ASSUME line \in Seq(Byte), NEW u \in Nat, NEW v \in Nat, u <= v, v <= Len(line), Done(u),
         \A p \in (u + 1)..v : ~ Whole(p) /\ ~ Open(p)
  PROVE  Done(v) /\ Held(v) = Held(u)
  <1>1. /\ Len(line) \in Nat /\ Holds \subseteq 1..Len(line)
        /\ \A p \in Holds : Whole(p) /\ p \in 1..Len(line) /\ End(p) \in Int
    BY LenProperties, HoldsChar, WholeEnds
  <1>2. \A p \in 1..Len(line) : p <= v => p <= u \/ p \in (u + 1)..v
    BY <1>1
  <1>3. \A p \in Holds : p <= v => p <= u
    BY <1>1, <1>2
  <1>4. \A p \in Holds : p <= v => End(p) <= v + 1
    BY <1>1, <1>3 DEF Done
  <1>5. \A p \in 1..v : Open(p) => Inside(p)
    <2>1. \A p \in 1..v : p \in 1..u \/ p \in (u + 1)..v
      OBVIOUS
    <2> QED BY <2>1 DEF Done
  <1>6. \A p \in Holds : p <= u => p <= v
    BY <1>1
  <1> QED BY <1>3, <1>4, <1>5, <1>6 DEF Done, Held

\* recv finds a frame.
LEMMA FrameFound ==
  ASSUME line \in Seq(Byte), NEW u \in Nat, NEW s \in 1..Len(line), u < s, Done(u),
         \A p \in (u + 1)..(s - 1) : line[p] # Start, Whole(s)
  PROVE  /\ Done(End(s) - 1) /\ Held(End(s) - 1) = Held(u) \cup {s}
         /\ \A p \in Held(u) : p < s
  <1> DEFINE v == End(s) - 1
  <1>1. /\ Len(line) \in Nat /\ Holds \subseteq 1..Len(line)
        /\ \A p \in Holds : Whole(p) /\ p \in 1..Len(line) /\ End(p) \in Int
        /\ End(s) \in Nat /\ s + 3 < End(s)
    BY LenProperties, HoldsChar, WholeEnds
  <1>2. v \in Nat /\ s < v /\ v + 1 = End(s)
    BY <1>1
  <1>3. \A p \in Holds : p < s => p <= u
    <2>1. \A p \in 1..Len(line) : p < s => p <= u \/ p \in (u + 1)..(s - 1)
      BY <1>1
    <2> QED BY <1>1, <2>1 DEF Whole
  <1>4. s \in Holds
    <2>1. \A q \in Holds : q < s => s >= End(q)
      <3> SUFFICES ASSUME NEW q \in Holds, q < s
                   PROVE  s >= End(q)
        OBVIOUS
      <3>1. End(q) <= u + 1 /\ End(q) \in Int
        BY <1>1, <1>3 DEF Done
      <3> QED BY <3>1
    <2> QED BY <2>1, HoldsChar
  <1>5. \A p \in Holds : p <= v => p <= s
    <2> SUFFICES ASSUME NEW p \in Holds, s < p
                 PROVE  ~ (p <= v)
      BY <1>1
    <2>1. p >= End(s) /\ p \in Nat
      BY <1>1, <1>4, HoldsChar
    <2> QED BY <1>1, <1>2, <2>1
  <1>6. \A p \in Holds : p <= v <=> (p <= u \/ p = s)
    BY <1>1, <1>2, <1>3, <1>5
  <1>7. \A p \in Holds : p <= v => End(p) <= v + 1
    <2> SUFFICES ASSUME NEW p \in Holds, p <= v
                 PROVE  End(p) <= v + 1
      OBVIOUS
    <2>1. CASE p = s
      BY <1>2, <2>1
    <2>2. CASE p <= u
      <3>1. End(p) <= u + 1 /\ End(p) \in Int
        BY <1>1, <2>2 DEF Done
      <3> QED BY <1>2, <3>1
    <2> QED BY <1>6, <2>1, <2>2
  <1>8. \A p \in 1..v : Open(p) => Inside(p)
    <2> SUFFICES ASSUME NEW p \in 1..v, Open(p)
                 PROVE  Inside(p)
      OBVIOUS
    <2>1. CASE p \in 1..u
      BY <2>1 DEF Done
    <2>2. CASE p \in (u + 1)..(s - 1)
      BY <2>2 DEF Open
    <2>3. CASE p = s
      BY <2>3 DEF Open, Whole
    <2>4. CASE s < p
      <3>1. s \in Holds /\ s < p /\ p < s + PktLen(From(s))
        BY <1>2, <1>4, <2>4 DEF End
      <3> QED BY <3>1 DEF Inside
    <2>5. p \in 1..u \/ p \in (u + 1)..(s - 1) \/ p = s \/ s < p
      BY <1>2
    <2> QED BY <2>1, <2>2, <2>3, <2>4, <2>5
  <1> HIDE DEF v
  <1>9. Held(v) = Held(u) \cup {s} /\ \A p \in Held(u) : p < s
    <2>1. \A p \in Held(v) : p \in Held(u) \cup {s}
      BY <1>6 DEF Held
    <2>2. \A p \in Held(u) : p \in Held(v) /\ p < s
      BY <1>1, <1>6 DEF Held
    <2>3. s \in Held(v)
      BY <1>4, <1>6 DEF Held
    <2> QED BY <2>1, <2>2, <2>3
  <1> QED BY <1>7, <1>8, <1>9 DEF Done, v

\* The first start byte of the buffer, on the line
LEMMA AlignedAt ==
  ASSUME line \in Seq(Byte), NEW u \in 0..Len(line), buffer = DropFirst(line, u), NEW b \in Aligned
  PROVE  \E s \in (u + 1)..Len(line) :
           /\ b = From(s) /\ line[s] = Start
           /\ \A p \in (u + 1)..(s - 1) : line[p] # Start
  <1>1. /\ Len(line) \in Nat /\ buffer \in Seq(Byte) /\ Len(buffer) = Len(line) - u
        /\ \A k \in 1..(Len(line) - u) : buffer[k] = line[u + k]
    BY LenProperties, Dropped
  <1>2. PICK i \in DOMAIN buffer : FirstStart(i) /\ b = DropFirst(buffer, i - 1)
    BY DEF Aligned
  <1>3. i \in 1..(Len(line) - u) /\ i - 1 \in 0..(Len(line) - u)
    BY <1>1, <1>2, LenProperties
  <1>4. u + i \in (u + 1)..Len(line) /\ u + (i - 1) = (u + i) - 1
    BY <1>1, <1>3
  <1>5. b = From(u + i)
    <2>1. DropFirst(DropFirst(line, u), i - 1) = DropFirst(line, u + (i - 1))
      BY <1>3, DroppedTwice
    <2> QED BY <1>2, <1>4, <2>1 DEF From
  <1>6. line[u + i] = Start
    BY <1>1, <1>2, <1>3 DEF FirstStart
  <1>7. ASSUME NEW p \in (u + 1)..((u + i) - 1)
        PROVE  line[p] # Start
    <2>1. p - u \in 1..(i - 1) /\ p - u \in 1..(Len(line) - u) /\ u + (p - u) = p
      BY <1>1, <1>3
    <2> QED BY <1>1, <1>2, <2>1 DEF FirstStart
  <1> QED BY <1>4, <1>5, <1>6, <1>7

\* When there is none, there is no start byte in the buffer.
LEMMA NoneAligned ==
  ASSUME line \in Seq(Byte), NEW u \in 0..Len(line), buffer = DropFirst(line, u), Aligned = {}
  PROVE  \A p \in (u + 1)..Len(line) : line[p] # Start
  <1>1. /\ Len(line) \in Nat /\ buffer \in Seq(Byte) /\ Len(buffer) = Len(line) - u
        /\ \A k \in 1..(Len(line) - u) : buffer[k] = line[u + k]
    BY LenProperties, Dropped
  <1>2. DOMAIN buffer = 1..(Len(line) - u)
    BY <1>1, LenProperties
  <1> DEFINE S == {n \in Nat : \A j \in 1..n : j \in DOMAIN buffer => buffer[j] # Start}
  <1>3. 0 \in S
    OBVIOUS
  <1>4. ASSUME NEW n \in Nat, n \in S
        PROVE  n + 1 \in S
    <2>1. \A j \in 1..(n + 1) : j \in 1..n \/ j = n + 1
      OBVIOUS
    <2>2. n + 1 \in DOMAIN buffer => buffer[n + 1] # Start
      <3> SUFFICES ASSUME n + 1 \in DOMAIN buffer, buffer[n + 1] = Start
                   PROVE  FALSE
        OBVIOUS
      <3>1. (n + 1) - 1 = n /\ \A j \in 1..n : j \in DOMAIN buffer
        BY <1>1, <1>2
      <3>2. FirstStart(n + 1)
        BY <1>4, <3>1 DEF FirstStart
      <3> QED BY <3>2 DEF Aligned
    <2> QED BY <1>4, <2>1, <2>2
  <1>5. Nat \subseteq S
    <2> HIDE DEF S
    <2> QED BY <1>3, <1>4, NatSet
  <1>6. \A j \in DOMAIN buffer : buffer[j] # Start
    <2>1. \A j \in DOMAIN buffer : j \in Nat /\ j \in 1..j
      BY <1>1, <1>2
    <2> QED BY <1>5, <2>1
  <1>7. ASSUME NEW p \in (u + 1)..Len(line)
        PROVE  line[p] # Start
    <2>1. p - u \in 1..(Len(line) - u) /\ u + (p - u) = p
      BY <1>1
    <2> QED BY <1>1, <1>2, <1>6, <2>1
  <1> QED BY <1>7

\* As long as the line is the same, so is all that is said of it.
LEMMA LineSame ==
  ASSUME UNCHANGED line
  PROVE  /\ Holds' = Holds
         /\ \A u : Done(u)' = Done(u) /\ Held(u)' = Held(u) /\ Frames(u)' = Frames(u)
  <1>1. Holds' = Holds
    BY DEF Holds, From
  <1>2. \A p : From(p)' = From(p)
    BY DEF From
  <1> QED BY <1>1, <1>2 DEF Done, Held, Frames, End, Open, Inside

\* What is settled of the line remains so when more bytes come.
LEMMA LineGrows ==
  ASSUME line \in Seq(Byte), NEW bytes \in Seq(Byte), line' = line \o bytes,
         NEW u \in 0..Len(line), Done(u)
  PROVE  Done(u)' /\ Held(u)' = Held(u) /\ Frames(u)' = Frames(u)
  <1>1. /\ Len(line) \in Nat /\ line' \in Seq(Byte) /\ Len(line') \in Nat /\ Len(line) <= Len(line')
        /\ \A p \in 1..Len(line) : line'[p] = line[p]
    <2>1. /\ line \o bytes \in Seq(Byte) /\ Len(line \o bytes) = Len(line) + Len(bytes)
          /\ \A i \in 1..(Len(line) + Len(bytes)) :
               (line \o bytes)[i] = IF i <= Len(line) THEN line[i] ELSE bytes[i - Len(line)]
      BY ConcatProperties
    <2>2. Len(line) \in Nat /\ Len(bytes) \in Nat
      BY LenProperties
    <2>3. \A i \in 1..Len(line) : i \in 1..(Len(line) + Len(bytes)) /\ i <= Len(line)
      BY <2>2
    <2> QED BY <2>1, <2>2, <2>3
  <1>2. ASSUME NEW p \in 1..Len(line)
        PROVE  From(p) \in Seq(Byte) /\ From(p)' = From(p) \o bytes
    <2>1. p - 1 \in 0..Len(line) /\ p \in 1..(Len(line) + 1)
      BY <1>1
    <2>2. DropFirst(line \o bytes, p - 1) = DropFirst(line, p - 1) \o bytes
      BY <2>1, DroppedBefore
    <2> QED BY <2>1, <2>2, FromType DEF From
  <1>3. ASSUME NEW p \in 1..Len(line), Enough(From(p))
        PROVE  /\ Enough(From(p)') /\ PktLen(From(p)') = PktLen(From(p))
               /\ Valid(From(p)') <=> Valid(From(p))
               /\ Valid(From(p)) => FrameOf(From(p)') = FrameOf(From(p))
    <2> DEFINE b == From(p)
    <2>1. b \in Seq(Byte) /\ Enough(b) /\ From(p)' = b \o bytes
      BY <1>2, <1>3
    <2> HIDE DEF b
    <2>2. /\ Enough(b \o bytes) /\ PktLen(b \o bytes) = PktLen(b)
          /\ Valid(b \o bytes) <=> Valid(b)
          /\ Valid(b) => FrameOf(b \o bytes) = FrameOf(b)
      BY <2>1, LongerSame
    <2>3. /\ Enough(From(p)') /\ PktLen(From(p)') = PktLen(b)
          /\ Valid(From(p)') <=> Valid(b)
          /\ Valid(b) => FrameOf(From(p)') = FrameOf(b)
      BY <2>1, <2>2
    <2> QED BY <2>3 DEF b
  <1>4. ASSUME NEW p \in 1..Len(line), Whole(p)
        PROVE  Whole(p)' /\ End(p)' = End(p) /\ FrameOf(From(p)') = FrameOf(From(p))
    BY <1>1, <1>3, <1>4 DEF Whole, End
  <1>5. ASSUME NEW p \in 1..Len(line), Whole(p)', ~ Whole(p)
        PROVE  Open(p)
    BY <1>1, <1>3, <1>5 DEF Whole, Open
  <1>6. ASSUME NEW p \in 1..Len(line), Open(p)'
        PROVE  Open(p)
    BY <1>1, <1>3, <1>6 DEF Open
  <1>7. /\ Holds \subseteq 1..Len(line)
        /\ \A p \in 1..Len(line) :
             p \in Holds <=> Whole(p) /\ \A q \in Holds : q < p => p >= End(q)
    BY HoldsChar
  <1>8. /\ Holds' \subseteq 1..Len(line')
        /\ \A p \in 1..Len(line') :
             p \in Holds' <=> Whole(p)' /\ \A q \in Holds' : q < p => p >= End(q)'
    BY <1>1, HoldsCharNext
  <1>9. \A p \in 1..u : p \in 1..Len(line) /\ p \in 1..Len(line') /\ p \in Nat
    BY <1>1
  <1>10. \A p \in 1..u : p \in Holds <=> p \in Holds'
    <2> DEFINE V == {p \in 1..u : Whole(p)}
               W == {p \in 1..u : Whole(p)'}
               c == [p \in 1..u |-> End(p)]
               e == [p \in 1..u |-> End(p)']
               H == Holds
               G == Holds'
    <2>1. \A p \in 1..u : \A q \in Nat : q # 0 /\ q < p => q \in 1..u
      BY <1>1
    <2>2. H \in SUBSET Nat /\ G \in SUBSET Nat /\ 0 \notin H /\ 0 \notin G
      BY <1>1, <1>7, <1>8
    <2>3. \A p \in 1..u : (\A q \in H : q < p => p >= End(q)) <=> \A q \in H : q < p => p >= c[q]
      <3> HIDE DEF H
      <3> QED BY <2>1, <2>2
    <2>4. \A p \in 1..u : (\A q \in G : q < p => p >= End(q)') <=> \A q \in G : q < p => p >= e[q]
      <3> HIDE DEF G
      <3> QED BY <2>1, <2>2
    <2>5. \A p \in 1..u : p \in H <=> p \in V /\ \A q \in H : q < p => p >= c[q]
      <3>1. \A p \in 1..u : p \in V <=> Whole(p)
        OBVIOUS
      <3> HIDE DEF V, c
      <3> QED BY <1>7, <1>9, <2>3, <3>1
    <2>6. \A p \in 1..u : p \in G <=> p \in W /\ \A q \in G : q < p => p >= e[q]
      <3>1. \A p \in 1..u : p \in W <=> Whole(p)'
        OBVIOUS
      <3> HIDE DEF W, e
      <3> QED BY <1>8, <1>9, <2>4, <3>1
    <2>7. \A p \in 1..u : p \in H => c[p] = e[p]
      BY <1>4, <1>7, <1>9
    <2>8. ASSUME NEW p \in 1..u
          PROVE  (p \in V <=> p \in W) \/ \E q \in H : q < p /\ ~ (p >= c[q])
      <3>1. CASE Whole(p) <=> Whole(p)'
        BY <3>1
      <3>2. CASE ~ (Whole(p) <=> Whole(p)')
        <4>1. Open(p)
          BY <1>4, <1>5, <1>9, <3>2
        <4>2. Inside(p)
          BY <4>1 DEF Done
        <4>3. PICK q \in Holds : q < p /\ p < q + PktLen(From(q))
          BY <4>2 DEF Inside
        <4>4. q \in 1..u /\ q \in 1..Len(line) /\ Whole(q)
          BY <1>7, <1>9, <2>1, <2>2, <4>3
        <4>5. End(q) \in Nat
          BY <4>4, WholeEnds
        <4>6. c[q] = End(q) /\ p < End(q) /\ p \in Nat
          BY <1>9, <4>3, <4>4 DEF End
        <4>7. ~ (p >= c[q])
          BY <4>5, <4>6
        <4> QED BY <4>3, <4>7
      <3> QED BY <3>1, <3>2
    <2>9. u \in Nat
      BY <1>1
    <2> HIDE DEF V, W, c, e, H, G
    <2>10. \A p \in 1..u : p \in H <=> p \in G
      <3>1. HeldFrom(u, V, c, H) /\ HeldFrom(u, W, e, G)
        BY <2>2, <2>5, <2>6 DEF HeldFrom
      <3> QED BY <2>7, <2>8, <2>9, <3>1, GreedyUnique
    <2> QED BY <2>10 DEF H, G
  <1>11. Held(u)' = Held(u)
    <2>1. \A p \in Held(u) : p \in 1..u
      BY <1>1, <1>7 DEF Held
    <2>2. \A p \in Held(u)' : p \in 1..u
      BY <1>1, <1>8 DEF Held
    <2>3. \A p \in 1..u : (p \in Held(u) <=> p \in Holds) /\ (p \in Held(u)' <=> p \in Holds')
      BY DEF Held
    <2> QED BY <1>10, <2>1, <2>2, <2>3
  <1>12. \A p \in Held(u) : /\ p \in Holds /\ p \in Holds' /\ p \in 1..u /\ p \in 1..Len(line)
                            /\ Whole(p) /\ p <= u
    <2>1. \A p \in Held(u) : p \in Holds /\ p \in 1..u /\ p <= u
      BY <1>1, <1>7 DEF Held
    <2> QED BY <1>7, <1>9, <1>10, <2>1
  <1>13. Frames(u)' = Frames(u)
    BY <1>4, <1>11, <1>12 DEF Frames
  <1>14. \A p \in Holds' : p <= u => End(p)' <= u + 1
    <2> SUFFICES ASSUME NEW p \in Holds', p <= u
                 PROVE  End(p)' <= u + 1
      OBVIOUS
    <2>1. p \in Held(u)
      BY <1>11 DEF Held
    <2> QED BY <1>4, <1>12, <2>1 DEF Done
  <1>15. ASSUME NEW p \in 1..u, Open(p)'
         PROVE  Inside(p)'
    <2>1. Inside(p)
      BY <1>6, <1>9, <1>15 DEF Done
    <2>2. PICK q \in Holds : q < p /\ p < End(q)
      BY <2>1 DEF Inside, End
    <2>3. q \in Held(u)
      BY <1>1, <1>7, <2>2 DEF Held
    <2>4. q \in Holds' /\ q < p /\ p < End(q)'
      BY <1>4, <1>12, <2>2, <2>3
    <2> QED BY <2>4 DEF Inside, End
  <1> QED BY <1>11, <1>13, <1>14, <1>15 DEF Done

(***************************************************************************)
(* The invariant: recv is done with the bytes that the buffer does not     *)
(* hold, and the frames among them are in the list or have been returned.  *)
(***************************************************************************)
Used == Len(line) - Len(buffer)

LineInv ==
  /\ Used \in 0..Len(line) /\ buffer = DropFirst(line, Used)
  /\ pc \notin {"scan", "crashed"} => buffer = << >> \/ buffer[1] = Start
  /\ Done(Used)
  /\ InOrder(Held(Used), Frames(Used), framelist, packets)

\* The positions that are held are natural numbers, and there are finitely many.
LEMMA HeldFinite ==
  ASSUME line \in Seq(Byte), NEW u
  PROVE  Held(u) \in SUBSET Nat /\ IsFiniteSet(Held(u))
  <1>1. Held(u) \subseteq 1..Len(line) /\ Len(line) \in Int
    BY HoldsChar, LenProperties DEF Held
  <1>2. IsFiniteSet(1..Len(line)) /\ 1..Len(line) \subseteq Nat
    BY <1>1, FS_Interval
  <1> QED BY <1>1, <1>2, FS_Subset

\* When the buffer is what the line holds after its first v bytes, v are used.
LEMMA UsedNext ==
  ASSUME UNCHANGED line, line \in Seq(Byte), NEW v \in 0..Len(line), buffer' = DropFirst(line, v)
  PROVE  Used' = v
  <1>1. Len(line) \in Nat /\ Len(buffer') = Len(line) - v
    BY LenProperties, Dropped
  <1> QED BY <1>1 DEF Used

\* The end of the loop leaves a start byte that begins no complete frame, or nothing.
LEMMA LineEnds == ASSUME TypeOK, LineInv, ScanJunk \/ ScanIncomplete PROVE LineInv'
  <1> DEFINE u == Used
  <1>1. /\ line \in Seq(Byte) /\ Len(line) \in Nat /\ UNCHANGED <<line, framelist, packets>>
        /\ u \in 0..Len(line) /\ u \in Nat /\ buffer = DropFirst(line, u) /\ Done(u)
    BY LenProperties DEF TypeOK, LineInv, ScanJunk, ScanIncomplete
  <1> HIDE DEF u
  <1>2. \E v \in u..Len(line) :
          /\ buffer' = DropFirst(line, v)
          /\ buffer' = << >> \/ buffer'[1] = Start
          /\ \A p \in (u + 1)..v : line[p] # Start
    <2>1. CASE ScanJunk
      <3>1. Len(line) \in 0..Len(line) /\ Len(line) \in u..Len(line)
        BY <1>1
      <3>2. DropFirst(line, Len(line)) \in Seq(Byte) /\ Len(DropFirst(line, Len(line))) = 0
        BY <1>1, <3>1, Dropped
      <3>3. DropFirst(line, Len(line)) = << >>
        BY <3>2, EmptySeq
      <3>4. \A p \in (u + 1)..Len(line) : line[p] # Start
        BY <1>1, <2>1, NoneAligned DEF ScanJunk
      <3> QED BY <2>1, <3>1, <3>3, <3>4 DEF ScanJunk
    <2>2. CASE ScanIncomplete
      <3>1. PICK b \in Aligned : buffer' = b
        BY <2>2 DEF ScanIncomplete
      <3>2. PICK s \in (u + 1)..Len(line) :
              /\ b = From(s) /\ line[s] = Start
              /\ \A p \in (u + 1)..(s - 1) : line[p] # Start
        BY <1>1, AlignedAt
      <3>3. s \in 1..(Len(line) + 1) /\ s - 1 \in u..Len(line)
            /\ 1 \in 1..(Len(line) - s + 1) /\ s + 1 - 1 = s
        BY <1>1
      <3>4. From(s)[1] = line[s]
        BY <1>1, <3>3, FromType
      <3> QED BY <3>1, <3>2, <3>3, <3>4 DEF From
    <2> QED BY <2>1, <2>2
  <1>3. PICK v \in u..Len(line) :
          /\ buffer' = DropFirst(line, v)
          /\ buffer' = << >> \/ buffer'[1] = Start
          /\ \A p \in (u + 1)..v : line[p] # Start
    BY <1>2
  <1>4. v \in 0..Len(line) /\ v \in Nat /\ u <= v /\ v <= Len(line)
    BY <1>1
  <1>5. Done(v) /\ Held(v) = Held(u)
    BY <1>1, <1>3, <1>4, SkipTo DEF Whole, Open
  <1>6. Used' = v
    BY <1>1, <1>3, <1>4, UsedNext
  <1>7. InOrder(Held(v), Frames(v), framelist, packets)
    BY <1>5 DEF LineInv, u, Frames
  <1> QED BY <1>1, <1>3, <1>4, <1>5, <1>6, <1>7, LineSame DEF LineInv

\* A start byte that begins no frame is skipped.
LEMMA LineSkips == ASSUME TypeOK, LineInv, ScanSkips PROVE LineInv'
  <1> DEFINE u == Used
  <1>1. /\ line \in Seq(Byte) /\ Len(line) \in Nat
        /\ UNCHANGED <<line, framelist, packets>> /\ pc' = "scan"
        /\ u \in 0..Len(line) /\ u \in Nat /\ buffer = DropFirst(line, u) /\ Done(u)
    BY LenProperties DEF TypeOK, LineInv, ScanSkips
  <1> HIDE DEF u
  <1>2. PICK b \in Aligned : Enough(b) /\ ~ Valid(b) /\ buffer' = DropFirst(b, 1)
    BY DEF ScanSkips
  <1>3. PICK s \in (u + 1)..Len(line) :
          /\ b = From(s) /\ line[s] = Start
          /\ \A p \in (u + 1)..(s - 1) : line[p] # Start
    BY <1>1, AlignedAt
  <1>4. s \in 0..Len(line) /\ s \in Nat /\ u <= s /\ s <= Len(line)
        /\ s - 1 \in 0..Len(line) /\ 1 \in 0..(Len(line) - (s - 1)) /\ (s - 1) + 1 = s
    BY <1>1
  <1>5. buffer' = DropFirst(line, s)
    <2>1. DropFirst(DropFirst(line, s - 1), 1) = DropFirst(line, (s - 1) + 1)
      BY <1>1, <1>4, DroppedTwice
    <2> QED BY <1>2, <1>3, <1>4, <2>1 DEF From
  <1>6. \A p \in (u + 1)..s : ~ Whole(p) /\ ~ Open(p)
    <2>1. \A p \in (u + 1)..s : p \in (u + 1)..(s - 1) \/ p = s
      BY <1>1
    <2> QED BY <1>2, <1>3, <2>1 DEF Whole, Open
  <1>7. Done(s) /\ Held(s) = Held(u)
    BY <1>1, <1>4, <1>6, SkipTo
  <1>8. Used' = s
    BY <1>1, <1>4, <1>5, UsedNext
  <1>9. InOrder(Held(s), Frames(s), framelist, packets)
    BY <1>7 DEF LineInv, u, Frames
  <1> QED BY <1>1, <1>4, <1>5, <1>7, <1>8, <1>9, LineSame DEF LineInv

\* A frame goes to the list.
LEMMA LineExtracts == ASSUME TypeOK, LineInv, ScanExtracts PROVE LineInv'
  <1> DEFINE u == Used
  <1>1. /\ line \in Seq(Byte) /\ Len(line) \in Nat
        /\ UNCHANGED <<line, packets>> /\ pc' = "scan" /\ framelist \in Seq(Frame)
        /\ u \in 0..Len(line) /\ u \in Nat /\ buffer = DropFirst(line, u) /\ Done(u)
        /\ InOrder(Held(u), Frames(u), framelist, packets)
    BY LenProperties DEF TypeOK, LineInv, ScanExtracts
  <1> HIDE DEF u
  <1>2. PICK b \in Aligned :
          /\ Enough(b) /\ Valid(b)
          /\ framelist' = Append(framelist, FrameOf(b))
          /\ buffer' = DropFirst(b, PktLen(b))
    BY DEF ScanExtracts
  <1>3. PICK s \in (u + 1)..Len(line) :
          /\ b = From(s) /\ line[s] = Start
          /\ \A p \in (u + 1)..(s - 1) : line[p] # Start
    BY <1>1, AlignedAt
  <1>4. s \in 1..Len(line) /\ s \in Nat /\ u < s /\ Whole(s)
    BY <1>1, <1>2, <1>3 DEF Whole
  <1> DEFINE v == End(s) - 1
             n == PktLen(b)
             f == FrameOf(b)
  <1>5. /\ n \in Nat /\ s + 3 < s + n /\ s + n <= Len(line) + 1 /\ v = (s + n) - 1
        /\ f \in Frame
    BY <1>1, <1>3, <1>4, WholeEnds DEF End
  <1>6. Done(v) /\ Held(v) = Held(u) \cup {s} /\ \A p \in Held(u) : p < s
    BY <1>1, <1>3, <1>4, FrameFound
  <1> HIDE DEF v, n
  <1>7. v \in 0..Len(line) /\ s - 1 \in 0..Len(line) /\ n \in 0..(Len(line) - (s - 1))
        /\ (s - 1) + n = v
    BY <1>1, <1>4, <1>5
  <1>8. buffer' = DropFirst(line, v)
    <2>1. DropFirst(DropFirst(line, s - 1), n) = DropFirst(line, (s - 1) + n)
      BY <1>1, <1>7, DroppedTwice
    <2> QED BY <1>2, <1>3, <1>7, <2>1 DEF From, n
  <1>9. Used' = v
    BY <1>1, <1>7, <1>8, UsedNext
  <1>10. InOrder(Held(v), Frames(v), framelist', packets)
    <2> DEFINE H == Held(u)
               F == Frames(u)
               G == Frames(v)
    <2>1. H \in SUBSET Nat
      BY <1>1, HeldFinite
    <2>2. G[s] = f
      BY <1>3, <1>6 DEF Frames
    <2>3. \A p \in H : G[p] = F[p]
      BY <1>6 DEF Frames
    <2>4. \A p \in H : p < s
      BY <1>6
    <2>5. InOrder(H, F, framelist, packets)
      BY <1>1
    <2> HIDE DEF H, F, G, f
    <2>6. InOrder(H \cup {s}, G, Append(framelist, f), packets)
      BY <1>1, <1>4, <1>5, <2>1, <2>2, <2>3, <2>4, <2>5, FrameAdded
    <2> QED BY <1>2, <1>6, <2>6 DEF H, G, f
  <1> QED BY <1>1, <1>6, <1>7, <1>8, <1>9, <1>10, LineSame DEF LineInv

\* Bytes arrive.
LEMMA LineReads == ASSUME TypeOK, LineInv, ReadBytes PROVE LineInv'
  <1>0. PICK u \in 0..Len(line) : u = Used
    BY DEF LineInv
  <1>1. /\ line \in Seq(Byte) /\ Len(line) \in Nat /\ buffer \in Seq(Byte) /\ Len(buffer) \in Nat
        /\ UNCHANGED <<framelist, packets>> /\ pc' = "scan"
        /\ u \in 0..Len(line) /\ buffer = DropFirst(line, u) /\ Done(u)
        /\ InOrder(Held(u), Frames(u), framelist, packets)
    BY <1>0, LenProperties DEF TypeOK, LineInv, ReadBytes
  <1>2. PICK n \in 1..MaxRead : \E bytes \in [1..n -> Byte] :
          buffer' = buffer \o bytes /\ line' = line \o bytes
    BY DEF ReadBytes
  <1>3. PICK bytes \in [1..n -> Byte] : buffer' = buffer \o bytes /\ line' = line \o bytes
    BY <1>2
  <1>4. bytes \in Seq(Byte) /\ Len(bytes) \in Nat
    <2>1. n \in Nat BY XBeeAssumption
    <2>2. bytes \in Seq(Byte) BY <2>1
    <2> QED BY <2>2, LenProperties
  <1>5. Len(buffer') = Len(buffer) + Len(bytes) /\ Len(line') = Len(line) + Len(bytes)
    BY <1>1, <1>3, <1>4, ConcatProperties
  <1>6. Used' = u
    BY <1>0, <1>1, <1>4, <1>5 DEF Used
  <1>7. buffer' = DropFirst(line', u)
    BY <1>1, <1>3, <1>4, DroppedBefore
  <1>8. u \in 0..Len(line')
    BY <1>1, <1>4, <1>5
  <1>9. Done(u)' /\ Held(u)' = Held(u) /\ Frames(u)' = Frames(u)
    BY <1>1, <1>3, <1>4, LineGrows
  <1> QED BY <1>1, <1>6, <1>7, <1>8, <1>9 DEF LineInv

\* A packet is returned.
LEMMA LineReturns == ASSUME TypeOK, LineInv, ExtractPacket PROVE LineInv'
  <1> DEFINE H == Held(Used)
             F == Frames(Used)
  <1>1. /\ line \in Seq(Byte) /\ framelist \in Seq(Frame) /\ packets \in Seq(Frame)
        /\ UNCHANGED <<line, buffer, pc>>
    BY DEF TypeOK, ExtractPacket
  <1>2. PICK i \in DOMAIN framelist :
          /\ PacketAt(i)
          /\ packets' = Append(packets, framelist[i])
          /\ framelist' = SubSeq(framelist, 1, i - 1) \o DropFirst(framelist, i)
    BY DEF ExtractPacket
  <1>3. IsPacket(framelist[i]) /\ \A j \in 1..(i - 1) : ~ IsPacket(framelist[j])
    BY <1>2 DEF PacketAt
  <1>4. H \in SUBSET Nat /\ IsFiniteSet(H) /\ InOrder(H, F, framelist, packets)
    BY <1>1, HeldFinite DEF LineInv
  <1> HIDE DEF H, F
  <1>5. InOrder(H, F, framelist', packets')
    BY <1>1, <1>2, <1>3, <1>4, PacketTaken
  <1>6. Used' = Used
    BY <1>1 DEF Used
  <1> QED BY <1>1, <1>5, <1>6, LineSame DEF LineInv, H, F

\* recv needs bytes, or is ended, or nothing happens.
LEMMA LineStays == ASSUME LineInv, NoPacket \/ ScanCrashes \/ UNCHANGED vars PROVE LineInv'
  <1>1. /\ UNCHANGED <<line, buffer, framelist, packets>>
        /\ pc' = "crashed" \/ (pc \in {"scan", "crashed"} => pc' = pc)
    BY DEF NoPacket, ScanCrashes, vars
  <1>2. Used' = Used
    BY <1>1 DEF Used
  <1> QED BY <1>1, <1>2, LineSame DEF LineInv

\* LineInv holds of every reachable state.
LEMMA LineInvAlways == Spec => []LineInv
  <1>1. Init => LineInv
    <2> SUFFICES ASSUME Init
                 PROVE  LineInv
      OBVIOUS
    <2>1. line = << >> /\ buffer = << >> /\ framelist = << >> /\ packets = << >>
          /\ line \in Seq(Byte) /\ Len(line) = 0
      BY EmptySettled, EmptySeq DEF Init
    <2>2. Used = 0
      BY <2>1 DEF Used
    <2>3. 0 \in 0..Len(line)
      BY <2>1
    <2>4. buffer = DropFirst(line, 0)
      <3>1. DropFirst(line, 0) \in Seq(Byte) /\ Len(DropFirst(line, 0)) = 0
        <4> DEFINE z == 0
        <4>1. line \in Seq(Byte) /\ z \in 0..Len(line) /\ Len(line) - z = 0
          BY <2>1
        <4> HIDE DEF z
        <4>2. DropFirst(line, z) \in Seq(Byte) /\ Len(DropFirst(line, z)) = 0
          BY <4>1, Dropped
        <4> QED BY <4>2 DEF z
      <3> QED BY <2>1, <3>1, EmptySeq
    <2>5. Held(0) = {}
      BY <2>1, HoldsChar DEF Held
    <2>6. Done(0)
      BY <2>1, HoldsChar DEF Done
    <2>7. InOrder({}, Frames(0), << >>, << >>)
      <3> DEFINE at == [i \in {} |-> 0]
      <3>1. Gone({}, Frames(0), << >>, at) = {}
        BY DEF Gone
      <3>2. DOMAIN << >> = {} /\ Len(<< >>) = 0
        BY EmptySeq
      <3>3. at \in [DOMAIN << >> -> {}]
        BY <3>2
      <3> HIDE DEF at
      <3>4. OrderedBy({}, Frames(0), << >>, << >>, at)
        BY <3>1, <3>2, <3>3, FS_EmptySet DEF OrderedBy
      <3> QED BY <3>4 DEF InOrder
    <2> QED BY <2>1, <2>2, <2>3, <2>4, <2>5, <2>6, <2>7 DEF LineInv
  <1>2. TypeOK /\ LineInv /\ [Next]_vars => LineInv'
    BY LineEnds, LineSkips, LineExtracts, LineReads, LineReturns, LineStays DEF Next, Work
  <1> QED BY <1>1, <1>2, XBeeTypeCorrect, PTL DEF Spec

(***************************************************************************)
(* No frame is lost, invented or repeated, in whatever pieces the line     *)
(* comes: before each read recv has returned the packets of the line, in   *)
(* their order, and nothing else.                                          *)
(***************************************************************************)
THEOREM PacketsAreThoseOfTheLine == Spec => []PacketsOfLine
  <1>1. ASSUME XInv, LineInv, pc = "read"
        PROVE  PacketsOfLine
    <2> DEFINE u == Used
    <2>1. /\ line \in Seq(Byte) /\ Len(line) \in Nat /\ u \in 0..Len(line) /\ u \in Nat
          /\ buffer = DropFirst(line, u) /\ (buffer = << >> \/ buffer[1] = Start)
          /\ Done(u) /\ ~ Enough(buffer)
          /\ \A i \in DOMAIN framelist : ~ IsPacket(framelist[i])
          /\ InOrder(Held(u), Frames(u), framelist, packets)
      BY <1>1, LenProperties DEF XInv, TypeOK, LineInv, Settled, Fetching
    <2> HIDE DEF u
    <2>2. /\ Holds \subseteq 1..Len(line)
          /\ \A p \in Holds : Whole(p) /\ p \in 1..Len(line) /\ p \in Nat /\ End(p) \in Nat
      BY HoldsChar, WholeEnds, <2>1
    <2>3. u = Len(line) \/ (u + 1 \in 1..Len(line) /\ Open(u + 1))
      <3> SUFFICES ASSUME u # Len(line)
                   PROVE  u + 1 \in 1..Len(line) /\ Open(u + 1)
        OBVIOUS
      <3>1. u + 1 \in 1..Len(line) /\ u + 1 \in 1..(Len(line) + 1) /\ (u + 1) - 1 = u
            /\ 1 \in 1..(Len(line) - (u + 1) + 1) /\ (u + 1) + 1 - 1 = u + 1
        BY <2>1
      <3>2. From(u + 1) = buffer
        BY <2>1, <3>1 DEF From
      <3>3. Len(buffer) = Len(line) - (u + 1) + 1 /\ buffer[1] = line[u + 1]
        BY <2>1, <3>1, <3>2, FromType
      <3>4. buffer # << >>
        BY <2>1, <3>1, <3>3, EmptySeq
      <3> QED BY <2>1, <3>1, <3>2, <3>3, <3>4 DEF Open
    <2>4. Known = Held(u)
      <3>1. ASSUME NEW p \in Holds, p <= u
            PROVE  p \in Known
        <4>1. \A q \in 1..(p - 1) : q \in 1..u
          BY <2>1, <2>2, <3>1
        <4> QED BY <2>1, <3>1, <4>1 DEF Known, Done
      <3>2. ASSUME NEW p \in Holds, ~ (p <= u)
            PROVE  p \notin Known
        <4>1. u + 1 \in 1..Len(line) /\ Open(u + 1) /\ u < p
          BY <2>1, <2>2, <2>3, <3>2
        <4>2. p # u + 1
          BY <2>2, <4>1 DEF Whole, Open
        <4>3. u + 1 \in 1..(p - 1)
          BY <2>1, <2>2, <4>1, <4>2
        <4>4. ~ Inside(u + 1)
          <5> SUFFICES ASSUME NEW q \in Holds, q < u + 1, u + 1 < End(q)
                       PROVE  FALSE
            BY DEF Inside, End
          <5>1. q <= u /\ End(q) \in Nat
            BY <2>1, <2>2
          <5>2. End(q) <= u + 1
            BY <2>1, <5>1 DEF Done
          <5> QED BY <2>1, <5>1, <5>2
        <4> QED BY <4>1, <4>3, <4>4 DEF Known
      <3>3. Known \subseteq Holds
        BY DEF Known
      <3> QED BY <3>1, <3>2, <3>3 DEF Held
    <2>5. \A p \in Held(u) : /\ Frames(u)[p] = FrameOf(From(p))
                             /\ IsPacket(FrameOf(From(p))) <=> line[p + 3] = RxShort
      <3>1. \A p \in Held(u) : p \in 1..Len(line) /\ Whole(p)
        BY <2>2 DEF Held
      <3>2. \A p \in Held(u) : FrameOf(From(p)).type = line[p + 3]
        BY <2>1, <3>1, WholeEnds
      <3> QED BY <3>2 DEF Frames, IsPacket
    <2>6. PICK at : OrderedBy(Held(u), Frames(u), framelist, packets, at)
      BY <2>1 DEF InOrder
    <2>7. Gone(Held(u), Frames(u), framelist, at) = PacketPositions
      <3>1. ASSUME NEW p \in Held(u), IsPacket(Frames(u)[p])
            PROVE  \A i \in DOMAIN framelist : at[i] # p
        BY <2>1, <2>6, <3>1 DEF OrderedBy
      <3>2. \A p \in Held(u) : p \in Gone(Held(u), Frames(u), framelist, at)
                               <=> IsPacket(Frames(u)[p])
        BY <3>1 DEF Gone
      <3>3. \A p \in Held(u) : p \in PacketPositions <=> IsPacket(Frames(u)[p])
        BY <2>4, <2>5 DEF PacketPositions
      <3>4. Gone(Held(u), Frames(u), framelist, at) \subseteq Held(u)
        BY DEF Gone
      <3>5. PacketPositions \subseteq Held(u)
        BY <2>4 DEF PacketPositions
      <3> QED BY <3>2, <3>3, <3>4, <3>5
    <2>8. Len(packets) = Cardinality(PacketPositions)
      BY <2>6, <2>7 DEF OrderedBy
    <2>9. ASSUME NEW p \in PacketPositions
          PROVE  packets[Cardinality({q \in PacketPositions : q <= p})] = FrameOf(From(p))
      <3>1. packets[Cardinality({q \in PacketPositions : q <= p})] = Frames(u)[p]
        BY <2>6, <2>7 DEF OrderedBy
      <3>2. p \in Held(u)
        BY <2>4 DEF PacketPositions
      <3> QED BY <2>5, <3>1, <3>2
    <2> QED BY <2>8, <2>9 DEF PacketsOfLine
  <1>2. XInv /\ LineInv => PacketsOfLine
    BY <1>1 DEF PacketsOfLine
  <1> QED BY <1>2, XInvAlways, LineInvAlways, PTL

(***************************************************************************)
(* Nothing ends recv but a packet that the line holds and whose data are   *)
(* shorter than the header: extract_frame_to_list copies a payload of a    *)
(* negative length only then, whatever the line and its pieces.            *)
(***************************************************************************)
THEOREM OnlyShortPacketsCrash == Spec => []CrashIsShortPacket
  <1>1. ASSUME XInv, LineInv, pc = "crashed"
        PROVE  \E p \in Known : line[p + 3] = RxShort /\ Length(From(p)) < Header
    <2> DEFINE u == Used
    <2>1. /\ line \in Seq(Byte) /\ Len(line) \in Nat /\ u \in 0..Len(line) /\ u \in Nat
          /\ buffer = DropFirst(line, u) /\ Done(u)
      BY <1>1, LenProperties DEF XInv, TypeOK, LineInv
    <2> HIDE DEF u
    <2>2. PICK b \in Aligned : Enough(b) /\ Valid(b) /\ Short(b)
      BY <1>1 DEF XInv, Crashed
    <2>3. PICK s \in (u + 1)..Len(line) :
            /\ b = From(s) /\ line[s] = Start
            /\ \A p \in (u + 1)..(s - 1) : line[p] # Start
      BY <2>1, AlignedAt
    <2>4. s \in 1..Len(line) /\ s \in Nat /\ u < s /\ Whole(s)
      BY <2>1, <2>2, <2>3 DEF Whole
    <2>5. End(s) \in Nat /\ s + 3 < End(s) /\ FrameOf(From(s)).type = line[s + 3]
      BY <2>1, <2>4, WholeEnds
    <2> DEFINE v == End(s) - 1
    <2>6. Done(v) /\ Held(v) = Held(u) \cup {s}
      BY <2>1, <2>3, <2>4, FrameFound
    <2>7. s \in Holds
      BY <2>6 DEF Held
    <2>8. \A q \in 1..(s - 1) : q \in 1..v
      BY <2>4, <2>5
    <2> HIDE DEF v
    <2>9. s \in Known
      BY <2>6, <2>7, <2>8 DEF Known, Done
    <2> QED BY <2>2, <2>3, <2>5, <2>9 DEF Short
  <1>2. XInv /\ LineInv => CrashIsShortPacket
    BY <1>1 DEF CrashIsShortPacket
  <1> QED BY <1>2, XInvAlways, LineInvAlways, PTL
===========================================================================
