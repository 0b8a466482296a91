---------------------------- MODULE ZigMsg_proofs ----------------------------
(***************************************************************************)
(* Proofs about ZigMsg, for a buffer of any size: whatever interrupts the  *)
(* program, the frame it reads is left alone, and the radio receives       *)
(* whenever it is not sending.                                             *)
(***************************************************************************)
EXTENDS ZigMsg, TLAPS

\* The radio writes at the last place, the program reads at the first, and these
\* are the same one only when the program reads nothing.
Apart ==
  /\ rxframe = rbuflast
  /\ curframe # None => curframe = rbuffirst /\ rbuffirst # rbuflast

\* The state of the radio follows the steps of sendto.
Phase ==
  /\ pc \in {"recv", "get", "process"} => radio = "RXAUTO" /\ writing = FALSE
  /\ pc \in {"prepare", "send"} => radio = "TXAUTO"
  /\ pc = "get" => curframe = None

ZInv == TypeOK /\ Apart /\ Phase /\ FrameKept

\* The next place is one of the buffer.
LEMMA SuccInside == ASSUME NEW i \in Indices PROVE Succ(i) \in Indices
  <1>1. Size \in Nat \ {0} /\ i + 1 \in Nat BY ZigAssumption DEF Indices
  <1>2. (i + 1) % Size \in 0..(Size - 1) BY <1>1
  <1>q. QED BY <1>2 DEF Succ, Indices

\* NULL is none of the places.
LEMMA NoneOutside == None \notin Indices
  BY ZigAssumption DEF Indices

\* The invariant holds initially.
LEMMA InitHolds == Init => ZInv
  <1>1. 0 \in Indices BY ZigAssumption DEF Indices
  <1> SUFFICES ASSUME Init PROVE ZInv OBVIOUS
  <1> USE DEF Init
  <1>2. TypeOK
    <2>1. rbuffer \in [Indices -> Frames] OBVIOUS
    <2>2. {rbuffirst, rbuflast, rxframe} \subseteq Indices BY <1>1
    <2>3. overrun \in BOOLEAN /\ writing \in BOOLEAN OBVIOUS
    <2>4. radio \in {"RXAUTO", "TXAUTO", "TRANSMITTING", "OFF"} OBVIOUS
    <2>5. pc \in {"recv", "get", "process", "prepare", "send", "wait"} OBVIOUS
    <2>6. curframe \in Indices \cup {None} /\ held \in Frames \cup {None} OBVIOUS
    <2>7. sends \in 0..MaxSends BY ZigAssumption
    <2>q. QED BY <2>1, <2>2, <2>3, <2>4, <2>5, <2>6, <2>7 DEF TypeOK
  <1>3. Apart /\ Phase /\ FrameKept BY DEF Apart, Phase, FrameKept
  <1>q. QED BY <1>2, <1>3 DEF ZInv

\* The interrupt of a reception writes where the program does not read.
LEMMA ReceptionKeeps ==
  ASSUME ZInv, NEW f \in Frames, NEW crcFail \in BOOLEAN, ItReceiveFrame(f, crcFail)
  PROVE  ZInv'
  <1> USE DEF ZInv, ItReceiveFrame, program
  <1>1. Succ(rbuflast) \in Indices BY SuccInside DEF TypeOK
  <1>2. TypeOK' BY <1>1 DEF TypeOK, Overrun
  <1>3. Apart' BY NoneOutside DEF Apart, TypeOK, Overrun
  <1>4. Phase' BY DEF Phase
  <1>5. FrameKept' BY DEF FrameKept, Apart, TypeOK
  <1>q. QED BY <1>2, <1>3, <1>4, <1>5

\* The end of a transmission only concerns a program that waits for it.
LEMMA TransmissionKeeps == ASSUME ZInv, ItTxDone PROVE ZInv'
  BY DEF ZInv, ItTxDone, TypeOK, Apart, Phase, FrameKept, ring, program

\* A place is released before the program reads another.
LEMMA ReadKeeps == ASSUME ZInv, SkipReceived \/ GetReceived \/ Processed PROVE ZInv'
  <1> USE DEF ZInv
  <1>1. CASE SkipReceived
    <2>1. Succ(rbuffirst) \in Indices BY SuccInside DEF TypeOK
    <2>q. QED BY <1>1, <2>1 DEF SkipReceived, TypeOK, Apart, Phase, FrameKept
  <1>2. CASE GetReceived
    <2> USE <1>2 DEF GetReceived, ring
    <2>1. TypeOK' BY DEF TypeOK
    <2>2. Apart' BY DEF Apart, Phase
    <2>3. Phase' BY DEF Phase
    <2>4. FrameKept' BY DEF FrameKept
    <2>q. QED BY <2>1, <2>2, <2>3, <2>4
  <1>3. CASE Processed
    BY <1>3 DEF Processed, TypeOK, Apart, Phase, FrameKept, ring
  <1>q. QED BY <1>1, <1>2, <1>3

\* The steps of sendto keep the invariant.
LEMMA SendKeeps ==
  ASSUME ZInv, SetTxAuto \/ StartWriting \/ RadioSendFrame \/ SetRxAuto
  PROVE  ZInv'
  <1> USE DEF ZInv, TypeOK, Apart, Phase, FrameKept, ring
  <1>1. CASE SetTxAuto
    <2>1. sends - 1 \in 0..MaxSends BY <1>1, ZigAssumption DEF SetTxAuto
    <2>q. QED BY <1>1, <2>1 DEF SetTxAuto
  <1>2. CASE StartWriting BY <1>2 DEF StartWriting
  <1>3. CASE RadioSendFrame BY <1>3 DEF RadioSendFrame
  <1>4. CASE SetRxAuto BY <1>4 DEF SetRxAuto
  <1>q. QED BY <1>1, <1>2, <1>3, <1>4

\* Every step keeps the invariant.
LEMMA StepHolds == ZInv /\ [Next]_vars => ZInv'
  <1> SUFFICES ASSUME ZInv, [Next]_vars PROVE ZInv' OBVIOUS
  <1>1. CASE UNCHANGED vars
    BY <1>1 DEF ZInv, TypeOK, Apart, Phase, FrameKept, vars, ring, program
  <1>2. CASE Next
    BY <1>2, ReceptionKeeps, TransmissionKeeps, ReadKeeps, SendKeeps DEF Next, Program
  <1>q. QED BY <1>1, <1>2

\* The invariant holds of every state.
LEMMA ZInvAlways == Spec => []ZInv
  BY InitHolds, StepHolds, PTL DEF Spec

\* Positions stay in the buffer, whatever its size (it_receive_frame, skip_received).
THEOREM ZigTypeCorrect == Spec => []TypeOK
  <1>1. ZInv => TypeOK BY DEF ZInv
  <1>q. QED BY <1>1, ZInvAlways, PTL

\* The interrupt routine never writes in the frame the program reads in place, in a
\* buffer of any size, however late the program is.
THEOREM FrameAlwaysKept == Spec => []FrameKept
  <1>1. ZInv => FrameKept BY DEF ZInv
  <1>q. QED BY <1>1, ZInvAlways, PTL

\* The slave listens whenever it is not in sendto.
THEOREM AlwaysListening == Spec => []Listening
  <1>1. ZInv => Listening BY DEF ZInv, Phase, Listening
  <1>q. QED BY <1>1, ZInvAlways, PTL

---------------------------------------------------------------------------
(* The buffer is a queue (FrameQueue) *)

\* A place is brought back to the beginning of the buffer when it is past the end,
\* and to its end when it is before the beginning.
LEMMA Inside == ASSUME NEW x \in Indices PROVE x % Size = x
  BY ZigAssumption DEF Indices

\* A position past the end of the buffer is one at its beginning.
LEMMA PastTheEnd == ASSUME NEW x \in Size..(2 * Size - 1) PROVE x % Size = x - Size
  BY ZigAssumption

\* A position before the beginning of the buffer is one at its end.
LEMMA BeforeTheBeginning == ASSUME NEW x \in (-Size)..(-1) PROVE x % Size = x + Size
  BY ZigAssumption

\* The distance from one place to another, and the place at a distance.
LEMMA Distance ==
  ASSUME NEW i \in Indices, NEW j \in Indices
  PROVE  (j - i) % Size = IF i <= j THEN j - i ELSE j - i + Size
  <1>1. Size \in Nat \ {0} BY ZigAssumption
  <1>2. CASE i <= j
    <2>1. j - i \in Indices BY <1>1, <1>2 DEF Indices
    <2>q. QED BY <1>2, <2>1, Inside
  <1>3. CASE ~ (i <= j)
    <2>1. j - i \in (-Size)..(-1) BY <1>1, <1>3 DEF Indices
    <2>q. QED BY <1>3, <2>1, BeforeTheBeginning
  <1>q. QED BY <1>2, <1>3

\* The place at a distance of another one
LEMMA Place ==
  ASSUME NEW i \in Indices, NEW d \in Indices
  PROVE  (i + d) % Size = IF i + d < Size THEN i + d ELSE i + d - Size
  <1>1. Size \in Nat \ {0} BY ZigAssumption
  <1>2. CASE i + d < Size
    <2>1. i + d \in Indices BY <1>1, <1>2 DEF Indices
    <2>q. QED BY <1>2, <2>1, Inside
  <1>3. CASE ~ (i + d < Size)
    <2>1. i + d \in Size..(2 * Size - 1) BY <1>1, <1>3 DEF Indices
    <2>q. QED BY <1>1, <1>3, <2>1, PastTheEnd DEF Indices
  <1>q. QED BY <1>2, <1>3

\* The place after another one
LEMMA SuccValue ==
  ASSUME NEW i \in Indices
  PROVE  Succ(i) = IF i + 1 < Size THEN i + 1 ELSE 0
  <1>1. Size \in Nat \ {0} BY ZigAssumption
  <1>2. CASE i + 1 < Size
    <2>1. i + 1 \in Indices BY <1>1, <1>2 DEF Indices
    <2>q. QED BY <1>2, <2>1, Inside DEF Succ
  <1>3. CASE ~ (i + 1 < Size)
    <2>1. i + 1 \in Size..(2 * Size - 1) /\ i + 1 = Size BY <1>1, <1>3 DEF Indices
    <2>q. QED BY <1>1, <1>3, <2>1, PastTheEnd DEF Succ
  <1>q. QED BY <1>2, <1>3

\* The frames from one place to another: what Queue is in a state, and in the next.
Between(b, i, j) == [k \in 1..((j - i) % Size) |-> b[(i + k - 1) % Size]]

\* They are a sequence; a frame added at the end, and one removed from the head.
LEMMA BetweenIsSequence ==
  ASSUME NEW b \in [Indices -> Frames], NEW i \in Indices, NEW j \in Indices
  PROVE  /\ Between(b, i, j) \in Seq(Frames)
         /\ Len(Between(b, i, j)) = (j - i) % Size
         /\ (j - i) % Size \in Indices
         /\ \A k \in 1..((j - i) % Size) :
              /\ (i + k - 1) % Size \in Indices
              /\ Between(b, i, j)[k] = b[(i + k - 1) % Size]
  <1>1. Size \in Nat \ {0} BY ZigAssumption
  <1> DEFINE n == (j - i) % Size
             q == Between(b, i, j)
  <1>2. n \in Indices BY <1>1, Distance DEF Indices
  <1>3. ASSUME NEW k \in 1..n PROVE (i + k - 1) % Size \in Indices
    <2>1. k - 1 \in Indices /\ i + k - 1 = i + (k - 1) BY <1>1, <1>2 DEF Indices
    <2>q. QED BY <1>1, <2>1, Place DEF Indices
  <1>4. q \in [1..n -> Frames] BY <1>3 DEF Between
  <1>5. \A k \in 1..n : q[k] = b[(i + k - 1) % Size] BY DEF Between
  <1>6. n \in Nat BY <1>1, <1>2 DEF Indices
  <1>7. q \in Seq(Frames) /\ Len(q) = n
    <2> HIDE DEF q, n
    <2>q. QED BY <1>4, <1>6
  <1>q. QED BY <1>2, <1>3, <1>5, <1>7

\* A frame that is written at the last place is the last one of the queue.
LEMMA AddedAtEnd ==
  ASSUME NEW b \in [Indices -> Frames], NEW i \in Indices, NEW j \in Indices,
         NEW f \in Frames, Succ(j) # i
  PROVE  Between([b EXCEPT ![j] = f], i, Succ(j)) = Append(Between(b, i, j), f)
  <1>1. Size \in Nat \ {0} BY ZigAssumption
  <1> DEFINE c == [b EXCEPT ![j] = f]
             n == (j - i) % Size
             m == (Succ(j) - i) % Size
             q == Between(b, i, j)
             r == Between(c, i, Succ(j))
  <1>2. c \in [Indices -> Frames] /\ Succ(j) \in Indices BY SuccInside
  <1>d. n = IF i <= j THEN j - i ELSE j - i + Size BY Distance
  <1>3. n \in Nat /\ n + 1 <= Size - 1 /\ m = n + 1
    <2>1. Succ(j) = IF j + 1 < Size THEN j + 1 ELSE 0 BY SuccValue
    <2>2. m = IF i <= Succ(j) THEN Succ(j) - i ELSE Succ(j) - i + Size BY <1>2, Distance
    <2> HIDE DEF n, m
    <2>q. QED BY <1>1, <1>d, <2>1, <2>2 DEF Indices
  <1>4. /\ q \in Seq(Frames) /\ Len(q) = n
        /\ \A k \in 1..n : (i + k - 1) % Size \in Indices /\ q[k] = b[(i + k - 1) % Size]
    BY BetweenIsSequence
  <1>5. /\ r \in Seq(Frames) /\ Len(r) = n + 1
        /\ \A k \in 1..(n + 1) : r[k] = c[(i + k - 1) % Size]
    <2>1. /\ r \in Seq(Frames) /\ Len(r) = m
          /\ \A k \in 1..m : r[k] = c[(i + k - 1) % Size]
      <3> HIDE DEF c
      <3>q. QED BY <1>2, BetweenIsSequence
    <2> HIDE DEF r, c, n, m
    <2>q. QED BY <1>3, <2>1
  <1>6. ASSUME NEW k \in 1..n PROVE (i + k - 1) % Size # j
    <2> HIDE DEF n
    <2>1. k - 1 \in Indices /\ i + k - 1 = i + (k - 1) BY <1>1, <1>3 DEF Indices
    <2>2. (i + (k - 1)) % Size = IF i + (k - 1) < Size THEN i + (k - 1) ELSE i + (k - 1) - Size
      BY <2>1, Place
    <2>3. k <= n /\ k \in Nat BY <1>3
    <2> DEFINE p == (i + (k - 1)) % Size
    <2>4. p = IF i + (k - 1) < Size THEN i + (k - 1) ELSE i + (k - 1) - Size BY <2>2
    <2>5. p # j
      <3> HIDE DEF p
      <3>q. QED BY <1>1, <1>d, <2>3, <2>4 DEF Indices
    <2>q. QED BY <2>1, <2>5
  <1>7. (i + (n + 1) - 1) % Size = j
    <2>1. n \in Indices /\ i + (n + 1) - 1 = i + n BY <1>1, <1>3 DEF Indices
    <2> DEFINE p == (i + n) % Size
    <2> HIDE DEF n
    <2>2. p = IF i + n < Size THEN i + n ELSE i + n - Size BY <2>1, Place
    <2>3. p = j
      <3> HIDE DEF p
      <3>q. QED BY <1>1, <1>d, <2>2 DEF Indices
    <2>q. QED BY <2>1, <2>3
  <1>8. \A k \in 1..n : r[k] = q[k]
    <2> SUFFICES ASSUME NEW k \in 1..n PROVE r[k] = q[k] OBVIOUS
    <2>1. r[k] = c[(i + k - 1) % Size]
      <3> HIDE DEF r, c, n
      <3>q. QED BY <1>3, <1>5
    <2>2. c[(i + k - 1) % Size] = b[(i + k - 1) % Size] BY <1>4, <1>6
    <2>q. QED BY <1>4, <2>1, <2>2
  <1>9. r[n + 1] = f
    <2>1. r[n + 1] = c[j]
      <3> HIDE DEF r, c, n
      <3>q. QED BY <1>3, <1>5, <1>7
    <2>q. QED BY <2>1
  <1>q. QED
    <2> HIDE DEF q, r, n
    <2> DEFINE s == Append(q, f)
    <2>1. s \in Seq(Frames) /\ Len(s) = n + 1 BY <1>3, <1>4
    <2>2. \A k \in 1..(n + 1) : r[k] = s[k] BY <1>3, <1>4, <1>8, <1>9
    <2>3. r = s
      <3> HIDE DEF s
      <3>q. QED BY <1>3, <1>5, <2>1, <2>2
    <2>q. QED BY <2>3 DEF q, r

\* The frame at the first place is the head of the queue.
LEMMA RemovedAtHead ==
  ASSUME NEW b \in [Indices -> Frames], NEW i \in Indices, NEW j \in Indices, i # j
  PROVE  /\ Between(b, i, j) # << >>
         /\ Head(Between(b, i, j)) = b[i]
         /\ Between(b, Succ(i), j) = Tail(Between(b, i, j))
  <1>1. Size \in Nat \ {0} BY ZigAssumption
  <1> DEFINE n == (j - i) % Size
             q == Between(b, i, j)
             m == (j - Succ(i)) % Size
             r == Between(b, Succ(i), j)
  <1>2. Succ(i) \in Indices BY SuccInside
  <1>3. n \in Nat \ {0} /\ n <= Size - 1 /\ m = n - 1
    <2>1. Succ(i) = IF i + 1 < Size THEN i + 1 ELSE 0 BY SuccValue
    <2>2. m = IF Succ(i) <= j THEN j - Succ(i) ELSE j - Succ(i) + Size BY <1>2, Distance
    <2>3. n = IF i <= j THEN j - i ELSE j - i + Size BY Distance
    <2> HIDE DEF n, m
    <2>q. QED BY <1>1, <2>1, <2>2, <2>3 DEF Indices
  <1>4. /\ q \in Seq(Frames) /\ Len(q) = n
        /\ \A k \in 1..n : q[k] = b[(i + k - 1) % Size]
    BY BetweenIsSequence
  <1>5. /\ r \in Seq(Frames) /\ Len(r) = n - 1
        /\ \A k \in 1..(n - 1) : r[k] = b[(Succ(i) + k - 1) % Size]
    <2>1. /\ r \in Seq(Frames) /\ Len(r) = m
          /\ \A k \in 1..m : r[k] = b[(Succ(i) + k - 1) % Size]
      BY <1>2, BetweenIsSequence
    <2> HIDE DEF r, n, m
    <2>q. QED BY <1>3, <2>1
  <1>6. q[1] = b[i]
    <2>1. i + 1 - 1 = i /\ i % Size = i BY <1>1, Inside DEF Indices
    <2>q. QED BY <1>3, <1>4, <2>1
  <1>7. ASSUME NEW k \in 1..(n - 1) PROVE r[k] = q[k + 1]
    <2>1. /\ k - 1 \in Indices /\ k \in Indices
          /\ Succ(i) + k - 1 = Succ(i) + (k - 1) /\ i + (k + 1) - 1 = i + k
      BY <1>1, <1>2, <1>3 DEF Indices
    <2>2. (Succ(i) + (k - 1)) % Size = (i + k) % Size
      <3> DEFINE p == (Succ(i) + (k - 1)) % Size
                 o == (i + k) % Size
      <3>1. p = IF Succ(i) + (k - 1) < Size THEN Succ(i) + (k - 1) ELSE Succ(i) + (k - 1) - Size
        BY <1>2, <2>1, Place
      <3>2. o = IF i + k < Size THEN i + k ELSE i + k - Size BY <2>1, Place
      <3>3. Succ(i) = IF i + 1 < Size THEN i + 1 ELSE 0 BY SuccValue
      <3> HIDE DEF p, o
      <3>4. p = o BY <1>1, <2>1, <3>1, <3>2, <3>3 DEF Indices
      <3>q. QED BY <3>4 DEF p, o
    <2>3. k + 1 \in 1..n BY <1>3
    <2>q. QED BY <1>4, <1>5, <2>1, <2>2, <2>3
  <1>q. QED
    <2> HIDE DEF q, r, n
    <2>1. q # << >> /\ Head(q) = q[1] BY <1>3, <1>4
    <2>2. Tail(q) \in Seq(Frames) /\ Len(Tail(q)) = n - 1 BY <1>3, <1>4, <2>1
    <2>3. \A k \in 1..(n - 1) : Tail(q)[k] = q[k + 1] BY <1>3, <1>4, <2>1
    <2>4. \A k \in 1..(n - 1) : r[k] = Tail(q)[k] BY <1>7, <2>3
    <2>5. r = Tail(q)
      <3> DEFINE s == Tail(q)
      <3>1. s \in Seq(Frames) /\ Len(s) = n - 1 /\ \A k \in 1..(n - 1) : r[k] = s[k]
        BY <2>2, <2>4
      <3> HIDE DEF s
      <3>2. r = s BY <1>3, <1>5, <3>1
      <3>q. QED BY <3>2 DEF s
    <2>q. QED BY <1>6, <2>1, <2>5 DEF q, r

\* The program has a frame exactly when it has taken one from the buffer.
Reading == held = None <=> curframe = None

QInv == ZInv /\ Reading

\* It is so in every state.
LEMMA QInvAlways == Spec => []QInv
  <1>1. Init => Reading BY DEF Init, Reading
  <1>2. ZInv /\ Reading /\ [Next]_vars => Reading'
    <2> SUFFICES ASSUME ZInv, Reading, [Next]_vars PROVE Reading' OBVIOUS
    <2> USE DEF Reading
    <2>1. CASE UNCHANGED <<curframe, held>> BY <2>1
    <2>2. CASE SkipReceived BY <2>2 DEF SkipReceived
    <2>3. CASE GetReceived
      <3>1. rbuffirst \in Indices /\ rbuffer[rbuffirst] \in Frames BY DEF ZInv, TypeOK
      <3>q. QED BY <2>3, <3>1, ZigAssumption, NoneOutside DEF GetReceived
    <2>4. [Next]_vars => UNCHANGED <<curframe, held>> \/ SkipReceived \/ GetReceived
      BY DEF Next, Program, ItReceiveFrame, ItTxDone, Processed, SetTxAuto, StartWriting,
             RadioSendFrame, SetRxAuto, vars, program, ring
    <2>q. QED BY <2>1, <2>2, <2>3, <2>4
  <1>q. QED BY <1>1, <1>2, ZInvAlways, PTL DEF QInv, Spec

FifoNext == Fifo!Refuse \/ Fifo!Read \/ Fifo!Remove \/ Fifo!Damaged \/ \E f \in Frames : Fifo!Accept(f)

\* The queue is what lies between the two indexes, before and after a step.
LEMMA QueueIsBetween ==
  /\ Queue = Between(rbuffer, rbuffirst, rbuflast)
  /\ Queue' = Between(rbuffer', rbuffirst', rbuflast')
  BY DEF Queue, Waiting, Between

\* An interrupt adds a frame at the end, refuses it when there is no room, or leaves
\* the queue as it is.
LEMMA ReceptionRefines ==
  ASSUME QInv, NEW f \in Frames, NEW crcFail \in BOOLEAN, ItReceiveFrame(f, crcFail)
  PROVE  FifoNext
  <1> USE DEF ItReceiveFrame
  <1>1. /\ rbuffer \in [Indices -> Frames] /\ rbuffirst \in Indices /\ rbuflast \in Indices
        /\ rxframe = rbuflast
    BY DEF QInv, ZInv, TypeOK, Apart
  <1>2. Size \in Nat \ {0} BY ZigAssumption
  <1>3. Len(Queue) = (rbuflast - rbuffirst) % Size BY <1>1, BetweenIsSequence, QueueIsBetween
  <1>4. Len(Queue) = Size - 1 <=> Overrun
    <2>1. Len(Queue) = IF rbuffirst <= rbuflast THEN rbuflast - rbuffirst
                       ELSE rbuflast - rbuffirst + Size
      BY <1>1, <1>3, Distance
    <2>2. Succ(rbuflast) = IF rbuflast + 1 < Size THEN rbuflast + 1 ELSE 0 BY <1>1, SuccValue
    <2>q. QED BY <1>1, <1>2, <2>1, <2>2 DEF Overrun, Indices
  <1>5. Len(Queue) <= Size - 1
    BY <1>1, <1>2, <1>3, Distance DEF Indices
  <1>6. UNCHANGED <<rbuffirst, held>> BY DEF program
  <1>7. CASE ~ crcFail /\ ~ Overrun
    <2>1. rbuffer' = [rbuffer EXCEPT ![rbuflast] = f] /\ rbuflast' = Succ(rbuflast)
      BY <1>1, <1>7
    <2>2. Queue' = Append(Queue, f)
      <3>1. Succ(rbuflast) # rbuffirst /\ rbuffirst' = rbuffirst BY <1>6, <1>7 DEF Overrun
      <3>2. Between([rbuffer EXCEPT ![rbuflast] = f], rbuffirst, Succ(rbuflast))
              = Append(Between(rbuffer, rbuffirst, rbuflast), f)
        BY <1>1, <3>1, AddedAtEnd
      <3>q. QED BY <2>1, <3>1, <3>2, QueueIsBetween
    <2>3. Len(Queue) < Size - 1
      <3>1. Len(Queue) \in Int BY <1>1, <1>2, <1>3, Distance DEF Indices
      <3>q. QED BY <1>2, <1>4, <1>5, <1>7, <3>1
    <2>4. overrun' = FALSE BY <1>7
    <2>5. Fifo!Accept(f) BY <1>6, <2>2, <2>3, <2>4 DEF Fifo!Accept
    <2>q. QED BY <2>5 DEF FifoNext
  <1>8. CASE crcFail \/ Overrun
    <2>1. rbuffer' = [rbuffer EXCEPT ![rbuflast] = f] /\ rbuflast' = rbuflast
      BY <1>1, <1>8
    <2>2. \A k \in 1..((rbuflast - rbuffirst) % Size) :
            rbuffer'[(rbuffirst + k - 1) % Size] = rbuffer[(rbuffirst + k - 1) % Size]
      <3> SUFFICES ASSUME NEW k \in 1..((rbuflast - rbuffirst) % Size)
                   PROVE  (rbuffirst + k - 1) % Size # rbuflast
        BY <1>1, <2>1
      <3> DEFINE n == (rbuflast - rbuffirst) % Size
                 p == (rbuffirst + (k - 1)) % Size
      <3>1. n = IF rbuffirst <= rbuflast THEN rbuflast - rbuffirst
                ELSE rbuflast - rbuffirst + Size
        BY <1>1, Distance
      <3>2. k \in Nat \ {0} /\ k <= n /\ k - 1 \in Indices
            /\ rbuffirst + k - 1 = rbuffirst + (k - 1)
        <4> HIDE DEF n
        <4>q. QED BY <1>1, <1>2, <3>1 DEF Indices, n
      <3>3. p = IF rbuffirst + (k - 1) < Size THEN rbuffirst + (k - 1)
                ELSE rbuffirst + (k - 1) - Size
        BY <1>1, <3>2, Place
      <3>4. p # rbuflast
        <4> HIDE DEF n, p
        <4>q. QED BY <1>1, <1>2, <3>1, <3>2, <3>3 DEF Indices
      <3>q. QED BY <3>2, <3>4
    <2>3. Queue' = Queue BY <1>6, <2>1, <2>2, QueueIsBetween DEF Between
    <2>4. CASE crcFail = FALSE
      <3>1. overrun' = TRUE /\ Len(Queue) = Size - 1 BY <1>4, <1>8, <2>4
      <3>2. Fifo!Refuse BY <1>6, <2>3, <3>1 DEF Fifo!Refuse
      <3>q. QED BY <3>2 DEF FifoNext
    <2>5. CASE crcFail = TRUE
      <3>1. overrun' = FALSE BY <2>5
      <3>2. Fifo!Damaged BY <1>6, <2>3, <3>1 DEF Fifo!Damaged
      <3>q. QED BY <3>2 DEF FifoNext
    <2>q. QED BY <2>4, <2>5
  <1>q. QED BY <1>7, <1>8

\* The frame at the head is read where it is, and removed at the next call.
LEMMA ReadRefines ==
  ASSUME QInv, SkipReceived \/ GetReceived
  PROVE  FifoNext \/ UNCHANGED Fifo!queueVars
  <1>1. /\ rbuffer \in [Indices -> Frames] /\ rbuffirst \in Indices /\ rbuflast \in Indices
        /\ curframe # None => curframe = rbuffirst /\ rbuffirst # rbuflast
        /\ curframe # None => rbuffer[curframe] = held
        /\ held = None <=> curframe = None
        /\ pc = "get" => curframe = None
    BY DEF QInv, ZInv, TypeOK, Apart, FrameKept, Reading, Phase
  <1>2. CASE SkipReceived
    <2> USE <1>2 DEF SkipReceived
    <2>1. CASE curframe # None
      <3>1. rbuffirst # rbuflast /\ rbuffer[rbuffirst] = held BY <1>1, <2>1
      <3>2. Queue # << >> /\ Head(Queue) = held /\ Queue' = Tail(Queue)
        <4>1. rbuffirst' = Succ(rbuffirst) /\ rbuffer' = rbuffer /\ rbuflast' = rbuflast
          BY <2>1, <3>1
        <4>q. QED BY <1>1, <3>1, <4>1, RemovedAtHead, QueueIsBetween
      <3>3. Fifo!Remove BY <3>2 DEF Fifo!Remove
      <3>q. QED BY <3>3 DEF FifoNext
    <2>2. CASE curframe = None
      <3>1. UNCHANGED <<rbuffer, rbuffirst, rbuflast, held, overrun>> BY <1>1, <2>2
      <3>2. Queue' = Queue BY <3>1, QueueIsBetween
      <3>q. QED BY <3>1, <3>2 DEF Fifo!queueVars
    <2>q. QED BY <2>1, <2>2
  <1>3. CASE GetReceived
    <2> USE <1>3 DEF GetReceived
    <2>1. UNCHANGED <<rbuffer, rbuffirst, rbuflast, overrun>> BY DEF ring
    <2>2. Queue' = Queue BY <2>1, QueueIsBetween
    <2>3. CASE rbuffirst = rbuflast
      BY <2>1, <2>2, <2>3 DEF Fifo!queueVars
    <2>4. CASE rbuffirst # rbuflast
      <3>1. held = None /\ held' = rbuffer[rbuffirst] BY <1>1, <2>4
      <3>2. Queue # << >> /\ Head(Queue) = held'
        BY <1>1, <2>4, <3>1, RemovedAtHead, QueueIsBetween
      <3>3. Fifo!Read BY <2>1, <2>2, <3>1, <3>2 DEF Fifo!Read
      <3>q. QED BY <3>3 DEF FifoNext
    <2>q. QED BY <2>3, <2>4
  <1>q. QED BY <1>2, <1>3

\* The steps of a transmission leave the queue alone.
LEMMA OthersRefine ==
  ASSUME UNCHANGED vars \/ ItTxDone \/ Processed
           \/ SetTxAuto \/ StartWriting \/ RadioSendFrame \/ SetRxAuto
  PROVE  UNCHANGED Fifo!queueVars
  <1>1. UNCHANGED <<rbuffer, rbuffirst, rbuflast, held, overrun>>
    BY DEF ItTxDone, Processed, SetTxAuto, StartWriting, RadioSendFrame, SetRxAuto, vars,
           ring, program
  <1>2. Queue' = Queue BY <1>1, QueueIsBetween
  <1>q. QED BY <1>1, <1>2 DEF Fifo!queueVars

\* For a buffer of any size, the circular buffer and the interrupts that fill it
\* implement the queue of Size - 1 frames: a frame is refused only when the queue is
\* full, and what is accepted is read in order, in place, each frame once.
THEOREM BufferRefinesQueue == Spec => BufferIsQueue
  <1>1. Init => Fifo!QueueInit
    <2> SUFFICES ASSUME Init PROVE Fifo!QueueInit OBVIOUS
    <2>1. 0 \in Indices /\ rbuffer \in [Indices -> Frames] /\ rbuffirst = 0 /\ rbuflast = 0
      BY ZigAssumption DEF Init, Indices
    <2>2. (0 - 0) % Size = 0 BY <2>1, Distance, ZigAssumption
    <2>3. Queue \in Seq(Frames) /\ Len(Queue) = 0
      BY <2>1, <2>2, BetweenIsSequence, QueueIsBetween
    <2>4. Queue = << >> BY <2>3
    <2>q. QED BY <2>4 DEF Fifo!QueueInit, Init
  <1>2. QInv /\ [Next]_vars => [FifoNext]_(Fifo!queueVars)
    BY ReceptionRefines, ReadRefines, OthersRefine DEF Next, Program
  <1>q. QED BY <1>1, <1>2, QInvAlways, PTL DEF Spec, BufferIsQueue, Fifo!Spec, FifoNext
===========================================================================
