------------------------ MODULE CMasterEngine_proofs ------------------------
(***************************************************************************)
(* Proofs about CMasterEngine, for any number of slaves, addresses,        *)
(* messages and HTTP threads, every TTL, interval and lifetime, whether    *)
(* sends fail or not and threads are punctual or not.                      *)
(***************************************************************************)
EXTENDS CMasterEngine, FiniteSetTheorems, WellFoundedInduction, TLAPS

(* ---------------------------------------------------------------------- *)
(* The date of the next action *)

\* A finite set of integers that is not empty has a minimum.
LEMMA FiniteMin ==
  ASSUME NEW S \in SUBSET Int, IsFiniteSet(S), S # {}
  PROVE  Min(S) \in S /\ \A y \in S : Min(S) <= y
  <1> DEFINE Below(x) == {y \in S : y <= x}
             R == StrictSubsetOrdering(S)
             B == {Below(x) : x \in S}
  <1>1. \E b \in B : \A c \in B : ~ (<<c, b>> \in R)
    <2>1. IsWellFoundedOn(R, FiniteSubsetsOf(S))
      BY FS_StrictSubsetOrderingWellFounded
    <2>2. B \subseteq SUBSET S /\ B # {}
      <3>1. \A x \in S : Below(x) \in SUBSET S
        OBVIOUS
      <3> HIDE DEF Below
      <3> QED BY <3>1
    <2>3. SUBSET S = FiniteSubsetsOf(S)
      BY FS_FiniteSubsetsOfFinite
    <2> HIDE DEF R, B
    <2>4. B \subseteq FiniteSubsetsOf(S) /\ B # {}
      BY <2>2, <2>3
    <2> QED BY <2>1, <2>4, WFMin
  <1>2. PICK x \in S : \A c \in B : <<c, Below(x)>> \notin R
    BY <1>1
  <1>3. ASSUME NEW z \in S, z < x
        PROVE  FALSE
    <2>1. Below(z) \subseteq Below(x) /\ x \in Below(x) /\ x \notin Below(z)
      <3>1. z \in Int /\ x \in Int /\ \A y \in S : y \in Int
        OBVIOUS
      <3>2. x <= x /\ ~ (x <= z) /\ \A y \in S : y <= z => y <= x
        BY <1>3, <3>1
      <3> QED BY <3>2
    <2>2. Below(z) \in SUBSET S /\ Below(x) \in SUBSET S
      OBVIOUS
    <2> HIDE DEF Below
    <2>3. <<Below(z), Below(x)>> \in R
      BY <2>1, <2>2 DEF StrictSubsetOrdering
    <2> QED BY <1>2, <2>3
  <1>4. \A y \in S : x <= y
    BY <1>3
  <1> HIDE DEF Below, R, B
  <1> QED BY <1>4 DEF Min

\* The image of a finite set by a function is finite.
LEMMA FiniteImage ==
  ASSUME NEW A, IsFiniteSet(A), NEW f
  PROVE  IsFiniteSet({f[x] : x \in A})
  <1> DEFINE T == {f[x] : x \in A}
             g == [x \in A |-> f[x]]
  <1>1. g \in Surjection(A, T)
    BY DEF Surjection
  <1> QED BY <1>1, FS_Surjection

\* The date of the next action is the earliest of the dates it is computed from.
LEMMA NextDateLeast ==
  ASSUME TypeOK, NEW ms \in [Slots -> MsgType]
  PROVE  /\ NextDate(ms) \in Int
         /\ NextDate(ms) <= hello
         /\ \A s \in Slaves : slaves[s].status = "RUNNING" => NextDate(ms) <= slaves[s].left
         /\ \/ NextDate(ms) = hello
            \/ \E s \in Slaves : slaves[s].status = "RUNNING" /\ NextDate(ms) = slaves[s].left
            \/ NextDate(ms) >= 0
  <1> DEFINE running == {s \in Slaves : slaves[s].status = "RUNNING"}
             pending == {i \in Slots : ms[i].listed /\ Pending(ms[i])}
             left == [s \in Slaves |-> slaves[s].left]
             next == [i \in Slots |-> ms[i].next]
             L == {left[s] : s \in running}
             N == {next[i] : i \in pending}
             S == {hello} \cup L \cup N
  <1>1. IsFiniteSet(running) /\ IsFiniteSet(pending)
    BY EngineAssumption, FS_Subset
  <1>2. S \in SUBSET Int /\ S # {}
    BY DEF TypeOK, SlaveType, MsgType
  <1>3. NextDate(ms) = Min(S)
    <2>1. /\ {slaves[s].left : s \in running} = L
          /\ {ms[i].next : i \in pending} = N
      OBVIOUS
    <2> QED BY <2>1 DEF NextDate
  <1>4. /\ hello \in S
        /\ \A s \in Slaves : slaves[s].status = "RUNNING" => slaves[s].left \in S
        /\ \A x \in S :
             \/ x = hello
             \/ \E s \in Slaves : slaves[s].status = "RUNNING" /\ x = slaves[s].left
             \/ x >= 0
    <2>1. \A i \in Slots : next[i] \in Nat
      BY DEF MsgType
    <2>2. \A x \in N : x >= 0
      <3> HIDE DEF next
      <3> QED BY <2>1
    <2>3. \A x \in L : \E s \in Slaves : slaves[s].status = "RUNNING" /\ x = slaves[s].left
      OBVIOUS
    <2>4. \A s \in Slaves : slaves[s].status = "RUNNING" => slaves[s].left \in L
      OBVIOUS
    <2> HIDE DEF L, N
    <2> QED BY <2>2, <2>3, <2>4
  <1> HIDE DEF running, pending, left, next
  <1>5. IsFiniteSet(L) /\ IsFiniteSet(N)
    BY <1>1, FiniteImage
  <1> HIDE DEF L, N
  <1>6. IsFiniteSet(S)
    BY <1>5, FS_Singleton, FS_Union
  <1> HIDE DEF S
  <1>7. Min(S) \in S /\ Min(S) \in Int /\ \A y \in S : Min(S) <= y
    BY <1>2, <1>6, FiniteMin
  <1> QED BY <1>3, <1>4, <1>7

(* ---------------------------------------------------------------------- *)
(* Type correctness *)

SenderType ==
  [pc : {"waiting", "transmit", "sleep"}, wait : Int, todo : SUBSET Slots,
   sending : Slots \cup {None}, count : Nat]

ReceiverType ==
  [pc : {"recv", "correlate", "link", "wakeup", "process"}, peer : Slaves \cup {None},
   frame : {"none", "discover", "resources", "garbage", "reply"},
   id : Slots \cup {None}, org : Slots \cup {None}]

ThreadType ==
  [pc : {"idle", "prepare", "submit", "submitted", "waiting"},
   msg : Slots \cup {None}, left : Nat]

\* The type invariant, in parts.
LEMMA TypeParts ==
  TypeOK <=> /\ slaves \in [Slaves -> SlaveType]
             /\ msgs \in [Slots -> MsgType]
             /\ hello \in Int
             /\ sender \in SenderType
             /\ receiver \in ReceiverType
             /\ threads \in [Threads -> ThreadType]
             /\ crash \in {"none", "send", "assert", "wakeup", "http"}
  BY DEF TypeOK, SenderType, ReceiverType, ThreadType

\* The values that actions give to messages, slaves and threads are typed.
LEMMA ValuesType ==
  /\ NoMsg \in MsgType /\ Inactive \in SlaveType
  /\ ReceiverIdle \in ReceiverType /\ ThreadIdle \in ThreadType
  /\ \A kind \in {"assoc", "request"}, peer \in Slaves \cup {None} :
        NewMsg(kind, peer) \in MsgType
  <1>1. NoMsg \in MsgType
    BY DEF NoMsg, MsgType
  <1>2. Inactive \in SlaveType
    BY DEF Inactive, SlaveType, Address
  <1>3. ReceiverIdle \in ReceiverType /\ ThreadIdle \in ThreadType
    BY DEF ReceiverIdle, ReceiverType, ThreadIdle, ThreadType
  <1>4. \A kind \in {"assoc", "request"}, peer \in Slaves \cup {None} :
          NewMsg(kind, peer) \in MsgType
    BY <1>1 DEF NewMsg, MsgType
  <1> QED BY <1>1, <1>2, <1>3, <1>4

\* Messages whose waiter or number of frames changes are messages.
LEMMA WaiterUpdate ==
  ASSUME NEW m \in MsgType, NEW w \in Threads \cup {None}
  PROVE  [m EXCEPT !.waiter = w] \in MsgType
  BY DEF MsgType

\* Likewise, for a frame more on the network.
LEMMA SentUpdate ==
  ASSUME NEW m \in MsgType
  PROVE  [m EXCEPT !.sent = @ + 1] \in MsgType
  BY DEF MsgType

\* Likewise, for the counter and the answers.
LEMMA AnswersUpdate ==
  ASSUME NEW m \in MsgType, NEW a \in Nat, NEW n \in Nat
  PROVE  [m EXCEPT !.answers = a, !.ntrans = n] \in MsgType
  BY DEF MsgType

\* So are the messages that have been sent, answered or removed from the list.
LEMMA MessageStepsType ==
  ASSUME NEW m \in MsgType
  PROVE  /\ \A n \in Nat, first \in FirstTimeouts : Counted(m, n, first) \in MsgType
         /\ Answered(m) \in MsgType
         /\ \A r \in BOOLEAN : Delisted(m, r) \in MsgType
  <1>0. m.answers + 1 \in Nat /\ MaxRetransmit \in Nat /\ m.expire \in Int
    BY EngineAssumption DEF MsgType
  <1>1. ASSUME NEW n \in Nat, NEW first \in FirstTimeouts
        PROVE  Counted(m, n, first) \in MsgType
    <2> DEFINE timeout == IF Unsent(m) THEN first ELSE 2 * m.timeout
               expire == IF Unsent(m) THEN Lifetime ELSE m.expire
               ntrans == n + 1
    <2>1. ntrans \in Nat /\ timeout \in Nat /\ expire \in Int
      BY <1>0, EngineAssumption DEF MsgType
    <2>2. Counted(m, n, first) =
            [m EXCEPT !.ntrans = ntrans, !.timeout = timeout, !.next = timeout,
                      !.expire = expire]
      BY DEF Counted, MsgType
    <2> HIDE DEF timeout, expire, ntrans
    <2>3. [m EXCEPT !.ntrans = ntrans, !.timeout = timeout, !.next = timeout,
                    !.expire = expire] \in MsgType
      BY <2>1 DEF MsgType
    <2> QED BY <2>2, <2>3
  <1>2. Answered(m) \in MsgType
    <2>1. Answered(m) = [m EXCEPT !.answers = m.answers + 1, !.ntrans = MaxRetransmit]
      BY DEF Answered, MsgType
    <2> QED BY <1>0, <2>1, AnswersUpdate
  <1>3. \A r \in BOOLEAN : Delisted(m, r) \in MsgType
    <2> DEFINE l == FALSE
               z == 0
    <2>1. l \in BOOLEAN /\ z \in Nat /\ z \in Int
      OBVIOUS
    <2>2. \A r \in BOOLEAN :
            Delisted(m, r) = IF r THEN [m EXCEPT !.listed = l, !.next = z, !.expire = z] ELSE NoMsg
      BY DEF Delisted
    <2> HIDE DEF l, z
    <2>3. [m EXCEPT !.listed = l, !.next = z, !.expire = z] \in MsgType
      BY <2>1 DEF MsgType
    <2> QED BY <2>2, <2>3, ValuesType
  <1> QED BY <1>1, <1>2, <1>3

\* So are those whose dates come nearer.
LEMMA ElapseType ==
  ASSUME NEW m \in MsgType
  PROVE  [m EXCEPT !.next = NonNeg(@ - 1), !.expire = AtLeast(@ - 1, -1)] \in MsgType
  <1> DEFINE n == NonNeg(m.next - 1)
             e == AtLeast(m.expire - 1, -1)
  <1>1. n \in Nat /\ e \in Int
    BY DEF NonNeg, AtLeast, MsgType
  <1> HIDE DEF n, e
  <1>2. [m EXCEPT !.next = n, !.expire = e] \in MsgType
    BY <1>1 DEF MsgType
  <1> QED BY <1>2 DEF n, e

\* add_request puts a message in the list.
LEMMA AddRequestType ==
  ASSUME msgs \in [Slots -> MsgType], sender \in SenderType,
         NEW i, NEW m, m \in MsgType \/ i \notin Slots, AddRequest(i, m)
  PROVE  msgs' \in [Slots -> MsgType] /\ sender' \in SenderType
  <1>1. m \in MsgType => [m EXCEPT !.listed = TRUE] \in MsgType
    BY DEF MsgType
  <1>2. msgs' \in [Slots -> MsgType]
    BY <1>1 DEF AddRequest
  <1>3. sender' \in SenderType
    BY DEF AddRequest, SenderType
  <1> QED BY <1>2, <1>3

\* Every step of the engine is typed.
LEMMA TypeStep ==
  ASSUME TypeOK, [Next]_vars
  PROVE  TypeOK'
  <1>0. /\ slaves \in [Slaves -> SlaveType] /\ msgs \in [Slots -> MsgType]
        /\ hello \in Int /\ sender \in SenderType /\ receiver \in ReceiverType
        /\ threads \in [Threads -> ThreadType]
        /\ crash \in {"none", "send", "assert", "wakeup", "http"}
    BY TypeParts
  <1> DEFINE
    Typed == /\ slaves' \in [Slaves -> SlaveType] /\ msgs' \in [Slots -> MsgType]
             /\ hello' \in Int /\ sender' \in SenderType /\ receiver' \in ReceiverType
             /\ threads' \in [Threads -> ThreadType]
             /\ crash' \in {"none", "send", "assert", "wakeup", "http"}
  <1> SUFFICES Typed
    BY DEF TypeOK, SenderType, ReceiverType, ThreadType
  <1>a. /\ HelloInterval \in Int /\ Lifetime \in Nat /\ Ttl \in Int
    BY EngineAssumption
  <1>1. CASE UNCHANGED vars \/ Crashed
    BY <1>0, <1>1 DEF vars, Crashed
  <1>2. CASE SenderWakes
    <2>1. slaves' \in [Slaves -> SlaveType]
      BY <1>0, <1>2, ValuesType DEF SenderWakes, Reset
    <2>2. sender' \in SenderType
      <3>1. Listed \in SUBSET Slots
        BY DEF Listed
      <3> DEFINE L == Listed
                 now == 0
      <3>2. /\ sender' = [sender EXCEPT !.pc = "transmit", !.wait = now, !.todo = L]
            /\ L \in SUBSET Slots /\ now \in Int
        BY <1>2, <3>1 DEF SenderWakes
      <3> HIDE DEF L, now
      <3> QED BY <1>0, <3>2 DEF SenderType
    <2> QED BY <1>0, <1>2, <1>a, <2>1, <2>2 DEF SenderWakes
  <1>3. CASE \E i \in Slots : SenderTransmits(i)
    <2>1. PICK i \in Slots : SenderTransmits(i)
      BY <1>3
    <2>2. msgs' \in [Slots -> MsgType]
      BY <1>0, <2>1, SentUpdate DEF SenderTransmits
    <2>3. sender' \in SenderType
      <3>1. msgs[i].ntrans \in Nat
        BY <1>0, <2>1 DEF MsgType
      <3> QED BY <1>0, <2>1, <3>1 DEF SenderTransmits, SenderType
    <2> QED BY <1>0, <2>1, <2>2, <2>3 DEF SenderTransmits
  <1>4. CASE SenderCounts
    <2>1. msgs' \in [Slots -> MsgType]
      <3>1. sender.sending \in Slots
        BY <1>0, <1>4 DEF SenderCounts, SenderType
      <3>2. sender.count \in Nat /\ msgs[sender.sending].ntrans \in Nat
        BY <1>0, <3>1 DEF SenderType, MsgType
      <3> QED BY <1>0, <1>4, <3>1, <3>2, MessageStepsType DEF SenderCounts
    <2>2. sender' \in SenderType
      BY <1>0, <1>4 DEF SenderCounts, SenderType
    <2> QED BY <1>0, <1>4, <2>1, <2>2 DEF SenderCounts
  <1>5. CASE SenderPurges
    <2>1. msgs' \in [Slots -> MsgType]
      <3>1. \A i \in Slots : Referenced(i) \in BOOLEAN
        BY DEF Referenced
      <3>2. \A i \in Slots : Delisted(msgs[i], Referenced(i)) \in MsgType
        BY <1>0, <3>1, MessageStepsType
      <3> QED BY <1>0, <1>5, <3>2 DEF SenderPurges
    <2>2. sender' \in SenderType
      <3>1. NextDate(msgs') \in Int
        BY <2>1, NextDateLeast
      <3> QED BY <1>0, <1>5, <3>1 DEF SenderPurges, SenderType
    <2> QED BY <1>0, <1>5, <2>1, <2>2 DEF SenderPurges
  <1>6. CASE SenderSleeps
    BY <1>0, <1>6 DEF SenderSleeps, SenderType
  <1>7. CASE Network
    <2>1. PICK a \in Addrs : \/ \E sid \in Slaves : ReceiveDiscover(a, sid)
                             \/ \E i \in Slots : ReceiveAnswer(a, i)
      BY <1>7 DEF Network
    <2>2. CASE \E sid \in Slaves : ReceiveDiscover(a, sid)
      <3>1. PICK sid \in Slaves : ReceiveDiscover(a, sid)
        BY <2>2
      <3>2. slaves' \in [Slaves -> SlaveType]
        <4>1. [slaves[sid] EXCEPT !.addr = a] \in SlaveType
          BY <1>0, <2>1, <3>1 DEF SlaveType, Address
        <4>2. slaves' = slaves \/ slaves' = [slaves EXCEPT ![sid] = [slaves[sid] EXCEPT !.addr = a]]
          BY <1>0, <3>1 DEF ReceiveDiscover
        <4> QED BY <1>0, <4>1, <4>2
      <3>3. receiver' \in ReceiverType
        BY <3>1 DEF ReceiveDiscover, ReceiverIdle, ReceiverType
      <3> QED BY <1>0, <3>1, <3>2, <3>3 DEF ReceiveDiscover
    <2>3. CASE \E i \in Slots : ReceiveAnswer(a, i)
      <3>1. PICK i \in Slots : ReceiveAnswer(a, i)
        BY <2>3
      <3>2. receiver' \in ReceiverType
        BY <3>1 DEF ReceiveAnswer, ReceiverIdle, ReceiverType
      <3> QED BY <1>0, <3>1, <3>2 DEF ReceiveAnswer
    <2> QED BY <2>1, <2>2, <2>3
  <1>8. CASE Correlate
    <2>1. receiver' \in ReceiverType
      BY <1>0, <1>8, ValuesType DEF Correlate, ReceiverType
    <2> QED BY <1>0, <1>8, <2>1 DEF Correlate
  <1>9. CASE Link
    <2>1. receiver' \in ReceiverType
      BY <1>0, <1>9, ValuesType DEF Link, ReceiverType
    <2>2. msgs' \in [Slots -> MsgType]
      BY <1>0, <1>9, MessageStepsType DEF Link
    <2> QED BY <1>0, <1>9, <2>1, <2>2 DEF Link
  <1>10. CASE WakeUp
    <2>1. threads' \in [Threads -> ThreadType]
      BY <1>0, <1>10 DEF WakeUp, ThreadType
    <2> QED BY <1>0, <1>10, <2>1, ValuesType DEF WakeUp
  <1>11. CASE Process
    <2>1. slaves' \in [Slaves -> SlaveType]
      <3>1. ASSUME NEW sid \in Slaves
            PROVE  Associated(slaves[sid]) \in SlaveType
        <4>1. slaves[sid] \in SlaveType
          BY <1>0
        <4> QED BY <4>1, <1>a DEF Associated, SlaveType
      <3>2. \/ slaves' = slaves
            \/ slaves' = [slaves EXCEPT ![receiver.peer] = Associated(slaves[receiver.peer])]
        BY <1>11 DEF Process
      <3> QED BY <1>0, <3>1, <3>2
    <2>2. msgs' \in [Slots -> MsgType] /\ sender' \in SenderType
      BY <1>0, <1>11, AddRequestType, ValuesType DEF Process, ReceiverType
    <2> QED BY <1>0, <1>11, <2>1, <2>2, ValuesType DEF Process
  <1>12. CASE \E t \in Threads, s \in Slaves, i \in Slots : HttpRequest(t, s, i)
    <2>1. PICK t \in Threads, s \in Slaves, i \in Slots : HttpRequest(t, s, i)
      BY <1>12
    <2>2. msgs' \in [Slots -> MsgType]
      BY <1>0, <2>1, ValuesType DEF HttpRequest
    <2>3. threads' \in [Threads -> ThreadType]
      BY <1>0, <2>1 DEF HttpRequest, ThreadType
    <2> QED BY <1>0, <2>1, <2>2, <2>3 DEF HttpRequest
  <1>13. CASE \E t \in Threads : HttpThread(t)
    <2>1. PICK t \in Threads : HttpThread(t)
      BY <1>13
    <2>2. CASE HttpPrepare(t)
      <3>1. msgs' \in [Slots -> MsgType]
        BY <1>0, <2>2, WaiterUpdate DEF HttpPrepare
      <3>2. threads' \in [Threads -> ThreadType]
        BY <1>0, <1>a, <2>2 DEF HttpPrepare, ThreadType
      <3> QED BY <1>0, <2>2, <3>1, <3>2 DEF HttpPrepare
    <2>3. CASE HttpSubmit(t)
      <3>1. msgs' \in [Slots -> MsgType] /\ sender' \in SenderType
        BY <1>0, <2>3, AddRequestType DEF HttpSubmit
      <3>2. threads' \in [Threads -> ThreadType]
        BY <1>0, <2>3 DEF HttpSubmit, ThreadType
      <3> QED BY <1>0, <2>3, <3>1, <3>2 DEF HttpSubmit
    <2>4. CASE HttpWait(t)
      <3>1. threads' \in [Threads -> ThreadType]
        BY <1>0, <2>4 DEF HttpWait, ThreadType
      <3> QED BY <1>0, <2>4, <3>1 DEF HttpWait
    <2>5. CASE HttpReturn(t)
      <3>1. msgs' \in [Slots -> MsgType]
        BY <1>0, <2>5, WaiterUpdate, ValuesType DEF HttpReturn
      <3>2. threads' \in [Threads -> ThreadType]
        BY <1>0, <2>5, ValuesType DEF HttpReturn
      <3> QED BY <1>0, <2>5, <3>1, <3>2 DEF HttpReturn
    <2> QED BY <2>1, <2>2, <2>3, <2>4, <2>5 DEF HttpThread
  <1>14. CASE Tick
    <2>1. slaves' \in [Slaves -> SlaveType]
      <3>1. \A s \in Slaves : [slaves[s] EXCEPT !.left = @ - 1] \in SlaveType
        BY <1>0 DEF SlaveType
      <3> QED BY <1>0, <1>14, <3>1 DEF Tick
    <2>2. msgs' \in [Slots -> MsgType]
      BY <1>0, <1>14, ElapseType DEF Tick
    <2>3. sender' \in SenderType /\ hello' \in Int
      <3>1. [sender EXCEPT !.wait = @ - 1] \in SenderType
        BY <1>0 DEF SenderType
      <3>2. hello - 1 \in Int
        BY <1>0
      <3> QED BY <1>14, <3>1, <3>2 DEF Tick
    <2>4. threads' \in [Threads -> ThreadType]
      <3>1. \A t \in Threads : [threads[t] EXCEPT !.left = NonNeg(@ - 1)] \in ThreadType
        BY <1>0 DEF ThreadType, NonNeg
      <3> QED BY <1>14, <3>1 DEF Tick
    <2> QED BY <1>0, <1>14, <2>1, <2>2, <2>3, <2>4 DEF Tick
  <1> HIDE DEF Typed
  <1> QED
    BY <1>1, <1>2, <1>3, <1>4, <1>5, <1>6, <1>7, <1>8, <1>9, <1>10, <1>11, <1>12, <1>13, <1>14
    DEF Next, Sender, Receiver, Http

\* What the engine starts from is typed.
LEMMA InitType == Init => TypeOK
  <1> SUFFICES ASSUME Init
               PROVE  TypeOK
    OBVIOUS
  <1>1. 0..FirstHello \subseteq Int
    BY EngineAssumption
  <1>2. sender \in SenderType
    BY DEF Init, SenderType
  <1>3. hello \in Int
    BY <1>1 DEF Init
  <1> QED BY <1>2, <1>3, ValuesType, TypeParts DEF Init

(***************************************************************************)
(* Type correctness of the engine, whatever the number of its threads.     *)
(***************************************************************************)
THEOREM EngineTypeCorrect == Spec => []TypeOK
  <1> QED BY InitType, TypeStep, PTL DEF Spec

(***************************************************************************)
(* The inductive invariant.                                                *)
(***************************************************************************)
\* The message that is being sent stays in the list, and on the way of the
\* sender through it, until it is counted: only the sender removes messages.
Sending ==
  sender.sending # None =>
    /\ sender.pc = "transmit"
    /\ sender.sending \in sender.todo
    /\ msgs[sender.sending].listed

\* No frame is ahead of its count, but the one of the message that is being
\* sent.  The count of that one may have been overtaken by a stop, and the
\* increment may forget the stop, but never the count it has read.
Counting ==
  \A i \in Slots :
    /\ msgs[i].sent <= MaxRetransmit
    /\ i # sender.sending => msgs[i].sent <= msgs[i].ntrans
    /\ i = sender.sending => /\ msgs[i].sent <= sender.count + 1
                             /\ sender.count <= msgs[i].ntrans
                             /\ sender.count < MaxRetransmit

\* A message of the list that has never been sent is on the way of the sender,
\* or its addition has put an end to the sender's wait.
Tried ==
  ~ SendFails =>
    \A i \in Slots :
      msgs[i].listed /\ Unsent(msgs[i]) =>
        \/ sender.pc = "transmit" /\ i \in sender.todo
        \/ SenderWaiting /\ sender.wait <= 0

EInv == TypeOK /\ Sending /\ Counting /\ Tried /\ AddressesDistinct

\* A step that leaves the sender where it is, keeps the messages or replaces
\* them by new ones, and stops their retransmissions at most, keeps Counting.
LEMMA CountingKept ==
  ASSUME TypeOK, TypeOK', Counting,
         sender'.sending = sender.sending, sender'.count = sender.count,
         \A i \in Slots :
           \/ /\ msgs'[i].sent = msgs[i].sent
              /\ msgs'[i].ntrans \in {msgs[i].ntrans, MaxRetransmit}
           \/ /\ i # sender.sending
              /\ msgs'[i].sent = 0
  PROVE  Counting'
  <1> SUFFICES ASSUME NEW i \in Slots
               PROVE  /\ msgs'[i].sent <= MaxRetransmit
                      /\ i # sender.sending => msgs'[i].sent <= msgs'[i].ntrans
                      /\ i = sender.sending => /\ msgs'[i].sent <= sender.count + 1
                                               /\ sender.count <= msgs'[i].ntrans
                                               /\ sender.count < MaxRetransmit
    BY DEF Counting
  <1>1. /\ MaxRetransmit \in Nat /\ sender.count \in Nat
        /\ msgs[i].sent \in Nat /\ msgs[i].ntrans \in Nat
        /\ msgs'[i].sent \in Nat /\ msgs'[i].ntrans \in Nat
    BY EngineAssumption DEF TypeOK, MsgType
  <1> QED BY <1>1 DEF Counting

\* A step that leaves the sender where it is, does not prolong its wait and adds
\* no message that has never been sent, keeps Tried.
LEMMA TriedKept ==
  ASSUME TypeOK, TypeOK', Tried,
         sender'.pc = sender.pc, sender'.todo = sender.todo,
         sender.wait <= 0 => sender'.wait <= 0,
         \A i \in Slots : msgs'[i].listed /\ msgs'[i].ntrans = 0 =>
                            msgs[i].listed /\ msgs[i].ntrans = 0
  PROVE  Tried'
  BY DEF Tried, Unsent, SenderWaiting

\* What the operations on messages do to the fields the invariant is about.
LEMMA MessageFields ==
  /\ NoMsg.sent = 0 /\ ~ NoMsg.listed
  /\ \A kind, peer : /\ NewMsg(kind, peer).sent = 0 /\ ~ NewMsg(kind, peer).listed
  /\ \A m \in MsgType :
       /\ \A n \in Nat, first \in FirstTimeouts :
            /\ Counted(m, n, first).ntrans = n + 1
            /\ Counted(m, n, first).sent = m.sent
            /\ Counted(m, n, first).listed = m.listed
       /\ Answered(m).ntrans = MaxRetransmit /\ Answered(m).sent = m.sent
       /\ Answered(m).listed = m.listed
       /\ \A r \in BOOLEAN :
            /\ ~ Delisted(m, r).listed
            /\ \/ Delisted(m, r) = NoMsg
               \/ /\ Delisted(m, r).ntrans = m.ntrans /\ Delisted(m, r).sent = m.sent
  <1>1. /\ NoMsg.sent = 0 /\ ~ NoMsg.listed
        /\ \A kind, peer : /\ NewMsg(kind, peer).sent = 0 /\ ~ NewMsg(kind, peer).listed
    BY DEF NoMsg, NewMsg
  <1>2. ASSUME NEW m \in MsgType, NEW n \in Nat, NEW first \in FirstTimeouts
        PROVE  /\ Counted(m, n, first).ntrans = n + 1
               /\ Counted(m, n, first).sent = m.sent
               /\ Counted(m, n, first).listed = m.listed
    BY DEF Counted, MsgType
  <1>3. ASSUME NEW m \in MsgType
        PROVE  /\ Answered(m).ntrans = MaxRetransmit /\ Answered(m).sent = m.sent
               /\ Answered(m).listed = m.listed
    BY DEF Answered, MsgType
  <1>4. ASSUME NEW m \in MsgType, NEW r \in BOOLEAN
        PROVE  /\ ~ Delisted(m, r).listed
               /\ \/ Delisted(m, r) = NoMsg
                  \/ /\ Delisted(m, r).ntrans = m.ntrans /\ Delisted(m, r).sent = m.sent
    <2>1. CASE r
      BY <2>1 DEF Delisted, MsgType
    <2>2. CASE ~ r
      BY <1>1, <2>2 DEF Delisted
    <2> QED BY <2>1, <2>2
  <1> QED BY <1>1, <1>2, <1>3, <1>4

\* The sender is not moved by the other threads, which end its wait at most.
LEMMA OthersLeaveSender ==
  ASSUME TypeOK, Receiver \/ Network \/ Http \/ Tick \/ Crashed \/ UNCHANGED vars
  PROVE  /\ sender'.pc = sender.pc /\ sender'.todo = sender.todo
         /\ sender'.sending = sender.sending /\ sender'.count = sender.count
         /\ sender.wait <= 0 => sender'.wait <= 0
  <1>1. sender \in SenderType
    BY TypeParts
  <1>2. UNCHANGED sender \/ sender' = [sender EXCEPT !.wait = 0]
                         \/ sender' = [sender EXCEPT !.wait = @ - 1]
    BY DEF Receiver, Correlate, Link, WakeUp, Process, Network, ReceiveDiscover, ReceiveAnswer,
           Http, HttpRequest, HttpThread, HttpPrepare, HttpSubmit, HttpWait, HttpReturn,
           AddRequest, Tick, Crashed, vars
  <1> QED BY <1>1, <1>2 DEF SenderType

\* What the other threads do to a message: they leave it in the list, stop its
\* retransmission at most, or make a new one in a slot that is out of the list.
LEMMA OthersStepMessage ==
  ASSUME TypeOK, Receiver \/ Network \/ Http \/ Tick \/ Crashed \/ UNCHANGED vars,
         NEW i \in Slots
  PROVE  \/ /\ msgs'[i].sent = msgs[i].sent
            /\ msgs'[i].ntrans \in {msgs[i].ntrans, MaxRetransmit}
            /\ \/ msgs'[i].listed = msgs[i].listed
               \/ MutexFree /\ sender'.wait <= 0
            /\ msgs[i].listed => msgs'[i].listed
         \/ /\ ~ msgs[i].listed
            /\ msgs'[i].sent = 0
            /\ msgs'[i].listed => MutexFree /\ sender'.wait <= 0
  <1> DEFINE Kept == /\ msgs'[i].sent = msgs[i].sent
                     /\ msgs'[i].ntrans \in {msgs[i].ntrans, MaxRetransmit}
                     /\ \/ msgs'[i].listed = msgs[i].listed
                        \/ MutexFree /\ sender'.wait <= 0
                     /\ msgs[i].listed => msgs'[i].listed
             Made == /\ ~ msgs[i].listed
                     /\ msgs'[i].sent = 0
                     /\ msgs'[i].listed => MutexFree /\ sender'.wait <= 0
  <1> SUFFICES Kept \/ Made
    OBVIOUS
  <1>0. msgs \in [Slots -> MsgType] /\ msgs[i] \in MsgType /\ sender \in SenderType
        /\ receiver \in ReceiverType /\ threads \in [Threads -> ThreadType]
    BY TypeParts
  <1>1. CASE UNCHANGED msgs
    BY <1>1
  <1>2. CASE Link
    BY <1>0, <1>2, MessageFields DEF Link, MsgType
  <1>3. CASE Process
    <2>1. CASE UNCHANGED msgs
      BY <2>1
    <2>2. CASE \E j \in Slots : Free(j) /\ AddRequest(j, NewMsg("assoc", receiver.peer))
      <3>1. PICK j \in Slots : Free(j) /\ AddRequest(j, NewMsg("assoc", receiver.peer))
        BY <2>2
      <3>2. MutexFree /\ sender'.wait <= 0
        BY <1>0, <3>1 DEF AddRequest, SenderType
      <3>3. CASE i = j
        BY <1>0, <3>1, <3>2, <3>3 DEF AddRequest, Free, NewMsg, NoMsg
      <3>4. CASE i # j
        BY <1>0, <3>1, <3>4 DEF AddRequest
      <3> QED BY <3>3, <3>4
    <2> QED BY <1>3, <2>1, <2>2 DEF Process
  <1>4. CASE \E t \in Threads, s \in Slaves, j \in Slots : HttpRequest(t, s, j)
    BY <1>0, <1>4, MessageFields DEF HttpRequest, Free
  <1>5. CASE \E t \in Threads : HttpPrepare(t)
    BY <1>0, <1>5 DEF HttpPrepare, MsgType
  <1>6. CASE \E t \in Threads : HttpSubmit(t)
    <2>1. PICK t \in Threads : HttpSubmit(t)
      BY <1>6
    <2>2. MutexFree /\ sender'.wait <= 0
      BY <1>0, <2>1 DEF HttpSubmit, AddRequest, SenderType
    <2>3. msgs' = [msgs EXCEPT ![threads[t].msg] = [msgs[threads[t].msg] EXCEPT !.listed = TRUE]]
      BY <2>1 DEF HttpSubmit, AddRequest
    <2> QED BY <1>0, <2>2, <2>3 DEF MsgType
  <1>7. CASE \E t \in Threads : HttpReturn(t)
    <2>1. PICK t \in Threads : HttpReturn(t)
      BY <1>7
    <2>2. CASE i = threads[t].msg
      <3>1. msgs'[i] = IF msgs[i].listed \/ receiver.org = i
                       THEN [msgs[i] EXCEPT !.waiter = None] ELSE NoMsg
        BY <1>0, <2>1, <2>2 DEF HttpReturn
      <3> QED BY <1>0, <3>1, MessageFields DEF MsgType
    <2>3. CASE i # threads[t].msg
      BY <1>0, <2>1, <2>3 DEF HttpReturn
    <2> QED BY <2>2, <2>3
  <1>8. CASE Tick
    <2> DEFINE next == NonNeg(msgs[i].next - 1)
               expire == AtLeast(msgs[i].expire - 1, -1)
    <2>1. \/ msgs'[i] = msgs[i]
          \/ msgs'[i] = [msgs[i] EXCEPT !.next = next, !.expire = expire]
      BY <1>8 DEF Tick
    <2> HIDE DEF next, expire
    <2>2. /\ msgs'[i].sent = msgs[i].sent /\ msgs'[i].ntrans = msgs[i].ntrans
          /\ msgs'[i].listed = msgs[i].listed
      BY <1>0, <2>1 DEF MsgType
    <2> QED BY <2>2
  <1>9. UNCHANGED msgs \/ Link \/ Process \/ Tick
        \/ (\E t \in Threads, s \in Slaves, j \in Slots : HttpRequest(t, s, j))
        \/ (\E t \in Threads : HttpPrepare(t) \/ HttpSubmit(t) \/ HttpReturn(t))
    BY DEF Receiver, Correlate, WakeUp, Network, ReceiveDiscover, ReceiveAnswer,
           Http, HttpThread, HttpWait, Crashed, vars
  <1> HIDE DEF Kept, Made
  <1> QED BY <1>1, <1>2, <1>3, <1>4, <1>5, <1>6, <1>7, <1>8, <1>9

\* The other threads keep the invariant.
LEMMA OthersStep ==
  ASSUME EInv, TypeOK', Receiver \/ Network \/ Http \/ Tick \/ Crashed \/ UNCHANGED vars
  PROVE  Sending' /\ Counting' /\ Tried'
  <1>0. /\ sender'.pc = sender.pc /\ sender'.todo = sender.todo
        /\ sender'.sending = sender.sending /\ sender'.count = sender.count
        /\ sender.wait <= 0 => sender'.wait <= 0
    BY OthersLeaveSender DEF EInv
  <1>1. \A i \in Slots :
          \/ /\ msgs'[i].sent = msgs[i].sent
             /\ msgs'[i].ntrans \in {msgs[i].ntrans, MaxRetransmit}
             /\ \/ msgs'[i].listed = msgs[i].listed
                \/ MutexFree /\ sender'.wait <= 0
             /\ msgs[i].listed => msgs'[i].listed
          \/ /\ ~ msgs[i].listed
             /\ msgs'[i].sent = 0
             /\ msgs'[i].listed => MutexFree /\ sender'.wait <= 0
    BY OthersStepMessage DEF EInv
  <1>2. MaxRetransmit # 0
    BY EngineAssumption
  <1>3. sender.sending \in Slots \cup {None}
    BY DEF EInv, TypeOK
  <1>4. Sending'
    BY <1>0, <1>1, <1>3 DEF EInv, Sending
  <1>5. Counting'
    <2>1. \A i \in Slots : ~ msgs[i].listed => i # sender.sending
      BY EngineAssumption DEF EInv, Sending
    <2> QED BY <1>0, <1>1, <2>1, CountingKept DEF EInv
  <1>6. Tried'
    BY <1>0, <1>1, <1>2 DEF EInv, Tried, Unsent, MutexFree, SenderWaiting
  <1> QED BY <1>4, <1>5, <1>6

\* So does the sender.
LEMMA SenderStep ==
  ASSUME EInv, TypeOK', Sender
  PROVE  Sending' /\ Counting' /\ Tried'
  <1>0. /\ sender \in SenderType /\ msgs \in [Slots -> MsgType]
        /\ MaxRetransmit \in Nat \ {0} /\ None \notin Slots
    BY TypeParts, EngineAssumption DEF EInv
  <1>1. CASE SenderWakes
    <2>1. UNCHANGED msgs /\ sender'.pc = "transmit" /\ sender'.todo = Listed
          /\ sender'.sending = sender.sending /\ sender'.count = sender.count
      BY <1>0, <1>1 DEF SenderWakes, SenderType
    <2>2. sender.sending = None
      BY <1>1 DEF EInv, Sending, SenderWakes, SenderWaiting
    <2> QED BY <2>1, <2>2 DEF EInv, Sending, Counting, Tried, Listed
  <1>2. ASSUME NEW i \in Slots, SenderTransmits(i)
        PROVE  Sending' /\ Counting' /\ Tried'
    <2>0. sender.pc = "transmit" /\ sender.sending = None /\ i \in sender.todo /\ ToSend(msgs[i])
      BY <1>2 DEF SenderTransmits
    <2>1. CASE UNCHANGED <<msgs, sender>>
      BY <2>1 DEF EInv, Sending, Counting, Tried, SenderWaiting
    <2>2. CASE /\ msgs' = [msgs EXCEPT ![i].sent = @ + 1]
               /\ sender' = [sender EXCEPT !.sending = i, !.count = msgs[i].ntrans]
      <3>1. /\ sender'.pc = "transmit" /\ sender'.todo = sender.todo
            /\ sender'.sending = i /\ sender'.count = msgs[i].ntrans
        BY <1>0, <2>0, <2>2 DEF SenderType
      <3>2. /\ msgs'[i].sent = msgs[i].sent + 1 /\ msgs'[i].ntrans = msgs[i].ntrans
            /\ msgs'[i].listed = msgs[i].listed
            /\ \A j \in Slots : j # i => msgs'[j] = msgs[j]
        BY <1>0, <2>2 DEF MsgType
      <3>3. /\ msgs[i].listed /\ msgs[i].ntrans < MaxRetransmit
            /\ msgs[i].ntrans \in Nat /\ msgs[i].sent \in Nat
        BY <1>0, <2>0 DEF ToSend, Unsent, Pending, MsgType
      <3>4. Sending'
        BY <2>0, <3>1, <3>2, <3>3 DEF Sending
      <3>5. Counting'
        BY <1>0, <2>0, <3>1, <3>2, <3>3 DEF EInv, Counting
      <3>6. Tried'
        BY <2>0, <3>1, <3>2, <3>3 DEF EInv, Tried, Unsent, SenderWaiting
      <3> QED BY <3>4, <3>5, <3>6
    <2>3. CASE SendFails /\ UNCHANGED msgs /\ sender' = [sender EXCEPT !.todo = @ \ {i}]
      <3>1. sender'.sending = None
        BY <1>0, <2>0, <2>3 DEF SenderType
      <3> QED BY <2>0, <2>3, <3>1 DEF EInv, Sending, Counting, Tried
    <2> QED BY <1>2, <2>1, <2>2, <2>3 DEF SenderTransmits
  <1>3. CASE SenderCounts
    <2> DEFINE i == sender.sending
    <2>0. sender.pc = "transmit" /\ i \in Slots /\ i # None
      BY <1>0, <1>3 DEF SenderCounts, SenderType
    <2>1. PICK first \in FirstTimeouts, n \in {sender.count, msgs[i].ntrans} :
            msgs' = [msgs EXCEPT ![i] = Counted(msgs[i], n, first)]
      BY <1>3 DEF SenderCounts
    <2>2. /\ sender'.pc = "transmit" /\ sender'.todo = sender.todo \ {i}
          /\ sender'.sending = None
      BY <1>0, <1>3, <2>0 DEF SenderCounts, SenderType
    <2>3. /\ msgs[i] \in MsgType /\ msgs[i].sent \in Nat /\ msgs[i].ntrans \in Nat
          /\ sender.count \in Nat /\ n \in Nat
      BY <1>0, <2>0 DEF SenderType, MsgType
    <2>4. \A j \in Slots : j # i => msgs'[j] = msgs[j]
      BY <1>0, <2>1
    <2>5. /\ msgs'[i].ntrans = n + 1 /\ msgs'[i].sent = msgs[i].sent
      BY <1>0, <2>0, <2>1, <2>3, MessageFields
    <2>6. msgs[i].sent <= sender.count + 1 /\ sender.count <= n /\ msgs[i].sent <= MaxRetransmit
      BY <2>0, <2>3 DEF EInv, Counting
    <2>7. Counting'
      BY <1>0, <2>0, <2>2, <2>3, <2>4, <2>5, <2>6 DEF EInv, Counting
    <2>8. Tried'
      BY <2>0, <2>2, <2>3, <2>4, <2>5 DEF EInv, Tried, Unsent, SenderWaiting
    <2> QED BY <2>2, <2>7, <2>8 DEF Sending
  <1>4. CASE SenderPurges
    <2>1. sender.sending = None /\ sender'.sending = None /\ sender'.count = sender.count
      BY <1>0, <1>4 DEF SenderPurges, SenderType
    <2>2. ASSUME NEW i \in Slots
          PROVE  /\ \/ msgs'[i] = NoMsg
                    \/ /\ msgs'[i].ntrans = msgs[i].ntrans /\ msgs'[i].sent = msgs[i].sent
                 /\ msgs'[i].listed => msgs[i].listed /\ msgs'[i] = msgs[i]
      <3>1. Referenced(i) \in BOOLEAN /\ msgs[i] \in MsgType
        BY <1>0 DEF Referenced
      <3>2. msgs'[i] = IF msgs[i].listed /\ Expired(msgs[i])
                       THEN Delisted(msgs[i], Referenced(i)) ELSE msgs[i]
        BY <1>4 DEF SenderPurges
      <3>3. CASE msgs[i].listed /\ Expired(msgs[i])
        BY <3>1, <3>2, <3>3, MessageFields
      <3>4. CASE ~ (msgs[i].listed /\ Expired(msgs[i]))
        BY <3>2, <3>4
      <3> QED BY <3>3, <3>4
    <2>3. Counting'
      <3>1. \A i \in Slots : \/ /\ msgs'[i].sent = msgs[i].sent
                                /\ msgs'[i].ntrans \in {msgs[i].ntrans, MaxRetransmit}
                             \/ i # sender.sending /\ msgs'[i].sent = 0
        BY <1>0, <2>1, <2>2, MessageFields
      <3> QED BY <2>1, <3>1, CountingKept DEF EInv
    <2>4. Tried'
      <3>1. ~ SendFails => \A i \in Slots : ~ (msgs[i].listed /\ Unsent(msgs[i]))
        BY <1>4 DEF EInv, Tried, SenderPurges, ToSend, SenderWaiting
      <3> QED BY <2>2, <3>1 DEF Tried
    <2> QED BY <2>1, <2>3, <2>4 DEF Sending
  <1>5. CASE SenderSleeps
    <2>1. UNCHANGED msgs /\ sender'.sending = sender.sending /\ sender'.count = sender.count
      BY <1>0, <1>5 DEF SenderSleeps, SenderType
    <2>2. sender.pc = "sleep" /\ sender.sending = None
      BY <1>5 DEF EInv, Sending, SenderSleeps
    <2> QED BY <2>1, <2>2 DEF EInv, Sending, Counting, Tried, SenderWaiting
  <1> QED BY <1>1, <1>2, <1>3, <1>4, <1>5 DEF Sender

\* A Discover gives its address to a slave when no slave has it, and a reset
\* takes the address of a slave away.
LEMMA AddressesStep ==
  ASSUME EInv, [Next]_vars
  PROVE  AddressesDistinct'
  <1>0. slaves \in [Slaves -> SlaveType]
    BY TypeParts DEF EInv
  <1>1. CASE \A s \in Slaves : slaves'[s].addr \in {slaves[s].addr, None}
    BY <1>1 DEF EInv, AddressesDistinct
  <1>2. CASE \E a \in Addrs, sid \in Slaves : ReceiveDiscover(a, sid)
    <2>1. PICK a \in Addrs, sid \in Slaves : ReceiveDiscover(a, sid)
      BY <1>2
    <2>2. CASE UNCHANGED slaves
      BY <2>2 DEF EInv, AddressesDistinct
    <2>3. CASE /\ \A s \in Slaves : slaves[s].addr # a
               /\ slaves' = [slaves EXCEPT ![sid].addr = a]
      <3>1. /\ slaves'[sid].addr = a
            /\ \A s \in Slaves : s # sid => slaves'[s].addr = slaves[s].addr
        BY <1>0, <2>3 DEF SlaveType
      <3> QED BY <2>3, <3>1 DEF EInv, AddressesDistinct
    <2> QED BY <2>1, <2>2, <2>3 DEF ReceiveDiscover
  <1>3. CASE SenderWakes
    <2>1. \A s \in Slaves : slaves'[s] \in {slaves[s], Inactive}
      BY <1>3 DEF SenderWakes, Reset
    <2> QED BY <1>1, <2>1 DEF Inactive
  <1>4. CASE Process
    <2>1. CASE UNCHANGED slaves
      BY <1>1, <2>1
    <2>2. CASE slaves' = [slaves EXCEPT ![receiver.peer] = Associated(@)]
      <3>1. \A s \in Slaves : slaves'[s] \in {slaves[s], Associated(slaves[s])}
        BY <1>0, <2>2
      <3>2. \A s \in Slaves : Associated(slaves[s]).addr = slaves[s].addr
        BY <1>0 DEF Associated, SlaveType
      <3>3. \A s \in Slaves : slaves'[s].addr = slaves[s].addr
        BY <3>1, <3>2
      <3> QED BY <1>1, <3>3
    <2> QED BY <1>4, <2>1, <2>2 DEF Process
  <1>5. CASE Tick
    <2>1. \A s \in Slaves : slaves'[s].addr = slaves[s].addr
      BY <1>0, <1>5 DEF Tick, SlaveType
    <2> QED BY <1>1, <2>1
  <1>6. CASE UNCHANGED slaves
    BY <1>1, <1>6
  <1> QED
    BY <1>2, <1>3, <1>4, <1>5, <1>6
    DEF Next, Sender, SenderTransmits, SenderCounts, SenderPurges, SenderSleeps,
        Receiver, Correlate, Link, WakeUp, Network, ReceiveAnswer,
        Http, HttpRequest, HttpThread, HttpPrepare, HttpSubmit, HttpWait, HttpReturn,
        Crashed, vars

\* The engine starts with no message, and with slaves without addresses.
LEMMA InitInvariant == Init => EInv
  <1> SUFFICES ASSUME Init
               PROVE  EInv
    OBVIOUS
  <1>1. MaxRetransmit \in Nat \ {0} /\ None \notin Slots
    BY EngineAssumption
  <1>2. sender.sending = None
    BY DEF Init
  <1>3. \A i \in Slots : /\ msgs[i].sent = 0 /\ msgs[i].ntrans = 0
                         /\ ~ msgs[i].listed
    BY DEF Init, NoMsg
  <1>4. AddressesDistinct
    BY DEF Init, Inactive, AddressesDistinct
  <1> QED BY <1>1, <1>2, <1>3, <1>4, InitType DEF EInv, Sending, Counting, Tried

\* The invariant is inductive.
LEMMA StepInvariant == EInv /\ [Next]_vars => EInv'
  <1> SUFFICES ASSUME EInv, [Next]_vars
               PROVE  EInv'
    OBVIOUS
  <1>1. TypeOK'
    BY TypeStep DEF EInv
  <1>2. AddressesDistinct'
    BY AddressesStep
  <1>3. Sending' /\ Counting' /\ Tried'
    BY <1>1, OthersStep, SenderStep DEF Next
  <1> QED BY <1>1, <1>2, <1>3 DEF EInv

\* EInv holds of every reachable state of the engine.
LEMMA EngineInvariant == Spec => []EInv
  <1> QED BY InitInvariant, StepInvariant, PTL DEF Spec

(***************************************************************************)
(* No confirmable message is on the network more than MAX_RETRANSMIT       *)
(* times, although the receiver stops retransmissions by writing a counter *)
(* that the sender increments at the same time (msg::send, casan.cc:545).  *)
(***************************************************************************)
THEOREM TransmissionsBounded == Spec => []BoundedTransmissions
  <1>1. EInv => BoundedTransmissions
    BY DEF EInv, Counting, BoundedTransmissions
  <1> QED BY <1>1, EngineInvariant, PTL

(***************************************************************************)
(* No two slaves have the same address, whatever the ids and the addresses *)
(* of the Discovers that come and the resets between them.                 *)
(***************************************************************************)
THEOREM AddressesAlwaysDistinct == Spec => []AddressesDistinct
  <1>1. EInv => AddressesDistinct
    BY DEF EInv
  <1> QED BY <1>1, EngineInvariant, PTL

(***************************************************************************)
(* When the network never refuses a frame, the sender does not wait while  *)
(* there is a message in the list that it has not put on the network: no   *)
(* add_request is lost between the end of its iteration and its wait.      *)
(***************************************************************************)
THEOREM NeverForgotten == Spec => []NoMessageForgotten
  <1>1. EInv => NoMessageForgotten
    <2> SUFFICES ASSUME EInv, ~ SendFails, SenderWaiting, sender.wait > 0,
                        NEW i \in Slots, msgs[i].listed
                 PROVE  ~ Unsent(msgs[i])
      BY DEF NoMessageForgotten
    <2>1. sender.wait \in Int
      BY DEF EInv, TypeOK
    <2> QED BY <2>1 DEF EInv, Tried, SenderWaiting
  <1> QED BY <1>1, EngineInvariant, PTL

(***************************************************************************)
(* The wait of the HTTP threads.                                           *)
(***************************************************************************)
\* A thread that is not idle has a message, which is no other thread's.
Owning ==
  \A t \in Threads :
    /\ threads[t].pc = "idle" <=> threads[t].msg = None
    /\ \A u \in Threads : u # t /\ threads[u].msg = threads[t].msg => threads[t].msg = None

\* A message that is in the list, and will be there when the time left is over:
\* it has not been sent, or its lifetime is not over before.
Outlives(m, left) == m.listed /\ (Unsent(m) \/ m.expire >= left)

Fresh(m) == ~ m.listed /\ Unsent(m)

\* The message of a thread is out of the list before it is submitted, and
\* outlives the timeout of the thread afterwards.
Waited ==
  \A t \in Threads :
    /\ threads[t].left <= Lifetime
    /\ threads[t].pc \in {"prepare", "submit"} => Fresh(msgs[threads[t].msg])
    /\ threads[t].pc \in {"submitted", "waiting"} =>
         Outlives(msgs[threads[t].msg], threads[t].left)

\* The receiver looks for a message that has been on the network, or is gone for
\* good, and links an answer to a message that has been counted: the counter it
\* overwrites is never the one that says that the dates have no value yet.
Answering ==
  /\ receiver.pc = "correlate" =>
       /\ receiver.id \in Slots
       /\ \/ msgs[receiver.id].sent > 0
          \/ /\ ~ msgs[receiver.id].listed
             /\ \A t \in Threads : threads[t].msg # receiver.id
  /\ receiver.pc = "link" => receiver.org \in Slots /\ ~ Unsent(msgs[receiver.org])

WInv == Owning /\ Waited /\ Answering

\* What a change of a message must keep for the thread that waits for it.
Steady(m, n) ==
  /\ Fresh(m) => Fresh(n)
  /\ \A left \in 0..Lifetime : Outlives(m, left) => Outlives(n, left)

\* It is kept when the place in the list, the counter and the lifetime are.
LEMMA SteadySame ==
  ASSUME NEW m, NEW n, n.listed = m.listed, n.ntrans = m.ntrans, n.expire = m.expire
  PROVE  Steady(m, n)
  BY DEF Steady, Fresh, Outlives, Unsent

\* A step that takes no thread further, and time from it at most, and keeps the
\* messages of the threads, keeps Waited and Owning.
LEMMA WaitedKept ==
  ASSUME TypeOK, TypeOK', Owning, Waited,
         \A t \in Threads : /\ threads'[t].pc = threads[t].pc
                            /\ threads'[t].msg = threads[t].msg
                            /\ threads'[t].left <= threads[t].left,
         \A t \in Threads : threads[t].msg # None =>
                              Steady(msgs[threads[t].msg], msgs'[threads[t].msg])
  PROVE  Owning' /\ Waited'
  <1>1. Owning'
    BY DEF Owning
  <1>2. ASSUME NEW t \in Threads
        PROVE  /\ threads'[t].left <= Lifetime
               /\ threads'[t].pc \in {"prepare", "submit"} => Fresh(msgs'[threads'[t].msg])
               /\ threads'[t].pc \in {"submitted", "waiting"} =>
                    Outlives(msgs'[threads'[t].msg], threads'[t].left)
    <2>1. /\ threads[t] \in ThreadType /\ threads'[t] \in ThreadType /\ Lifetime \in Nat
          /\ msgs' \in [Slots -> MsgType]
      BY TypeParts, EngineAssumption DEF TypeOK, ThreadType
    <2>2. threads[t].left \in Nat /\ threads'[t].left \in Nat
      BY <2>1 DEF ThreadType
    <2>3. threads[t].left \in 0..Lifetime /\ threads'[t].left <= threads[t].left
      BY <2>1, <2>2 DEF Waited
    <2>4. CASE threads[t].pc \in {"prepare", "submit"}
      BY <2>1, <2>2, <2>3, <2>4 DEF Owning, Waited, Steady
    <2>5. CASE threads[t].pc \in {"submitted", "waiting"}
      <3> DEFINE m == msgs'[threads[t].msg]
      <3>1. threads[t].msg \in Slots
        BY <2>1, <2>5 DEF Owning, ThreadType
      <3>2. m.expire \in Int
        BY <2>1, <3>1 DEF MsgType
      <3>3. Outlives(m, threads[t].left)
        BY <2>3, <2>5, <3>1, EngineAssumption DEF Waited, Steady
      <3> HIDE DEF m
      <3>4. Outlives(m, threads'[t].left)
        BY <2>2, <2>3, <3>2, <3>3 DEF Outlives
      <3> QED BY <2>1, <2>2, <2>3, <2>5, <3>4 DEF m
    <2> QED BY <2>1, <2>2, <2>3, <2>4, <2>5
  <1>3. Waited'
    BY <1>2 DEF Waited
  <1> QED BY <1>1, <1>3

\* The steps of the sender.
LEMMA SenderKeepsWaited ==
  ASSUME EInv, EInv', WInv, Sender
  PROVE  WInv'
  <1>0. /\ UNCHANGED <<threads, receiver>> /\ sender \in SenderType
        /\ msgs \in [Slots -> MsgType] /\ msgs' \in [Slots -> MsgType]
        /\ threads \in [Threads -> ThreadType] /\ receiver \in ReceiverType
        /\ None \notin Slots /\ Lifetime \in Nat
    BY TypeParts, EngineAssumption
    DEF EInv, TypeOK, Sender, SenderWakes, SenderTransmits, SenderCounts, SenderPurges, SenderSleeps
  <1>1. \A t \in Threads : threads[t].left \in Nat /\ threads[t].msg \in Slots \cup {None}
    BY <1>0 DEF ThreadType
  <1>2. ASSUME \A i \in Slots : (\E t \in Threads : threads[t].msg = i) => Steady(msgs[i], msgs'[i]),
               Answering'
        PROVE  WInv'
    BY <1>0, <1>1, <1>2, WaitedKept DEF EInv, WInv
  <1>3. CASE UNCHANGED msgs
    <2>1. \A i \in Slots : Steady(msgs[i], msgs'[i])
      BY <1>3, SteadySame
    <2>2. Answering'
      BY <1>0, <1>3 DEF WInv, Answering
    <2> QED BY <1>2, <2>1, <2>2
  <1>4. ASSUME NEW i \in Slots, msgs' = [msgs EXCEPT ![i].sent = @ + 1]
        PROVE  WInv'
    <2>1. \A j \in Slots : /\ msgs'[j].listed = msgs[j].listed /\ msgs'[j].ntrans = msgs[j].ntrans
                           /\ msgs'[j].expire = msgs[j].expire
                           /\ msgs[j].sent \in Nat /\ msgs'[j].sent >= msgs[j].sent
                           /\ msgs'[j].sent \in Nat
      BY <1>0, <1>4 DEF MsgType
    <2>2. \A j \in Slots : Steady(msgs[j], msgs'[j])
      BY <2>1, SteadySame
    <2>3. Answering'
      BY <1>0, <2>1 DEF WInv, Answering, Unsent
    <2> QED BY <1>2, <2>2, <2>3
  <1>5. CASE SenderCounts
    <2> DEFINE i == sender.sending
    <2>0. sender.pc = "transmit" /\ i \in Slots /\ i # None /\ msgs[i].listed
      BY <1>0, <1>5 DEF SenderCounts, SenderType, EInv, Sending
    <2>1. PICK first \in FirstTimeouts, n \in {sender.count, msgs[i].ntrans} :
            msgs' = [msgs EXCEPT ![i] = Counted(msgs[i], n, first)]
      BY <1>5 DEF SenderCounts
    <2>2. msgs[i] \in MsgType /\ n \in Nat /\ msgs[i].sent \in Nat /\ n + 1 # 0
      BY <1>0, <2>0 DEF SenderType, MsgType
    <2>3. \A j \in Slots : j # i => msgs'[j] = msgs[j]
      BY <1>0, <2>1
    <2>c. msgs'[i] = Counted(msgs[i], n, first)
      BY <1>0, <2>0, <2>1
    <2>4. /\ msgs'[i].ntrans = n + 1 /\ msgs'[i].sent = msgs[i].sent
          /\ msgs'[i].listed = msgs[i].listed
          /\ msgs'[i].expire = IF Unsent(msgs[i]) THEN Lifetime ELSE msgs[i].expire
      BY <2>2, <2>c DEF Counted, MsgType
    <2> HIDE DEF i
    <2>6. Steady(msgs[i], msgs'[i])
      BY <1>0, <2>0, <2>2, <2>4 DEF Steady, Fresh, Outlives, Unsent
    <2>7. \A j \in Slots : Steady(msgs[j], msgs'[j])
      BY <2>3, <2>6, SteadySame
    <2>8. Answering'
      BY <1>0, <2>2, <2>3, <2>4 DEF WInv, Answering, Unsent
    <2> QED BY <1>2, <2>7, <2>8
  <1>6. CASE SenderPurges
    <2>1. ASSUME NEW j \in Slots
          PROVE  /\ (Expired(msgs[j]) /\ msgs[j].listed) \/ msgs'[j] = msgs[j]
                 /\ msgs'[j].listed => msgs'[j] = msgs[j]
                 /\ \/ msgs'[j].ntrans = msgs[j].ntrans /\ msgs'[j].sent = msgs[j].sent
                    \/ msgs'[j] = NoMsg /\ ~ Referenced(j)
      <3>1. Referenced(j) \in BOOLEAN /\ msgs[j] \in MsgType
        BY <1>0 DEF Referenced
      <3>2. msgs'[j] = IF msgs[j].listed /\ Expired(msgs[j])
                       THEN Delisted(msgs[j], Referenced(j)) ELSE msgs[j]
        BY <1>6 DEF SenderPurges
      <3>3. CASE msgs[j].listed /\ Expired(msgs[j])
        <4>1. CASE Referenced(j)
          BY <3>1, <3>2, <3>3, <4>1 DEF Delisted, MsgType
        <4>2. CASE ~ Referenced(j)
          BY <3>2, <3>3, <4>2, MessageFields DEF Delisted
        <4> QED BY <4>1, <4>2
      <3>4. CASE ~ (msgs[j].listed /\ Expired(msgs[j]))
        BY <3>2, <3>4
      <3> QED BY <3>3, <3>4
    <2>2. \A j \in Slots : msgs[j].expire \in Int
      BY <1>0 DEF MsgType
    <2>3. \A j \in Slots : Steady(msgs[j], msgs'[j])
      BY <1>0, <2>1, <2>2 DEF Steady, Fresh, Outlives, Unsent, Expired
    <2>4. Answering'
      BY <1>0, <2>1, MessageFields DEF WInv, Answering, Unsent, Referenced
    <2> QED BY <1>2, <2>3, <2>4
  <1> QED
    BY <1>3, <1>4, <1>5, <1>6 DEF Sender, SenderWakes, SenderTransmits, SenderSleeps

\* The steps of the receiver, of the network and of time.
LEMMA ReceiverKeepsWaited ==
  ASSUME EInv, EInv', WInv, Receiver \/ Network \/ Tick \/ Crashed \/ UNCHANGED vars
  PROVE  WInv'
  <1>0. /\ msgs \in [Slots -> MsgType] /\ msgs' \in [Slots -> MsgType] /\ sender \in SenderType
        /\ threads \in [Threads -> ThreadType] /\ receiver \in ReceiverType
        /\ None \notin Slots /\ MaxRetransmit \in Nat \ {0}
    BY TypeParts, EngineAssumption DEF EInv, TypeOK
  <1>1. \A t \in Threads : threads[t].left \in Nat /\ threads[t].msg \in Slots \cup {None}
    BY <1>0 DEF ThreadType
  <1>2. ASSUME UNCHANGED threads, Answering',
               \A i \in Slots : (\E t \in Threads : threads[t].msg = i) => Steady(msgs[i], msgs'[i])
        PROVE  WInv'
    BY <1>0, <1>1, <1>2, WaitedKept DEF EInv, WInv
  <1>3. UNCHANGED msgs => \A i \in Slots : Steady(msgs[i], msgs'[i])
    BY SteadySame
  <1>4. receiver'.pc \notin {"correlate", "link"} => Answering'
    BY DEF Answering
  <1>5. CASE UNCHANGED <<msgs, receiver, threads>>
    BY <1>2, <1>3, <1>5 DEF WInv, Answering
  <1>6. CASE Correlate
    <2>1. UNCHANGED <<msgs, threads>>
      BY <1>6 DEF Correlate
    <2>2. CASE receiver' = ReceiverIdle
      BY <1>2, <1>3, <1>4, <2>1, <2>2 DEF ReceiverIdle
    <2>3. CASE msgs[receiver.id].listed
               /\ receiver' = [receiver EXCEPT !.pc = "link", !.org = receiver.id, !.id = None]
      <3>1. receiver.id \in Slots /\ msgs[receiver.id].sent > 0
        BY <1>6, <2>3 DEF Correlate, WInv, Answering
      <3>2. sender.sending = None
        BY <1>6 DEF Correlate, MutexFree, SenderWaiting, EInv, Sending
      <3>3. msgs[receiver.id].sent <= msgs[receiver.id].ntrans
        BY <1>0, <3>1, <3>2 DEF EInv, Counting
      <3>4. /\ msgs[receiver.id].sent \in Nat /\ msgs[receiver.id].ntrans \in Nat
        BY <1>0, <3>1 DEF MsgType
      <3>5. receiver'.pc = "link" /\ receiver'.org = receiver.id
        BY <1>0, <2>3 DEF ReceiverType
      <3>6. Answering'
        BY <2>1, <3>1, <3>3, <3>4, <3>5 DEF Answering, Unsent
      <3> QED BY <1>2, <1>3, <2>1, <3>6
    <2> QED BY <1>6, <2>2, <2>3 DEF Correlate
  <1>7. CASE Link
    <2>1. receiver.pc = "link" /\ receiver.org \in Slots /\ ~ Unsent(msgs[receiver.org])
      BY <1>7 DEF Link, WInv, Answering
    <2>2. Answering'
      BY <1>0, <1>4, <1>7 DEF Link, ReceiverIdle, ReceiverType
    <2>3. CASE UNCHANGED msgs
      BY <1>2, <1>3, <1>7, <2>2, <2>3 DEF Link
    <2>4. CASE msgs' = [msgs EXCEPT ![receiver.org] = Answered(@)]
      <3> DEFINE i == receiver.org
      <3>1. msgs'[i] = Answered(msgs[i]) /\ msgs[i] \in MsgType
        BY <1>0, <2>1, <2>4
      <3>2. \A j \in Slots : j # i => msgs'[j] = msgs[j]
        BY <1>0, <2>4
      <3>3. /\ msgs'[i].listed = msgs[i].listed /\ msgs'[i].expire = msgs[i].expire
            /\ msgs'[i].ntrans = MaxRetransmit
        BY <3>1 DEF Answered, MsgType
      <3> HIDE DEF i
      <3>4. Steady(msgs[i], msgs'[i])
        BY <1>0, <2>1, <3>3 DEF Steady, Fresh, Outlives, Unsent, i
      <3>5. \A j \in Slots : Steady(msgs[j], msgs'[j])
        BY <3>2, <3>4, SteadySame
      <3> QED BY <1>2, <1>7, <2>2, <3>5 DEF Link
    <2> QED BY <1>7, <2>3, <2>4 DEF Link
  <1>8. CASE WakeUp
    <2>1. CASE UNCHANGED <<receiver, threads>>
      BY <1>5, <1>8, <2>1 DEF WakeUp
    <2>2. ASSUME NEW u, u = msgs[receiver.org].waiter, receiver' = ReceiverIdle,
                 threads' = [threads EXCEPT ![u].left = IF threads[u].pc = "waiting" THEN 0 ELSE @]
          PROVE  WInv'
      <3>1. \A t \in Threads : /\ threads'[t].pc = threads[t].pc
                               /\ threads'[t].msg = threads[t].msg
                               /\ threads'[t].left \in {0, threads[t].left}
        BY <1>0, <2>2 DEF ThreadType
      <3>2. \A t \in Threads : threads'[t].left <= threads[t].left
        BY <1>1, <3>1
      <3>3. UNCHANGED msgs
        BY <1>8 DEF WakeUp
      <3>4. \A t \in Threads : threads[t].msg # None =>
                                 Steady(msgs[threads[t].msg], msgs'[threads[t].msg])
        BY <1>1, <1>3, <3>3
      <3>5. Owning' /\ Waited'
        BY <3>1, <3>2, <3>4, WaitedKept DEF EInv, WInv
      <3> QED BY <1>4, <2>2, <3>5 DEF WInv, ReceiverIdle
    <2> QED BY <1>8, <2>1, <2>2 DEF WakeUp
  <1>9. CASE Process
    <2>1. UNCHANGED threads /\ Answering'
      BY <1>4, <1>9 DEF Process, ReceiverIdle
    <2>2. CASE \E j \in Slots : Free(j) /\ AddRequest(j, NewMsg("assoc", receiver.peer))
      <3>1. PICK j \in Slots : Free(j) /\ AddRequest(j, NewMsg("assoc", receiver.peer))
        BY <2>2
      <3>2. \A i \in Slots : i # j => msgs'[i] = msgs[i]
        BY <1>0, <3>1 DEF AddRequest
      <3>3. \A t \in Threads : threads[t].msg # j
        BY <3>1 DEF Free, Referenced
      <3> QED BY <1>2, <2>1, <3>2, <3>3, SteadySame
    <2> QED BY <1>2, <1>3, <1>9, <2>1, <2>2 DEF Process
  <1>10. CASE Network
    <2>1. UNCHANGED <<msgs, threads>>
      BY <1>10 DEF Network, ReceiveDiscover, ReceiveAnswer
    <2>2. CASE \E a \in Addrs, sid \in Slaves : ReceiveDiscover(a, sid)
      <3>1. receiver'.pc = "process"
        BY <2>2 DEF ReceiveDiscover, ReceiverIdle
      <3> QED BY <1>2, <1>3, <1>4, <2>1, <3>1
    <2>3. CASE \E a \in Addrs, i \in Slots : ReceiveAnswer(a, i)
      <3>1. PICK a \in Addrs, i \in Slots : ReceiveAnswer(a, i)
        BY <2>3
      <3>2. receiver'.pc = "correlate" /\ receiver'.id = i /\ msgs[i].sent > 0
        BY <3>1 DEF ReceiveAnswer, ReceiverIdle
      <3>3. Answering'
        BY <2>1, <3>2 DEF Answering
      <3> QED BY <1>2, <1>3, <2>1, <3>3
    <2> QED BY <1>10, <2>2, <2>3 DEF Network
  <1>11. CASE Tick
    <2>1. ASSUME NEW i \in Slots
          PROVE  /\ msgs'[i].listed = msgs[i].listed /\ msgs'[i].ntrans = msgs[i].ntrans
                 /\ msgs'[i].sent = msgs[i].sent
                 /\ msgs[i].expire \in Int /\ msgs'[i].expire \in Int
                 /\ msgs[i].expire > 0 => msgs'[i].expire >= msgs[i].expire - 1
      <3> DEFINE next == NonNeg(msgs[i].next - 1)
                 expire == AtLeast(msgs[i].expire - 1, -1)
      <3>1. \/ msgs'[i] = msgs[i]
            \/ msgs'[i] = [msgs[i] EXCEPT !.next = next, !.expire = expire]
        BY <1>11 DEF Tick
      <3>2. msgs[i].expire \in Int /\ expire \in Int /\ expire >= msgs[i].expire - 1
        BY <1>0 DEF MsgType, AtLeast
      <3> HIDE DEF next, expire
      <3>3. msgs[i] \in MsgType
        BY <1>0
      <3>4. /\ msgs'[i].listed = msgs[i].listed /\ msgs'[i].ntrans = msgs[i].ntrans
            /\ msgs'[i].sent = msgs[i].sent
        BY <3>1, <3>3 DEF MsgType
      <3>5. msgs'[i].expire \in {msgs[i].expire, expire}
        BY <3>1, <3>3 DEF MsgType
      <3> QED BY <3>2, <3>4, <3>5
    <2>3. ASSUME NEW t \in Threads
          PROVE  /\ threads'[t].pc = threads[t].pc /\ threads'[t].msg = threads[t].msg
                 /\ threads'[t].left \in Nat /\ threads'[t].left <= threads[t].left
                 /\ threads[t].left > 0 => threads'[t].left = threads[t].left - 1
                 /\ threads[t].pc \in {"submitted", "waiting"} => threads[t].left > 0
      <3> DEFINE left == NonNeg(threads[t].left - 1)
      <3>1. threads'[t] = [threads[t] EXCEPT !.left = left]
        BY <1>11 DEF Tick
      <3>2. /\ left \in Nat /\ left <= threads[t].left
            /\ threads[t].left > 0 => left = threads[t].left - 1
        BY <1>1 DEF NonNeg
      <3>3. threads[t].pc \in {"submitted", "waiting"} => threads[t].left > 0
        BY <1>11 DEF Tick, ThreadsOnTime
      <3> HIDE DEF left
      <3> QED BY <1>0, <3>1, <3>2, <3>3 DEF ThreadType
    <2>2. Answering'
      <3>1. UNCHANGED receiver
        BY <1>11 DEF Tick
      <3> QED BY <2>1, <2>3, <3>1 DEF WInv, Answering, Unsent
    <2>4. Owning'
      BY <2>3 DEF WInv, Owning
    <2>5. ASSUME NEW t \in Threads
          PROVE  /\ threads'[t].left <= Lifetime
                 /\ threads'[t].pc \in {"prepare", "submit"} => Fresh(msgs'[threads'[t].msg])
                 /\ threads'[t].pc \in {"submitted", "waiting"} =>
                      Outlives(msgs'[threads'[t].msg], threads'[t].left)
      <3>1. threads'[t].left <= Lifetime
        BY <1>1, <2>3, EngineAssumption DEF WInv, Waited
      <3>2. threads[t].pc # "idle" => threads[t].msg \in Slots
        BY <1>1 DEF WInv, Owning
      <3>3. ASSUME threads[t].pc \in {"prepare", "submit"}
            PROVE  Fresh(msgs'[threads[t].msg])
        BY <2>1, <3>2, <3>3 DEF WInv, Waited, Fresh, Unsent
      <3>4. ASSUME threads[t].pc \in {"submitted", "waiting"}
            PROVE  Outlives(msgs'[threads[t].msg], threads'[t].left)
        BY <1>1, <2>1, <2>3, <3>2, <3>4 DEF WInv, Waited, Outlives, Unsent
      <3> QED BY <2>3, <3>1, <3>3, <3>4
    <2>6. Waited'
      BY <2>5 DEF Waited
    <2> QED BY <2>2, <2>4, <2>6 DEF WInv
  <1> QED
    BY <1>5, <1>6, <1>7, <1>8, <1>9, <1>10, <1>11 DEF Receiver, Crashed, vars

\* The steps of an HTTP thread.
LEMMA HttpKeepsWaited ==
  ASSUME EInv, EInv', WInv, Http
  PROVE  WInv'
  <1>0. /\ msgs \in [Slots -> MsgType] /\ msgs' \in [Slots -> MsgType]
        /\ threads \in [Threads -> ThreadType] /\ receiver \in ReceiverType
        /\ threads' \in [Threads -> ThreadType] /\ UNCHANGED receiver
        /\ None \notin Slots /\ Lifetime \in Nat
    BY TypeParts, EngineAssumption
    DEF EInv, TypeOK, Http, HttpRequest, HttpThread, HttpPrepare, HttpSubmit, HttpWait, HttpReturn,
        ThreadType
  <1>1. \A t \in Threads : /\ threads[t].left \in Nat /\ threads[t].msg \in Slots \cup {None}
                           /\ threads[t].pc # "idle" => threads[t].msg \in Slots
    BY <1>0 DEF ThreadType, WInv, Owning
  \* It is enough to look at the thread that moves, at its message and at the receiver.
  <1>2. ASSUME NEW t \in Threads, NEW i \in Slots,
               threads[t].msg \in {i, None},
               \A u \in Threads : u # t => threads'[u] = threads[u] /\ threads[u].msg # i,
               \A j \in Slots : j # i => msgs'[j] = msgs[j],
               threads'[t].msg \in {i, None}, threads'[t].left <= Lifetime,
               threads'[t].pc = "idle" <=> threads'[t].msg = None,
               threads'[t].pc \in {"prepare", "submit"} => Fresh(msgs'[i]),
               threads'[t].pc \in {"submitted", "waiting"} => Outlives(msgs'[i], threads'[t].left),
               Answering'
        PROVE  WInv'
    <2>1. Owning'
      BY <1>0, <1>1, <1>2 DEF WInv, Owning
    <2>2. ASSUME NEW u \in Threads
          PROVE  /\ threads'[u].left <= Lifetime
                 /\ threads'[u].pc \in {"prepare", "submit"} => Fresh(msgs'[threads'[u].msg])
                 /\ threads'[u].pc \in {"submitted", "waiting"} =>
                      Outlives(msgs'[threads'[u].msg], threads'[u].left)
      <3>1. CASE u = t
        BY <1>2, <3>1
      <3>2. CASE u # t
        BY <1>1, <1>2, <3>2 DEF WInv, Waited
      <3> QED BY <3>1, <3>2
    <2>3. Waited'
      BY <2>2 DEF Waited
    <2> QED BY <1>2, <2>1, <2>3 DEF WInv
  <1>3. ASSUME NEW t \in Threads, NEW s \in Slaves, NEW i \in Slots, HttpRequest(t, s, i)
        PROVE  WInv'
    <2>1. /\ \A u \in Threads : threads[u].msg # i
          /\ receiver.org # i /\ receiver.id # i /\ threads[t].msg = None
      BY <1>3 DEF HttpRequest, Free, Referenced, WInv, Owning
    <2>2. /\ \A u \in Threads : u # t => threads'[u] = threads[u]
          /\ \A j \in Slots : j # i => msgs'[j] = msgs[j]
          /\ threads'[t].pc = "prepare" /\ threads'[t].msg = i /\ threads'[t].left = 0
          /\ msgs'[i] = NewMsg("request", s)
      BY <1>0, <1>3 DEF HttpRequest
    <2>3. Fresh(msgs'[i])
      BY <2>2 DEF Fresh, Unsent, NewMsg, NoMsg
    <2>4. Answering'
      BY <1>0, <2>1, <2>2 DEF WInv, Answering
    <2> QED BY <1>0, <1>2, <2>1, <2>2, <2>3, <2>4
  <1>4. ASSUME NEW t \in Threads, HttpThread(t)
        PROVE  WInv'
    <2> DEFINE i == threads[t].msg
    <2>0. i \in Slots /\ msgs[i] \in MsgType /\ threads[t].pc # "idle"
      BY <1>0, <1>1, <1>4 DEF HttpThread, HttpPrepare, HttpSubmit, HttpWait, HttpReturn
    <2>1. /\ \A u \in Threads : u # t => threads'[u] = threads[u] /\ threads[u].msg # i
          /\ \A j \in Slots : j # i => msgs'[j] = msgs[j]
      BY <1>0, <1>4, <2>0
      DEF HttpThread, HttpPrepare, HttpSubmit, HttpWait, HttpReturn, AddRequest, WInv, Owning
    \* The receiver is not disturbed by a thread that keeps its message.
    <2>2. ASSUME msgs'[i].sent = msgs[i].sent, msgs'[i].ntrans = msgs[i].ntrans,
                 threads'[t].msg \in {i, None}
          PROVE  Answering'
      BY <1>0, <2>0, <2>1, <2>2 DEF WInv, Answering, Unsent
    <2>3. CASE HttpPrepare(t)
      <3>1. CASE UNCHANGED <<msgs, threads>>
        BY <1>0, <3>1 DEF WInv, Owning, Waited, Answering
      <3>2. CASE /\ msgs' = [msgs EXCEPT ![i].waiter = t]
                 /\ threads' = [threads EXCEPT ![t].pc = "submit", ![t].left = Lifetime]
        <4>1. /\ msgs'[i].sent = msgs[i].sent /\ msgs'[i].ntrans = msgs[i].ntrans
              /\ msgs'[i].listed = msgs[i].listed
          BY <1>0, <2>0, <3>2 DEF MsgType
        <4>2. threads'[t].pc = "submit" /\ threads'[t].left = Lifetime /\ threads'[t].msg = i
          BY <1>0, <3>2 DEF ThreadType
        <4>3. Fresh(msgs[i])
          BY <2>3 DEF HttpPrepare, WInv, Waited
        <4>4. Fresh(msgs'[i])
          BY <4>1, <4>3 DEF Fresh, Unsent
        <4>5. Answering'
          BY <2>2, <4>1, <4>2
        <4> HIDE DEF i
        <4> QED BY <1>0, <1>2, <2>0, <2>1, <4>2, <4>4, <4>5 DEF i
      <3> QED BY <2>3, <3>1, <3>2 DEF HttpPrepare
    <2>4. CASE HttpSubmit(t)
      <3>1. /\ msgs' = [msgs EXCEPT ![i] = [msgs[i] EXCEPT !.listed = TRUE]]
            /\ threads' = [threads EXCEPT ![t].pc = "submitted"] /\ threads[t].pc = "submit"
        BY <2>4 DEF HttpSubmit, AddRequest
      <3>2. /\ msgs'[i].sent = msgs[i].sent /\ msgs'[i].ntrans = msgs[i].ntrans
            /\ msgs'[i].listed
        BY <1>0, <2>0, <3>1 DEF MsgType
      <3>3. threads'[t].pc = "submitted" /\ threads'[t].left = threads[t].left /\ threads'[t].msg = i
        BY <1>0, <3>1 DEF ThreadType
      <3>4. Fresh(msgs[i]) /\ threads[t].left <= Lifetime
        BY <3>1 DEF WInv, Waited
      <3>5. Outlives(msgs'[i], threads'[t].left)
        BY <3>2, <3>4 DEF Fresh, Outlives, Unsent
      <3>6. Answering'
        BY <2>2, <3>2, <3>3
      <3> HIDE DEF i
      <3> QED BY <1>0, <1>2, <2>0, <2>1, <3>3, <3>4, <3>5, <3>6 DEF i
    <2>5. CASE HttpWait(t)
      <3>1. UNCHANGED msgs /\ threads[t].pc = "submitted"
        BY <2>5 DEF HttpWait
      <3>2. threads'[t].pc = "waiting" /\ threads'[t].left = threads[t].left /\ threads'[t].msg = i
        BY <1>0, <2>5 DEF HttpWait, ThreadType
      <3>3. Outlives(msgs'[i], threads'[t].left) /\ threads'[t].left <= Lifetime
        BY <3>1, <3>2 DEF WInv, Waited
      <3>4. Answering'
        BY <2>2, <3>1, <3>2
      <3> HIDE DEF i
      <3> QED BY <1>0, <1>2, <2>0, <2>1, <3>2, <3>3, <3>4 DEF i
    <2>6. CASE HttpReturn(t)
      <3>1. threads'[t] = ThreadIdle /\ UNCHANGED receiver
        BY <1>0, <2>6 DEF HttpReturn
      <3>2. threads'[t].pc = "idle" /\ threads'[t].msg = None /\ threads'[t].left = 0
        BY <3>1 DEF ThreadIdle
      <3>3. msgs'[i] = IF msgs[i].listed \/ receiver.org = i
                       THEN [msgs[i] EXCEPT !.waiter = None] ELSE NoMsg
        BY <1>0, <2>0, <2>6 DEF HttpReturn
      <3>4. CASE msgs[i].listed \/ receiver.org = i
        <4>1. msgs'[i].sent = msgs[i].sent /\ msgs'[i].ntrans = msgs[i].ntrans
          BY <2>0, <3>3, <3>4 DEF MsgType
        <4>2. Answering'
          BY <2>2, <3>2, <4>1
        <4> HIDE DEF i
        <4> QED BY <1>0, <1>2, <2>0, <2>1, <3>2, <4>2 DEF i
      <3>5. CASE ~ (msgs[i].listed \/ receiver.org = i)
        <4>1. ~ msgs'[i].listed /\ \A u \in Threads : threads'[u].msg # i
          BY <1>0, <2>0, <2>1, <3>2, <3>3, <3>5, MessageFields
        <4>2. Answering'
          BY <1>0, <2>0, <2>1, <3>1, <3>2, <3>5, <4>1 DEF WInv, Answering, Unsent
        <4> HIDE DEF i
        <4> QED BY <1>0, <1>2, <2>0, <2>1, <3>2, <4>2 DEF i
      <3> QED BY <3>4, <3>5
    <2> QED BY <1>4, <2>3, <2>4, <2>5, <2>6 DEF HttpThread
  <1> QED BY <1>3, <1>4 DEF Http

(***************************************************************************)
(* The message of a thread is not removed from the list while the thread   *)
(* waits: the timeout of the thread is the lifetime of the message, but it *)
(* starts before the lifetime, which the first transmission starts.        *)
(***************************************************************************)
THEOREM MessagesAlwaysKept == Spec => []WaitedMessageKept
  <1>1. Init => WInv
    <2> SUFFICES ASSUME Init
                 PROVE  WInv
      OBVIOUS
    <2>1. Lifetime \in Nat
      BY EngineAssumption
    <2> QED BY <2>1 DEF Init, ThreadIdle, ReceiverIdle, WInv, Owning, Waited, Answering
  <1>2. EInv /\ EInv' /\ WInv /\ [Next]_vars => WInv'
    BY SenderKeepsWaited, ReceiverKeepsWaited, HttpKeepsWaited DEF Next
  <1>3. WInv => WaitedMessageKept
    BY DEF WInv, Waited, Outlives, WaitedMessageKept
  <1> QED BY <1>1, <1>2, <1>3, EngineInvariant, PTL DEF Spec

(***************************************************************************)
(* When threads are punctual, the sender is never late for the end of the  *)
(* lease of a slave, although nobody wakes it up when the lease begins.    *)
(***************************************************************************)
\* The longest wait of the sender, and by how much it may exceed a lease.
Longest == AtLeast(HelloInterval, FirstHello)

Late == NonNeg(Longest - Ttl)

\* The sender computes its wait when nothing is overdue, so that the wait does
\* not exceed what is left of any lease; a lease that begins later is as long as
\* it can be, and what exceeds it in the wait decreases no more.
PInv ==
  /\ hello <= Longest
  /\ sender.pc = "transmit" =>
       /\ hello > 0
       /\ \A s \in Slaves : slaves[s].status = "RUNNING" => slaves[s].left > 0
  /\ sender.pc # "transmit" =>
       /\ 0 <= sender.wait /\ sender.wait <= Longest
       /\ \A s \in Slaves : slaves[s].status = "RUNNING" => slaves[s].left - sender.wait >= - Late

\* The parameters, and the quantities that PInv compares, are integers.
LEMMA Dates ==
  /\ Longest \in Nat /\ Late \in Nat /\ Ttl \in Nat \ {0} /\ HelloInterval \in Nat \ {0}
  /\ HelloInterval <= Longest /\ Ttl - Longest >= - Late
  BY EngineAssumption DEF Longest, Late, AtLeast, NonNeg

\* What the receiver and the HTTP threads do: they may put an end to the wait of
\* the sender, and begin leases.
LEMMA PunctualKept ==
  ASSUME TypeOK, TypeOK', PInv,
         hello' = hello, sender'.pc = sender.pc,
         sender'.wait = sender.wait \/ (sender.pc # "transmit" /\ sender'.wait = 0),
         \A s \in Slaves : \/ /\ slaves'[s].status = slaves[s].status
                              /\ slaves'[s].left = slaves[s].left
                           \/ slaves'[s].left = Ttl
  PROVE  PInv'
  <1>1. /\ sender.wait \in Int /\ sender'.wait \in Int
        /\ \A s \in Slaves : slaves[s].left \in Int /\ slaves'[s].left \in Int
    BY DEF TypeOK, SlaveType
  <1>2. sender.pc = "transmit" =>
          \A s \in Slaves : slaves'[s].status = "RUNNING" => slaves'[s].left > 0
    BY <1>1, Dates DEF PInv
  <1>3. sender.pc # "transmit" =>
          /\ 0 <= sender'.wait /\ sender'.wait <= sender.wait /\ sender'.wait <= Longest
          /\ \A s \in Slaves : slaves'[s].status = "RUNNING" =>
               slaves'[s].left - sender'.wait >= - Late
    <2>1. sender.pc # "transmit" =>
            0 <= sender'.wait /\ sender'.wait <= sender.wait /\ sender'.wait <= Longest
      BY <1>1, Dates DEF PInv
    <2>2. ASSUME NEW s \in Slaves, sender.pc # "transmit", slaves'[s].status = "RUNNING"
          PROVE  slaves'[s].left - sender'.wait >= - Late
      <3>1. CASE slaves[s].status = "RUNNING" /\ slaves'[s].left = slaves[s].left
        BY <1>1, <2>1, <2>2, <3>1, Dates DEF PInv
      <3>2. CASE slaves'[s].left = Ttl
        BY <1>1, <2>1, <2>2, <3>2, Dates
      <3> QED BY <2>2, <3>1, <3>2
    <2> QED BY <2>1, <2>2
  <1>4. hello' <= Longest /\ (sender'.pc = "transmit" => hello' > 0)
    BY DEF PInv
  <1> QED BY <1>2, <1>3, <1>4 DEF PInv

\* A request that is added puts an end to the wait.
LEMMA AddRequestWait ==
  ASSUME TypeOK, NEW i \in Slots, NEW m, AddRequest(i, m)
  PROVE  sender.pc # "transmit" /\ sender'.pc = sender.pc /\ sender'.wait = 0
  <1>1. sender \in SenderType
    BY TypeParts
  <1> QED BY <1>1 DEF AddRequest, MutexFree, SenderWaiting, SenderType

\* The sender is never late.
LEMMA PunctualSender ==
  ASSUME TypeOK, TypeOK', PInv, Sender
  PROVE  PInv'
  <1>0. /\ sender \in SenderType /\ sender.wait \in Int /\ hello \in Int
        /\ \A s \in Slaves : slaves[s].left \in Int
    BY TypeParts DEF SenderType, SlaveType
  <1>1. CASE SenderWakes
    <2>1. sender'.pc = "transmit"
      BY <1>0, <1>1 DEF SenderWakes, SenderType
    <2>2. hello' > 0 /\ hello' <= Longest
      BY <1>0, <1>1, Dates DEF SenderWakes, PInv
    <2>3. ASSUME NEW s \in Slaves, slaves'[s].status = "RUNNING"
          PROVE  slaves'[s].left > 0
      <3>1. slaves'[s] = IF Lapsed(slaves[s]) THEN Inactive ELSE slaves[s]
        BY <1>1 DEF SenderWakes, Reset
      <3>2. ~ Lapsed(slaves[s]) /\ slaves'[s] = slaves[s]
        BY <2>3, <3>1 DEF Inactive
      <3> QED BY <1>0, <2>3, <3>2 DEF Lapsed
    <2> QED BY <2>1, <2>2, <2>3 DEF PInv
  <1>2. CASE SenderCounts \/ \E i \in Slots : SenderTransmits(i)
    <2>1. UNCHANGED <<slaves, hello>>
      BY <1>2 DEF SenderCounts, SenderTransmits
    <2>2. sender'.pc = sender.pc /\ sender'.wait = sender.wait
      BY <1>0, <1>2 DEF SenderCounts, SenderTransmits, SenderType
    <2> QED BY <2>1, <2>2, PunctualKept
  <1>3. CASE SenderPurges
    <2>1. /\ msgs' \in [Slots -> MsgType] /\ UNCHANGED <<slaves, hello>>
          /\ sender.pc = "transmit" /\ sender'.pc = "sleep" /\ sender'.wait = NextDate(msgs')
      BY <1>0, <1>3, TypeParts DEF SenderPurges, SenderType, TypeOK
    <2> DEFINE d == NextDate(msgs')
    <2>2. /\ d \in Int /\ d <= hello
          /\ \A s \in Slaves : slaves[s].status = "RUNNING" => d <= slaves[s].left
          /\ \/ d = hello
             \/ \E s \in Slaves : slaves[s].status = "RUNNING" /\ d = slaves[s].left
             \/ d >= 0
      BY <2>1, NextDateLeast
    <2>3. sender'.wait = d
      BY <2>1
    <2> HIDE DEF d
    <2>4. 0 <= d /\ d <= Longest
      BY <1>0, <2>1, <2>2, Dates DEF PInv
    <2>5. \A s \in Slaves : slaves[s].status = "RUNNING" => slaves[s].left - d >= - Late
      BY <1>0, <2>2, Dates
    <2> QED BY <2>1, <2>3, <2>4, <2>5 DEF PInv
  <1>4. CASE SenderSleeps
    <2>1. sender.pc = "sleep" /\ sender.wait >= 0 /\ UNCHANGED <<slaves, hello>>
      BY <1>0, <1>4 DEF SenderSleeps, PInv
    <2>2. sender'.pc = "waiting" /\ sender'.wait = sender.wait
      BY <1>0, <1>4, <2>1 DEF SenderSleeps, SenderType
    <2> QED BY <2>1, <2>2 DEF PInv
  <1> QED BY <1>1, <1>2, <1>3, <1>4 DEF Sender

\* No other thread makes it late, and it is woken up in time.
LEMMA PunctualOthers ==
  ASSUME Punctual, TypeOK, TypeOK', PInv,
         Receiver \/ Network \/ Http \/ Tick \/ Crashed \/ UNCHANGED vars
  PROVE  PInv'
  <1>0. /\ sender \in SenderType /\ sender.wait \in Int /\ hello \in Int
        /\ slaves \in [Slaves -> SlaveType] /\ \A s \in Slaves : slaves[s].left \in Int
    BY TypeParts DEF SenderType, SlaveType
  <1>1. CASE Tick
    <2>1. sender.pc = "waiting" /\ sender.wait > 0
      BY <1>1 DEF Tick, SenderOnTime, SenderWaiting
    <2>2. /\ sender'.pc = "waiting" /\ sender'.wait = sender.wait - 1
          /\ hello' = hello - 1
      BY <1>0, <1>1, <2>1 DEF Tick, SenderType
    <2>3. \A s \in Slaves : slaves'[s].status = "RUNNING" =>
            slaves[s].status = "RUNNING" /\ slaves'[s].left = slaves[s].left - 1
      BY <1>0, <1>1 DEF Tick, SlaveType
    <2>4. \A s \in Slaves : slaves'[s].status = "RUNNING" =>
            slaves'[s].left - sender'.wait >= - Late
      BY <1>0, <2>1, <2>2, <2>3, Dates DEF PInv
    <2>5. 0 <= sender'.wait /\ sender'.wait <= Longest /\ hello' <= Longest
      BY <1>0, <2>1, <2>2, Dates DEF PInv
    <2> QED BY <2>2, <2>4, <2>5 DEF PInv
  <1>2. CASE Process
    <2>1. UNCHANGED hello
      BY <1>2 DEF Process
    <2>2. CASE \E i \in Slots : AddRequest(i, NewMsg("assoc", receiver.peer)) /\ UNCHANGED slaves
      BY <2>1, <2>2, AddRequestWait, PunctualKept
    <2>3. CASE slaves' = [slaves EXCEPT ![receiver.peer] = Associated(@)] /\ UNCHANGED sender
      <3>1. \A s \in Slaves : slaves'[s] \in {slaves[s], Associated(slaves[s])}
        BY <1>0, <2>3
      <3>2. \A s \in Slaves : Associated(slaves[s]).left = Ttl
        BY <1>0 DEF Associated, SlaveType
      <3>3. \A s \in Slaves : slaves'[s] = slaves[s] \/ slaves'[s].left = Ttl
        BY <3>1, <3>2
      <3> QED BY <2>1, <2>3, <3>3, PunctualKept
    <2>4. CASE UNCHANGED <<slaves, sender>>
      BY <2>1, <2>4, PunctualKept
    <2> QED BY <1>2, <2>2, <2>3, <2>4 DEF Process
  <1>3. CASE Network
    <2>1. UNCHANGED <<hello, sender>>
      BY <1>3 DEF Network, ReceiveDiscover, ReceiveAnswer
    <2>2. \A s \in Slaves : slaves'[s].status = slaves[s].status /\ slaves'[s].left = slaves[s].left
      <3>1. \/ UNCHANGED slaves
            \/ \E a \in Addrs, sid \in Slaves : slaves' = [slaves EXCEPT ![sid].addr = a]
        BY <1>3 DEF Network, ReceiveDiscover, ReceiveAnswer
      <3> QED BY <1>0, <3>1 DEF SlaveType
    <2> QED BY <2>1, <2>2, PunctualKept
  <1>4. CASE \E t \in Threads : HttpSubmit(t)
    <2>1. PICK t \in Threads : HttpSubmit(t)
      BY <1>4
    <2>2. UNCHANGED <<slaves, hello>> /\ AddRequest(threads[t].msg, msgs[threads[t].msg])
      BY <2>1 DEF HttpSubmit
    <2>3. sender.pc # "transmit" /\ sender'.pc = sender.pc /\ sender'.wait = 0
      BY <1>0, <2>2 DEF AddRequest, MutexFree, SenderWaiting, SenderType
    <2> QED BY <2>2, <2>3, PunctualKept
  <1>5. CASE UNCHANGED <<slaves, hello, sender>>
    BY <1>5, PunctualKept
  <1> QED
    BY <1>1, <1>2, <1>3, <1>4, <1>5
    DEF Receiver, Correlate, Link, WakeUp, Http, HttpRequest, HttpThread, HttpPrepare, HttpWait,
        HttpReturn, Crashed, vars

\* PInv holds of every reachable state of an engine whose threads are punctual.
LEMMA PunctualInvariant ==
  ASSUME Punctual
  PROVE  Spec => []PInv
  <1>1. Init => PInv
    <2> SUFFICES ASSUME Init
                 PROVE  PInv
      OBVIOUS
    <2>1. hello \in Int /\ hello <= Longest
      BY EngineAssumption DEF Init, Longest, AtLeast
    <2>2. sender.pc = "waiting" /\ sender.wait = 0
      BY DEF Init
    <2>3. \A s \in Slaves : slaves[s].status = "INACTIVE"
      BY DEF Init, Inactive
    <2> QED BY <2>1, <2>2, <2>3, Dates DEF PInv
  <1>2. TypeOK /\ TypeOK' /\ PInv /\ [Next]_vars => PInv'
    BY PunctualSender, PunctualOthers DEF Next
  <1> QED BY <1>1, <1>2, EngineTypeCorrect, PTL DEF Spec

(***************************************************************************)
(* The end of the lease of a slave is seen on time, or late by what the    *)
(* interval between Hellos exceeds the lease, for every TTL and interval.  *)
(* The hypotheses are those of the run: threads that take no time, and a   *)
(* first Hello that does not come later than a periodic one would, as with *)
(* the delays of the configuration files and the default ones.             *)
(***************************************************************************)
THEOREM ExpiryAlwaysOnTime ==
  ASSUME Punctual, FirstHello <= HelloInterval
  PROVE  Spec => []ExpiryOnTime
  <1>1. TypeOK /\ PInv => ExpiryOnTime
    <2> SUFFICES ASSUME TypeOK, PInv, NEW s \in Slaves, slaves[s].status = "RUNNING"
                 PROVE  slaves[s].left >= - NonNeg(HelloInterval - Ttl)
      BY DEF ExpiryOnTime
    <2>1. slaves[s].left \in Int /\ sender.wait \in Int
      BY DEF TypeOK, SlaveType
    <2>2. Late = NonNeg(HelloInterval - Ttl)
      BY EngineAssumption DEF Late, Longest, AtLeast
    <2>3. slaves[s].left >= - Late
      BY <2>1, Dates DEF PInv
    <2> QED BY <2>2, <2>3
  <1> QED BY <1>1, PunctualInvariant, EngineTypeCorrect, PTL

=============================================================================
