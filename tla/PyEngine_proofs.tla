--------------------------- MODULE PyEngine_proofs ---------------------------
(***************************************************************************)
(* Proofs about PyEngine, for any slaves, addresses and messages, whatever *)
(* the TTL, the timeouts and the lifetime of a message.                    *)
(***************************************************************************)
EXTENDS PyEngine, TLAPS

\* What is true of a message in every state.  While a coroutine waits for it, frames
\* are one ahead of the count of its retransmissions, none was sent after its answer,
\* and an answer has put an end to the count.
Sound(m) ==
  /\ m.extra <= 1 /\ m.sent <= MaxRetransmit + 2
  /\ m.phase \in {"waiting", "late"} =>
       /\ m.extra = 0 /\ m.sent <= m.ntrans + 1 /\ m.ntrans <= MaxRetransmit
       /\ m.answers > 0 => m.ntrans = MaxRetransmit

SoundMsgs == {m \in MsgType : Sound(m)}

ObserverType ==
  [known : BOOLEAN, status : {"INACTIVE", "ACTIVE"}, last : Nat, asked : BOOLEAN]

Typed ==
  /\ slaves \in [Slaves -> SlaveType]
  /\ timers \in [Slaves -> SUBSET (0..Ttl)]
  /\ observers \in [Slaves -> ObserverType]
  /\ hello \in 0..HelloInterval

PInv ==
  /\ Typed
  /\ msgs \in [Slots -> SoundMsgs]
  /\ RunningIsTimed /\ AddressesDistinct /\ ObserversAsked

---------------------------------------------------------------------------
(* What the operators on messages return *)

\* A slot that is not in use is sound.
LEMMA NoMsgSound == NoMsg \in SoundMsgs
  BY PyAssumption DEF SoundMsgs, MsgType, Sound, NoMsg

\* Msg.send counts the frame, and the frames after the answer, and leaves the rest.
LEMMA SendType ==
  ASSUME NEW m \in MsgType, NEW ok \in BOOLEAN
  PROVE  /\ Send(m, ok) \in MsgType
         /\ Send(m, ok).kind = m.kind
         /\ Send(m, ok).phase = m.phase /\ Send(m, ok).answers = m.answers
         /\ Send(m, ok).ntrans = m.ntrans /\ Send(m, ok).timeout = m.timeout
         /\ Send(m, ok).left = m.left
         /\ Send(m, ok).sent \in {m.sent, m.sent + 1}
         /\ Send(m, ok).extra \in {m.extra, m.extra + 1}
         /\ m.answers = 0 => Send(m, ok).extra = m.extra
  <1> DEFINE s == IF m.sent < SentBound THEN m.sent + 1 ELSE m.sent
             x == IF Answered(m) THEN m.extra + 1 ELSE m.extra
             t == TRUE
             r == [m EXCEPT !.listed = t, !.expire = Lifetime, !.sent = s, !.extra = x]
  <1>1. /\ s \in Nat /\ s \in {m.sent, m.sent + 1}
        /\ x \in Nat /\ x \in {m.extra, m.extra + 1}
        /\ m.answers = 0 => x = m.extra
    BY DEF MsgType, Answered
  <1>2. Send(m, ok) = IF ok THEN r ELSE m
    BY DEF Send
  <1>3. t \in BOOLEAN /\ Lifetime \in Int BY PyAssumption
  <1> HIDE DEF s, x, t
  <1>4. /\ r \in MsgType /\ r.sent = s /\ r.extra = x
        /\ r.kind = m.kind /\ r.phase = m.phase
        /\ r.answers = m.answers /\ r.ntrans = m.ntrans
        /\ r.timeout = m.timeout /\ r.left = m.left
    <2>1. m.expire \in Int /\ m.sent \in Nat /\ m.extra \in Nat BY DEF MsgType
    <2>2. r \in MsgType BY <1>1, <1>3 DEF MsgType
    <2>q. QED BY <2>2, <1>1, <1>3 DEF MsgType
  <1> HIDE DEF r
  <1>q. QED BY <1>1, <1>2, <1>4

\* So is what remains of a message.
LEMMA RemainsSound == ASSUME NEW m \in SoundMsgs PROVE Remains(m) \in SoundMsgs
  BY NoMsgSound DEF Remains

\* So is a message that has just been sent, or whose first sending has failed.
LEMMA FirstSound ==
  ASSUME NEW m \in MsgType, NEW ok \in BOOLEAN,
         m.sent = 0, m.extra = 0, m.answers = 0, m.ntrans = 0
  PROVE  Send(m, ok) \in SoundMsgs
  <1> DEFINE p == Send(m, ok)
  <1>1. p \in MsgType /\ p.answers = 0 /\ p.ntrans = 0 /\ p.sent \in {0, 1} /\ p.extra = 0
    BY SendType
  <1> HIDE DEF p
  <1>2. Sound(p) BY <1>1, PyAssumption DEF Sound
  <1>q. QED BY <1>1, <1>2 DEF SoundMsgs, p

\* The messages that no coroutine waits for, and those of HTTP requests, are so sent.
LEMMA PostSound ==
  ASSUME NEW kind \in {"assoc", "request"}, NEW ok \in BOOLEAN
  PROVE  Post(kind, ok) \in SoundMsgs
  <1> DEFINE n == NoMsg
             phase == "posted"
             m == [n EXCEPT !.kind = kind, !.phase = phase]
  <1>1. n \in MsgType /\ n.sent = 0 /\ n.extra = 0 /\ n.answers = 0 /\ n.ntrans = 0
    BY DEF NoMsg, MsgType
  <1>2. phase \in {"posted", "waiting"} OBVIOUS
  <1> HIDE DEF n, phase
  <1>3. m \in MsgType /\ m.sent = 0 /\ m.extra = 0 /\ m.answers = 0 /\ m.ntrans = 0
    <2>1. m \in MsgType BY <1>1, <1>2 DEF MsgType
    <2>q. QED BY <2>1, <1>1 DEF MsgType
  <1> HIDE DEF m
  <1>4. Remains(Send(m, ok)) \in SoundMsgs BY <1>3, FirstSound, RemainsSound
  <1>q. QED BY <1>4 DEF Post, m, n, phase

LEMMA WaitingSound ==
  ASSUME NEW ok \in BOOLEAN
  PROVE  Send([NoMsg EXCEPT !.kind = "request", !.phase = "waiting",
                            !.timeout = AckTimeout, !.left = AckTimeout], ok) \in SoundMsgs
  <1> DEFINE n == NoMsg
             kind == "request"
             phase == "waiting"
             m == [n EXCEPT !.kind = kind, !.phase = phase,
                            !.timeout = AckTimeout, !.left = AckTimeout]
  <1>1. n \in MsgType /\ n.sent = 0 /\ n.extra = 0 /\ n.answers = 0 /\ n.ntrans = 0
    BY DEF NoMsg, MsgType
  <1>2. /\ phase \in {"posted", "waiting"} /\ kind \in {"assoc", "request"}
        /\ AckTimeout \in Nat
    BY PyAssumption
  <1> HIDE DEF n, phase, kind
  <1>3. m \in MsgType /\ m.sent = 0 /\ m.extra = 0 /\ m.answers = 0 /\ m.ntrans = 0
    <2>1. m \in MsgType BY <1>1, <1>2 DEF MsgType
    <2>q. QED BY <2>1, <1>1 DEF MsgType
  <1> HIDE DEF m
  <1>4. Send(m, ok) \in SoundMsgs BY <1>3, FirstSound
  <1>q. QED BY <1>4 DEF m, n, phase, kind

\* So is a message that has its first answer.
LEMMA GotReplySound ==
  ASSUME NEW m \in SoundMsgs, ~ Answered(m)
  PROVE  GotReply(m) \in SoundMsgs
  <1> DEFINE g == GotReply(m)
  <1>1. m \in MsgType /\ Sound(m) /\ m.answers = 0 BY DEF SoundMsgs, Answered, MsgType
  <1>2. /\ g \in MsgType /\ g.answers = 1 /\ g.ntrans = MaxRetransmit /\ g.sent = m.sent
        /\ g.extra = m.extra /\ g.kind = m.kind /\ g.phase = m.phase
    <2> DEFINE a == m.answers + 1
               r == [m EXCEPT !.answers = a, !.ntrans = MaxRetransmit]
    <2>1. a = 1 /\ a \in Nat /\ MaxRetransmit \in Nat BY <1>1, PyAssumption
    <2>2. g = r BY DEF GotReply
    <2> HIDE DEF a
    <2>3. /\ r \in MsgType /\ r.answers = a /\ r.ntrans = MaxRetransmit
          /\ r.kind = m.kind /\ r.phase = m.phase
          /\ r.sent = m.sent /\ r.extra = m.extra
      <3>1. r \in MsgType BY <1>1, <2>1 DEF MsgType
      <3>q. QED BY <3>1, <1>1, <2>1 DEF MsgType
    <2> HIDE DEF r, g
    <2>q. QED BY <2>1, <2>2, <2>3
  <1> HIDE DEF g
  <1>3. Sound(g) BY <1>1, <1>2, PyAssumption DEF Sound, MsgType
  <1>q. QED BY <1>2, <1>3 DEF SoundMsgs, g

\* A retransmission, then a wait again or not.
LEMMA RetransmitSound ==
  ASSUME NEW m \in SoundMsgs, m.phase = "late", NEW ok \in BOOLEAN
  PROVE  Remains(NextTimeout(Send(m, ok))) \in SoundMsgs
  <1> DEFINE s == Send(m, ok)
  <1>1. m \in MsgType /\ Sound(m) BY DEF SoundMsgs
  <1>2. /\ s \in MsgType /\ s.kind = m.kind /\ s.phase = "late"
        /\ s.answers = m.answers /\ s.ntrans = m.ntrans
        /\ s.sent \in {m.sent, m.sent + 1} /\ s.extra \in {m.extra, m.extra + 1}
        /\ m.answers = 0 => s.extra = m.extra
    BY <1>1, SendType
  <1> HIDE DEF s
  <1> DEFINE n == NextTimeout(s)
  <1>3. ASSUME s.ntrans < MaxRetransmit PROVE n \in SoundMsgs
    <2> DEFINE phase == "waiting"
               ntrans == s.ntrans + 1
               timeout == 2 * s.timeout
               r == [s EXCEPT !.phase = phase, !.ntrans = ntrans, !.timeout = timeout,
                              !.left = timeout]
    <2>1. ntrans \in Nat /\ timeout \in Nat BY <1>2 DEF MsgType
    <2>2. phase \in {"posted", "waiting"} OBVIOUS
    <2>3. n = r BY <1>3 DEF NextTimeout
    <2> HIDE DEF ntrans, timeout, phase
    <2>4. /\ r \in MsgType /\ r.phase = phase /\ r.ntrans = ntrans
          /\ r.kind = s.kind /\ r.answers = s.answers
          /\ r.sent = s.sent /\ r.extra = s.extra
      <3>1. r \in MsgType BY <1>2, <2>1, <2>2 DEF MsgType
      <3>q. QED BY <3>1, <1>2, <2>1, <2>2 DEF MsgType
    <2> HIDE DEF r, n
    <2>5. phase = "waiting" /\ ntrans = s.ntrans + 1 BY DEF phase, ntrans
    <2>6. Sound(r)
      BY <1>1, <1>2, <1>3, <2>4, <2>5, PyAssumption DEF Sound, MsgType
    <2>q. QED BY <2>3, <2>4, <2>6 DEF SoundMsgs
  <1>4. ASSUME ~ (s.ntrans < MaxRetransmit) PROVE n \in SoundMsgs
    <2> DEFINE r == [s EXCEPT !.phase = "posted", !.timeout = 0]
    <2>1. n = r BY <1>4 DEF NextTimeout
    <2>2. /\ r \in MsgType /\ r.phase = "posted"
          /\ r.kind = s.kind /\ r.answers = s.answers
          /\ r.sent = s.sent /\ r.extra = s.extra
      BY <1>2 DEF MsgType
    <2> HIDE DEF r, n
    <2>3. Sound(r)
      BY <1>1, <1>2, <1>4, <2>2, PyAssumption DEF Sound, MsgType
    <2>q. QED BY <2>1, <2>2, <2>3 DEF SoundMsgs
  <1>5. n \in SoundMsgs BY <1>3, <1>4
  <1> HIDE DEF n
  <1>6. Remains(n) \in SoundMsgs BY <1>5, RemainsSound
  <1>q. QED BY <1>6 DEF n, s

\* So is a message whose timer has expired.
LEMMA LateSound ==
  ASSUME NEW m \in SoundMsgs, m.phase = "waiting"
  PROVE  [m EXCEPT !.phase = "late"] \in SoundMsgs
  <1> DEFINE l == [m EXCEPT !.phase = "late"]
  <1>1. m \in MsgType /\ Sound(m) BY DEF SoundMsgs
  <1>2. /\ l \in MsgType /\ l.sent = m.sent /\ l.extra = m.extra /\ l.answers = m.answers
        /\ l.ntrans = m.ntrans /\ l.kind = m.kind
    BY <1>1 DEF MsgType
  <1> HIDE DEF l
  <1>3. Sound(l) BY <1>1, <1>2 DEF Sound
  <1>q. QED BY <1>2, <1>3 DEF SoundMsgs, l

\* So is a message that its coroutine no longer waits for.
LEMMA ReturnSound ==
  ASSUME NEW m \in SoundMsgs
  PROVE  Remains([m EXCEPT !.phase = "posted", !.timeout = 0, !.left = 0]) \in SoundMsgs
  <1> DEFINE r == [m EXCEPT !.phase = "posted", !.timeout = 0, !.left = 0]
  <1>1. m \in MsgType /\ Sound(m) BY DEF SoundMsgs
  <1>2. /\ r \in MsgType /\ r.sent = m.sent /\ r.extra = m.extra /\ r.answers = m.answers
        /\ r.phase = "posted" /\ r.kind = m.kind
    BY <1>1 DEF MsgType
  <1> HIDE DEF r
  <1>3. Sound(r) BY <1>1, <1>2 DEF Sound
  <1>4. r \in SoundMsgs BY <1>2, <1>3 DEF SoundMsgs
  <1>5. Remains(r) \in SoundMsgs BY <1>4, RemainsSound
  <1>q. QED BY <1>5 DEF r

\* The list of sent messages and the dates do not matter.
LEMMA ListedSound ==
  ASSUME NEW m \in SoundMsgs, NEW listed \in BOOLEAN
  PROVE  [m EXCEPT !.listed = listed] \in SoundMsgs
  BY DEF SoundMsgs, MsgType, Sound

\* The dates of a message do not matter.
LEMMA DatesSound ==
  ASSUME NEW m \in SoundMsgs, NEW left \in Nat, NEW expire \in Int
  PROVE  [m EXCEPT !.left = left, !.expire = expire] \in SoundMsgs
  BY DEF SoundMsgs, MsgType, Sound

---------------------------------------------------------------------------
(* Steps *)

\* The invariant holds initially.
LEMMA InitHolds == Init => PInv
  <1> SUFFICES ASSUME Init PROVE PInv OBVIOUS
  <1>1. Reset \in SlaveType /\ Reset.status = "INACTIVE" /\ Reset.addr = None
    BY DEF Reset, SlaveType
  <1>2. NoObserver \in ObserverType BY DEF NoObserver, ObserverType
  <1>3. hello \in 0..HelloInterval BY PyAssumption DEF Init
  <1>4. Typed BY <1>1, <1>2, <1>3 DEF Init, Typed
  <1>5. msgs \in [Slots -> SoundMsgs] BY NoMsgSound DEF Init
  <1>6. RunningIsTimed /\ AddressesDistinct /\ ObserversAsked
    BY <1>1 DEF Init, RunningIsTimed, AddressesDistinct, ObserversAsked
  <1>q. QED BY <1>4, <1>5, <1>6 DEF PInv

\* The observers, when one of them has a new value or is started again.
LEMMA ObserverTypes ==
  ASSUME NEW o \in ObserverType, NEW serial \in Nat, NEW ok \in BOOLEAN
  PROVE  /\ Started(o, ok) \in ObserverType
         /\ ok = TRUE => Started(o, ok).asked = TRUE
         /\ SetValue(o, serial) \in ObserverType
         /\ SetValue(o, serial).known = o.known
         /\ SetValue(o, serial).asked = o.asked
  <1> DEFINE asked == o.asked \/ ok
  <1>0. asked \in BOOLEAN /\ (ok = TRUE => asked = TRUE) BY DEF ObserverType
  <1>1. Started(o, ok) \in ObserverType /\ (ok = TRUE => Started(o, ok).asked = TRUE)
    <2>1. Started(o, ok) = [o EXCEPT !.status = "INACTIVE", !.asked = asked] BY DEF Started
    <2> HIDE DEF asked
    <2>2. Started(o, ok) \in ObserverType /\ Started(o, ok).asked = asked
      BY <1>0, <2>1 DEF ObserverType
    <2>q. QED BY <1>0, <2>2
  <1>2. [o EXCEPT !.status = "ACTIVE", !.last = serial] \in ObserverType
    BY DEF ObserverType
  <1>q. QED BY <1>1, <1>2 DEF SetValue, ObserverType

\* Values that the observers take do not concern the slaves.
LEMMA SetValueKeeps ==
  ASSUME PInv, UNCHANGED <<slaves, timers, hello>>, msgs' \in [Slots -> SoundMsgs],
         NEW s \in Slaves, NEW serial \in Nat,
         observers' = [observers EXCEPT ![s] = SetValue(@, serial)]
  PROVE  PInv'
  <1>1. observers[s] \in ObserverType BY DEF PInv, Typed
  <1> DEFINE o == SetValue(observers[s], serial)
  <1>2. /\ o \in ObserverType /\ o.known = observers[s].known
        /\ o.asked = observers[s].asked
    <2>1. TRUE \in BOOLEAN OBVIOUS
    <2>q. QED BY <1>1, <2>1, ObserverTypes
  <1>3. observers' = [observers EXCEPT ![s] = o] OBVIOUS
  <1> HIDE DEF o
  <1>4. Typed' BY <1>2, <1>3 DEF PInv, Typed
  <1>5. RunningIsTimed' /\ AddressesDistinct'
    BY DEF PInv, RunningIsTimed, AddressesDistinct
  <1>6. ObserversAsked'
    BY <1>2, <1>3 DEF PInv, Typed, ObserversAsked
  <1>q. QED BY <1>4, <1>5, <1>6 DEF PInv

\* Steps that only concern messages.
LEMMA MessagesKeep ==
  ASSUME PInv, UNCHANGED <<slaves, timers, observers, hello>>, msgs' \in [Slots -> SoundMsgs]
  PROVE  PInv'
  BY DEF PInv, Typed, RunningIsTimed, AddressesDistinct, ObserversAsked

\* A transmission succeeds or fails.
LEMMA OutcomeType ==
  /\ Outcomes \subseteq BOOLEAN
  /\ ~ SendFails => \A ok \in Outcomes : ok = TRUE
  BY DEF Outcomes

\* The periodic Hello keeps the invariant.
LEMMA SendHelloKeeps == ASSUME PInv, SendHello PROVE PInv'
  <1>1. \A i \in Slots : msgs[i] \in SoundMsgs BY DEF PInv
  <1>2. \A i \in Slots : Kept(msgs[i]) \in BOOLEAN
    BY <1>1 DEF Kept, SoundMsgs, MsgType
  <1>3. \A i \in Slots : Remains([msgs[i] EXCEPT !.listed = Kept(msgs[i])]) \in SoundMsgs
    <2> SUFFICES ASSUME NEW i \in Slots
                 PROVE  Remains([msgs[i] EXCEPT !.listed = Kept(msgs[i])]) \in SoundMsgs
      OBVIOUS
    <2> DEFINE k == Kept(msgs[i])
               m == [msgs[i] EXCEPT !.listed = k]
    <2>1. k \in BOOLEAN BY <1>2
    <2> HIDE DEF k
    <2>2. m \in SoundMsgs BY <1>1, <2>1, ListedSound
    <2> HIDE DEF m
    <2>3. Remains(m) \in SoundMsgs BY <2>2, RemainsSound
    <2>q. QED BY <2>3 DEF m, k
  <1>4. msgs' \in [Slots -> SoundMsgs] BY <1>3 DEF SendHello
  <1>5. hello' \in 0..HelloInterval BY PyAssumption DEF SendHello
  <1>q. QED BY <1>4, <1>5
          DEF SendHello, PInv, Typed, RunningIsTimed, AddressesDistinct, ObserversAsked

\* A call that is due is the last one only if the association is over.
LEMMA SlaveTimeoutKeeps == ASSUME PInv, NEW s \in Slaves, SlaveTimeout(s) PROVE PInv'
  <1> USE DEF SlaveTimeout
  <1>1. timers' \in [Slaves -> SUBSET (0..Ttl)] BY DEF PInv, Typed
  <1>2. \A r \in Slaves : timers'[r] = IF r = s THEN timers[s] \ {0} ELSE timers[r]
    BY DEF PInv, Typed
  <1>3. CASE slaves[s].status = "RUNNING" /\ slaves[s].left <= 0
    <2>1. Reset \in SlaveType /\ Reset.status = "INACTIVE" /\ Reset.addr = None
      BY DEF Reset, SlaveType
    <2>2. slaves' = [slaves EXCEPT ![s] = Reset] BY <1>3
    <2>3. slaves' \in [Slaves -> SlaveType] BY <2>1, <2>2 DEF PInv, Typed
    <2>4. \A r \in Slaves : slaves'[r] = IF r = s THEN Reset ELSE slaves[r]
      BY <2>2 DEF PInv, Typed
    <2>5. observers' = [observers EXCEPT ![s].asked = FALSE] BY <1>3
    <2>6. [observers[s] EXCEPT !.asked = FALSE] \in ObserverType
      BY DEF PInv, Typed, ObserverType
    <2>7. /\ observers' \in [Slaves -> ObserverType]
          /\ \A r \in Slaves : r # s => observers'[r] = observers[r]
      BY <2>5, <2>6 DEF PInv, Typed
    <2>8. Typed' BY <1>1, <2>3, <2>7 DEF PInv, Typed
    <2>9. RunningIsTimed' BY <1>2, <2>1, <2>4 DEF PInv, RunningIsTimed
    <2>10. AddressesDistinct' BY <2>1, <2>4 DEF PInv, AddressesDistinct
    <2>11. ObserversAsked' BY <2>1, <2>4, <2>7 DEF PInv, ObserversAsked
    <2>q. QED BY <2>8, <2>9, <2>10, <2>11 DEF PInv
  <1>4. CASE ~ (slaves[s].status = "RUNNING" /\ slaves[s].left <= 0)
    <2>1. UNCHANGED <<slaves, observers, msgs, hello>> BY <1>4
    <2>2. RunningIsTimed'
      BY <1>2, <1>4, <2>1 DEF PInv, Typed, RunningIsTimed, SlaveType
    <2>q. QED BY <1>1, <2>1, <2>2 DEF PInv, Typed, AddressesDistinct, ObserversAsked
  <1>q. QED BY <1>3, <1>4

\* A Discover gives an address to a slave only if it is the address of none.
LEMMA DiscoverKeeps ==
  ASSUME PInv, NEW sid \in Slaves, NEW a \in Addrs, ReceiveDiscover(sid, a)
  PROVE  PInv'
  <1>1. PICK s \in FindPeer(a, {sid}), i \in Free, ok \in Outcomes :
          /\ slaves' = [slaves EXCEPT ![s] = ResetDiscover(@, a)]
          /\ msgs' = [msgs EXCEPT ![i] = Post("assoc", ok)]
          /\ UNCHANGED <<timers, observers, hello>>
    BY DEF ReceiveDiscover
  <1>2. /\ s \in Slaves
        /\ slaves[s].addr = a \/ \A r \in Slaves : slaves[r].addr # a
    BY DEF FindPeer
  <1>3. msgs' \in [Slots -> SoundMsgs]
    <2>1. Post("assoc", ok) \in SoundMsgs BY PostSound, OutcomeType
    <2>q. QED BY <1>1, <2>1 DEF PInv, Free
  <1> DEFINE d == ResetDiscover(slaves[s], a)
             b == IF slaves[s].addr = None THEN a ELSE slaves[s].addr
  <1>4. slaves[s] \in SlaveType /\ a # None BY <1>2, PyAssumption DEF PInv, Typed
  <1>5. b \in Addrs \cup {None} BY <1>4 DEF SlaveType
  <1>6. d = [slaves[s] EXCEPT !.addr = b] BY DEF ResetDiscover
  <1>7. slaves' = [slaves EXCEPT ![s] = d] BY <1>1
  <1>8. b # None /\ (slaves[s].addr = None => b = a) /\ (slaves[s].addr # None => b = slaves[s].addr)
    BY <1>4
  <1> HIDE DEF b, d
  <1>9. /\ d \in SlaveType /\ d.addr = b /\ d.status = slaves[s].status
        /\ d.left = slaves[s].left /\ d.res = slaves[s].res
    BY <1>4, <1>5, <1>6 DEF SlaveType
  <1>10. \A r \in Slaves : slaves'[r] = IF r = s THEN d ELSE slaves[r]
    BY <1>2, <1>7 DEF PInv, Typed
  <1>11. Typed' BY <1>1, <1>2, <1>7, <1>9 DEF PInv, Typed
  <1>12. RunningIsTimed' BY <1>1, <1>8, <1>9, <1>10 DEF PInv, RunningIsTimed
  <1>13. AddressesDistinct'
    BY <1>2, <1>8, <1>9, <1>10 DEF PInv, AddressesDistinct
  <1>14. ObserversAsked' BY <1>1, <1>9, <1>10 DEF PInv, ObserversAsked
  <1>q. QED BY <1>3, <1>11, <1>12, <1>13, <1>14 DEF PInv

\* What the answer to an Assoc changes of the slave, its timers and its observer.
LEMMA AssociatedKeeps ==
  ASSUME PInv, NEW s \in Slaves, NEW a \in Addrs, NEW found \in BOOLEAN,
         slaves[s].addr = a, msgs' \in [Slots -> SoundMsgs], UNCHANGED hello,
         slaves' = [slaves EXCEPT ![s] = Associated(@, a, found)],
         timers' = [timers EXCEPT ![s] = Scheduled(@)],
         \/ \E ok \in Outcomes :
              /\ observers[s].known /\ found
              /\ observers' = [observers EXCEPT ![s] = Started(@, ok)]
         \/ /\ ~ (observers[s].known /\ found)
            /\ UNCHANGED observers
  PROVE  PInv'
  <1> DEFINE n == Associated(slaves[s], a, found)
  <1>1. /\ n \in SlaveType /\ n.status = "RUNNING" /\ n.addr = a /\ n.left = Ttl
        /\ n.res = IF found THEN "full" ELSE "none"
    BY PyAssumption DEF Associated, SlaveType
  <1>2. slaves' = [slaves EXCEPT ![s] = n] OBVIOUS
  <1> HIDE DEF n
  <1>3. \A r \in Slaves : slaves'[r] = IF r = s THEN n ELSE slaves[r]
    BY <1>2 DEF PInv, Typed
  <1>4. slaves' \in [Slaves -> SlaveType] BY <1>1, <1>2 DEF PInv, Typed
  <1>5. /\ timers' \in [Slaves -> SUBSET (0..Ttl)]
        /\ \A r \in Slaves : timers'[r] = IF r = s THEN timers[s] \cup {Ttl} ELSE timers[r]
    BY PyAssumption DEF Scheduled, PInv, Typed
  <1>6. RunningIsTimed' BY <1>1, <1>3, <1>5, PyAssumption DEF PInv, RunningIsTimed
  <1>7. AddressesDistinct' BY <1>1, <1>3 DEF PInv, AddressesDistinct
  <1>8. ASSUME NEW ok \in Outcomes, observers[s].known, found,
               observers' = [observers EXCEPT ![s] = Started(@, ok)]
        PROVE  PInv'
    <2> DEFINE o == Started(observers[s], ok)
    <2>1. o \in ObserverType /\ (~ SendFails => o.asked = TRUE)
      <3>1. observers[s] \in ObserverType /\ 0 \in Nat /\ ok \in BOOLEAN
        BY OutcomeType DEF PInv, Typed
      <3>q. QED BY <3>1, ObserverTypes, OutcomeType
    <2>2. observers' = [observers EXCEPT ![s] = o] BY <1>8
    <2> HIDE DEF o
    <2>3. /\ observers' \in [Slaves -> ObserverType]
          /\ \A r \in Slaves : observers'[r] = IF r = s THEN o ELSE observers[r]
      BY <2>1, <2>2 DEF PInv, Typed
    <2>4. Typed' BY <1>4, <1>5, <2>3 DEF PInv, Typed
    <2>5. ObserversAsked' BY <1>3, <2>1, <2>3 DEF PInv, ObserversAsked
    <2>q. QED BY <1>6, <1>7, <2>4, <2>5 DEF PInv
  <1>9. CASE /\ ~ (observers[s].known /\ found)
             /\ UNCHANGED observers
    <2>1. Typed' BY <1>4, <1>5, <1>9 DEF PInv, Typed
    <2>2. ObserversAsked' BY <1>1, <1>3, <1>9 DEF PInv, ObserversAsked
    <2>q. QED BY <1>6, <1>7, <2>1, <2>2 DEF PInv
  <1>q. QED BY <1>8, <1>9

\* The list of resources could not be read.
LEMMA UnparsableKeeps ==
  ASSUME PInv, NEW s \in Slaves, NEW found \in BOOLEAN,
         msgs' \in [Slots -> SoundMsgs], UNCHANGED <<hello, timers, observers>>,
         slaves' = [slaves EXCEPT ![s] = Unparsable(@, found)]
  PROVE  PInv'
  <1> DEFINE res == IF found THEN "partial" ELSE "none"
             n == [slaves[s] EXCEPT !.res = res]
  <1>1. slaves' = [slaves EXCEPT ![s] = n] BY DEF Unparsable
  <1>2. res \in {"none", "partial"} OBVIOUS
  <1>3. slaves[s] \in SlaveType BY DEF PInv, Typed
  <1> HIDE DEF res
  <1>4. /\ n \in SlaveType /\ n.status = slaves[s].status /\ n.addr = slaves[s].addr
        /\ n.left = slaves[s].left /\ n.res = res
    BY <1>2, <1>3 DEF SlaveType
  <1> HIDE DEF n
  <1>5. /\ slaves' \in [Slaves -> SlaveType]
        /\ \A r \in Slaves : slaves'[r] = IF r = s THEN n ELSE slaves[r]
    BY <1>1, <1>4 DEF PInv, Typed
  <1>6. Typed' BY <1>5 DEF PInv, Typed
  <1>7. RunningIsTimed' BY <1>4, <1>5 DEF PInv, RunningIsTimed
  <1>8. AddressesDistinct' BY <1>4, <1>5 DEF PInv, AddressesDistinct
  <1>9. ObserversAsked' BY <1>2, <1>4, <1>5 DEF PInv, ObserversAsked
  <1>q. QED BY <1>6, <1>7, <1>8, <1>9 DEF PInv

\* So does an answer, to an Assoc or to a request.
LEMMA AnswerKeeps ==
  ASSUME PInv, NEW i \in Slots, NEW a \in Addrs, ReceiveAnswer(i, a)
  PROVE  PInv'
  <1>1. PICK s \in FindPeer(a, {}) :
          \/ \E found \in Lists(s) : ReceiveAssocAnswer(i, s, a, found)
          \/ ReceiveReply(i, s)
    BY DEF ReceiveAnswer
  <1>2. s \in Slaves /\ slaves[s].addr = a BY DEF FindPeer
  <1>3. msgs[i] \in SoundMsgs /\ ~ Answered(msgs[i]) BY DEF ReceiveAnswer, Answerable, PInv
  <1> DEFINE g == GotReply(msgs[i])
  <1>5. g \in SoundMsgs BY <1>3, GotReplySound
  <1> HIDE DEF g
  <1>6. [msgs EXCEPT ![i] = g] \in [Slots -> SoundMsgs] BY <1>5 DEF PInv
  <1>7. Lists(s) \subseteq BOOLEAN BY DEF Lists
  <1>8. ASSUME NEW found \in Lists(s), ReceiveAssocAnswer(i, s, a, found) PROVE PInv'
    <2>1. UNCHANGED hello BY <1>8 DEF ReceiveAssocAnswer
    <2>2. CASE /\ slaves' = [slaves EXCEPT ![s] = Associated(@, a, found)]
               /\ timers' = [timers EXCEPT ![s] = Scheduled(@)]
               /\ StartAll(s, i, found)
      <3>1. CASE observers[s].known /\ found
        <4>1. PICK j \in Free \ {i}, ok \in Outcomes :
                /\ observers' = [observers EXCEPT ![s] = Started(@, ok)]
                /\ msgs' = [msgs EXCEPT ![i] = g, ![j] = Post("request", ok)]
          BY <2>2, <3>1 DEF StartAll, g
        <4> DEFINE p == Post("request", ok)
        <4>2. p \in SoundMsgs /\ j \in Slots BY PostSound, OutcomeType DEF Free
        <4> HIDE DEF p
        <4>3. msgs' = [msgs EXCEPT ![i] = g, ![j] = p] BY <4>1 DEF p
        <4>4. msgs' \in [Slots -> SoundMsgs] BY <1>5, <4>2, <4>3 DEF PInv
        <4>q. QED BY <1>2, <1>7, <2>1, <2>2, <3>1, <4>1, <4>4, AssociatedKeeps
      <3>2. CASE ~ (observers[s].known /\ found)
        <4>1. msgs' = [msgs EXCEPT ![i] = g] /\ UNCHANGED observers
          BY <2>2, <3>2 DEF StartAll, g
        <4>2. msgs' \in [Slots -> SoundMsgs] BY <1>6, <4>1
        <4>q. QED BY <1>2, <1>7, <2>1, <2>2, <3>2, <4>1, <4>2, AssociatedKeeps
      <3>q. QED BY <3>1, <3>2
    <2>3. CASE /\ slaves' = [slaves EXCEPT ![s] = Unparsable(@, found)]
               /\ msgs' = [msgs EXCEPT ![i] = GotReply(@)]
               /\ UNCHANGED <<timers, observers>>
      <3>1. msgs' \in [Slots -> SoundMsgs] BY <1>6, <2>3 DEF g
      <3>q. QED BY <1>2, <1>7, <2>1, <2>3, <3>1, UnparsableKeeps
    <2>q. QED BY <1>8, <2>2, <2>3 DEF ReceiveAssocAnswer
  <1>9. CASE ReceiveReply(i, s)
    <2>1. msgs' = [msgs EXCEPT ![i] = g] /\ UNCHANGED <<slaves, timers, hello>>
      BY <1>9 DEF ReceiveReply, g
    <2>2. msgs' \in [Slots -> SoundMsgs] BY <1>6, <2>1
    <2>3. CASE UNCHANGED observers BY <2>1, <2>2, <2>3, MessagesKeep
    <2>4. ASSUME NEW serial \in 0..MaxSerial,
                 observers' = [observers EXCEPT ![s] = SetValue(@, serial)]
          PROVE  PInv'
      <3>1. serial \in Nat BY PyAssumption
      <3>q. QED BY <1>2, <2>1, <2>2, <2>4, <3>1, SetValueKeeps
    <2>q. QED BY <1>9, <2>3, <2>4 DEF ReceiveReply
  <1>q. QED BY <1>1, <1>8, <1>9

\* So does a notification.
LEMMA NotificationKeeps == ASSUME PInv, NEW a \in Addrs, ReceiveNotification(a) PROVE PInv'
  <1>1. PICK s \in FindPeer(a, {}), serial \in 0..MaxSerial :
          /\ observers' = [observers EXCEPT ![s] = SetValue(@, serial)]
          /\ UNCHANGED <<slaves, timers, msgs, hello>>
    BY DEF ReceiveNotification
  <1>2. s \in Slaves /\ serial \in Nat BY PyAssumption DEF FindPeer
  <1>3. msgs' \in [Slots -> SoundMsgs] BY <1>1 DEF PInv
  <1>q. QED BY <1>1, <1>2, <1>3, SetValueKeeps

\* So does an HTTP request.
LEMMA HandleCasanKeeps == ASSUME PInv, NEW s \in Slaves, HandleCasan(s) PROVE PInv'
  <1> DEFINE m(ok) == Send([NoMsg EXCEPT !.kind = "request", !.phase = "waiting",
                                         !.timeout = AckTimeout, !.left = AckTimeout], ok)
  <1>1. PICK i \in Free, ok \in Outcomes : msgs' = [msgs EXCEPT ![i] = m(ok)]
    BY DEF HandleCasan
  <1>2. m(ok) \in SoundMsgs BY WaitingSound, OutcomeType
  <1> HIDE DEF m
  <1>3. msgs' \in [Slots -> SoundMsgs] BY <1>1, <1>2 DEF PInv, Free
  <1>q. QED BY <1>3, MessagesKeep DEF HandleCasan

\* So does each piece of a coroutine between two awaits.
LEMMA CoroutineKeeps == ASSUME PInv, NEW i \in Slots, Coroutine(i) PROVE PInv'
  <1>1. msgs[i] \in SoundMsgs BY DEF PInv
  <1>2. CASE TimerFires(i)
    <2> DEFINE m == [msgs[i] EXCEPT !.phase = "late"]
    <2>1. m \in SoundMsgs BY <1>1, <1>2, LateSound DEF TimerFires
    <2>2. msgs' = [msgs EXCEPT ![i] = m] BY <1>2 DEF TimerFires
    <2> HIDE DEF m
    <2>3. msgs' \in [Slots -> SoundMsgs] BY <2>1, <2>2 DEF PInv
    <2>q. QED BY <1>2, <2>3, MessagesKeep DEF TimerFires
  <1>3. CASE Retransmit(i)
    <2>1. PICK ok \in Outcomes : msgs' = [msgs EXCEPT ![i] = Remains(NextTimeout(Send(@, ok)))]
      BY <1>3 DEF Retransmit
    <2> DEFINE m == Remains(NextTimeout(Send(msgs[i], ok)))
    <2>2. m \in SoundMsgs BY <1>1, <1>3, RetransmitSound, OutcomeType DEF Retransmit
    <2>3. msgs' = [msgs EXCEPT ![i] = m] BY <2>1
    <2> HIDE DEF m
    <2>4. msgs' \in [Slots -> SoundMsgs] BY <2>2, <2>3 DEF PInv
    <2>q. QED BY <1>3, <2>4, MessagesKeep DEF Retransmit
  <1>4. CASE Return(i)
    <2> DEFINE m == Remains([msgs[i] EXCEPT !.phase = "posted", !.timeout = 0, !.left = 0])
    <2>1. m \in SoundMsgs BY <1>1, ReturnSound
    <2>2. msgs' = [msgs EXCEPT ![i] = m] BY <1>4 DEF Return
    <2> HIDE DEF m
    <2>3. msgs' \in [Slots -> SoundMsgs] BY <2>1, <2>2 DEF PInv
    <2>q. QED BY <1>4, <2>3, MessagesKeep DEF Return
  <1>q. QED BY <1>2, <1>3, <1>4 DEF Coroutine

\* A GET is sent for an observer that is added if the resource is there.
LEMMA ObserverKeeps ==
  ASSUME PInv, NEW s \in Slaves, AddObserver(s) \/ DelObserver(s)
  PROVE  PInv'
  <1>1. NoObserver \in ObserverType /\ NoObserver.known = FALSE
    BY DEF NoObserver, ObserverType
  <1> DEFINE added == [NoObserver EXCEPT !.known = TRUE]
  <1>2. added \in ObserverType BY DEF NoObserver, ObserverType
  <1>3. UNCHANGED <<slaves, timers, hello>> BY DEF AddObserver, DelObserver
  <1>4. RunningIsTimed' /\ AddressesDistinct'
    BY <1>3 DEF PInv, RunningIsTimed, AddressesDistinct
  <1>5. CASE DelObserver(s)
    <2>1. /\ observers' \in [Slaves -> ObserverType] /\ UNCHANGED msgs
          /\ \A r \in Slaves : observers'[r] = IF r = s THEN NoObserver ELSE observers[r]
      BY <1>1, <1>5 DEF DelObserver, PInv, Typed
    <2>2. ObserversAsked' BY <1>1, <1>3, <2>1 DEF PInv, ObserversAsked
    <2>q. QED BY <1>3, <1>4, <2>1, <2>2 DEF PInv, Typed
  <1>6. CASE AddObserver(s) /\ slaves[s].status = "RUNNING" /\ Found(s)
    <2>1. PICK i \in Free, ok \in Outcomes :
            /\ observers' = [observers EXCEPT ![s] = Started(added, ok)]
            /\ msgs' = [msgs EXCEPT ![i] = Post("request", ok)]
      BY <1>6 DEF AddObserver
    <2> DEFINE o == Started(added, ok)
               p == Post("request", ok)
    <2>2. o \in ObserverType /\ (~ SendFails => o.asked = TRUE)
      <3>1. 0 \in Nat /\ ok \in BOOLEAN BY OutcomeType
      <3> HIDE DEF added
      <3>q. QED BY <1>2, <3>1, ObserverTypes, OutcomeType
    <2>4. p \in SoundMsgs BY PostSound, OutcomeType
    <2>5. observers' = [observers EXCEPT ![s] = o] /\ msgs' = [msgs EXCEPT ![i] = p] BY <2>1
    <2> HIDE DEF o, p
    <2>6. /\ observers' \in [Slaves -> ObserverType]
          /\ \A r \in Slaves : observers'[r] = IF r = s THEN o ELSE observers[r]
      BY <2>2, <2>5 DEF PInv, Typed
    <2>7. msgs' \in [Slots -> SoundMsgs] BY <2>4, <2>5 DEF PInv, Free
    <2>8. ObserversAsked' BY <1>3, <2>2, <2>6 DEF PInv, ObserversAsked
    <2>q. QED BY <1>3, <1>4, <2>6, <2>7, <2>8 DEF PInv, Typed
  <1>7. CASE AddObserver(s) /\ ~ (slaves[s].status = "RUNNING" /\ Found(s))
    <2>1. observers' = [observers EXCEPT ![s] = added] /\ UNCHANGED msgs
      BY <1>7 DEF AddObserver
    <2> HIDE DEF added
    <2>2. /\ observers' \in [Slaves -> ObserverType]
          /\ \A r \in Slaves : r # s => observers'[r] = observers[r]
      BY <1>2, <2>1 DEF PInv, Typed
    <2>3. ObserversAsked' BY <1>3, <1>7, <2>2 DEF PInv, ObserversAsked, Found
    <2>q. QED BY <1>3, <1>4, <2>1, <2>2, <2>3 DEF PInv, Typed
  <1>q. QED BY <1>5, <1>6, <1>7

\* When nothing is due, no timer of a slave is at its date.
LEMMA TickKeeps == ASSUME PInv, Tick PROVE PInv'
  <1>1. /\ hello # 0 /\ \A s \in Slaves : 0 \notin timers[s]
    BY DEF Tick, Busy
  <1>2. hello' \in 0..HelloInterval
    <2>1. HelloInterval \in Nat /\ hello \in 0..HelloInterval BY PyAssumption DEF PInv, Typed
    <2>2. hello' = hello - 1 BY DEF Tick
    <2>q. QED BY <1>1, <2>1, <2>2
  <1>3. \A s \in Slaves : timers'[s] = {t - 1 : t \in timers[s]} BY DEF Tick
  <1>4. timers' \in [Slaves -> SUBSET (0..Ttl)]
    <2>1. \A s \in Slaves : {t - 1 : t \in timers[s]} \subseteq 0..Ttl
      BY <1>1, PyAssumption DEF PInv, Typed
    <2>q. QED BY <2>1 DEF Tick
  <1>5. \A n \in Int : AtLeast(n, -1) \in Int /\ AtLeast(n, 0) \in Nat
    BY DEF AtLeast
  <1> DEFINE low(s) == AtLeast(slaves[s].left - 1, -1)
  <1>6. \A s \in Slaves : slaves[s] \in SlaveType /\ low(s) \in Int
    BY <1>5 DEF PInv, Typed, SlaveType
  <1>7. \A s \in Slaves : slaves'[s] = [slaves[s] EXCEPT !.left = low(s)] BY DEF Tick
  <1>8. \A s \in Slaves : slaves[s].left >= 0 => low(s) = slaves[s].left - 1
    BY DEF AtLeast, PInv, Typed, SlaveType
  <1> HIDE DEF low
  <1>9. \A s \in Slaves :
          /\ slaves'[s] \in SlaveType /\ slaves'[s].left = low(s)
          /\ slaves'[s].status = slaves[s].status /\ slaves'[s].addr = slaves[s].addr
          /\ slaves'[s].res = slaves[s].res
    BY <1>6, <1>7 DEF SlaveType
  <1>10. slaves' \in [Slaves -> SlaveType] BY <1>9 DEF Tick
  <1>11. RunningIsTimed'
    <2> SUFFICES ASSUME NEW s \in Slaves, slaves'[s].status = "RUNNING"
                 PROVE  slaves'[s].left \in timers'[s] /\ slaves'[s].addr # None
      BY DEF RunningIsTimed
    <2>1. slaves[s].left \in timers[s] /\ slaves[s].addr # None
      BY <1>9 DEF PInv, RunningIsTimed
    <2>2. slaves[s].left \in 0..Ttl BY <2>1 DEF PInv, Typed
    <2>q. QED BY <1>3, <1>8, <1>9, <2>1, <2>2
  <1>12. AddressesDistinct' BY <1>9 DEF PInv, AddressesDistinct
  <1>13. UNCHANGED observers BY DEF Tick
  <1>14. ObserversAsked' BY <1>9, <1>13 DEF PInv, ObserversAsked
  <1>15. msgs' \in [Slots -> SoundMsgs]
    <2> DEFINE left(i) == AtLeast(msgs[i].left - 1, 0)
               expire(i) == IF msgs[i].listed THEN AtLeast(msgs[i].expire - 1, -1) ELSE 0
    <2>1. \A i \in Slots : msgs[i] \in SoundMsgs /\ msgs[i] \in MsgType
      BY DEF PInv, SoundMsgs
    <2>2. \A i \in Slots : left(i) \in Nat /\ expire(i) \in Int BY <1>5, <2>1 DEF MsgType
    <2>3. msgs' = [i \in Slots |-> [msgs[i] EXCEPT !.left = left(i), !.expire = expire(i)]]
      BY DEF Tick
    <2> HIDE DEF left, expire
    <2>4. \A i \in Slots : [msgs[i] EXCEPT !.left = left(i), !.expire = expire(i)] \in SoundMsgs
      BY <2>1, <2>2, DatesSound
    <2>q. QED BY <2>3, <2>4
  <1>q. QED BY <1>2, <1>4, <1>10, <1>11, <1>12, <1>13, <1>14, <1>15 DEF PInv, Typed

\* Every step keeps the invariant.
LEMMA StepHolds == PInv /\ [Next]_vars => PInv'
  <1> SUFFICES ASSUME PInv, [Next]_vars PROVE PInv' OBVIOUS
  <1>1. CASE UNCHANGED vars
    BY <1>1 DEF vars, PInv, Typed, RunningIsTimed, AddressesDistinct, ObserversAsked
  <1>2. CASE Network
    <2>1. \A s \in Slaves : DiscoverAddrs(s) \subseteq Addrs BY PyAssumption DEF DiscoverAddrs
    <2>q. QED BY <1>2, <2>1, DiscoverKeeps, AnswerKeeps, NotificationKeeps DEF Network
  <1>3. CASE Clients
    BY <1>3, HandleCasanKeeps, ObserverKeeps, PyAssumption DEF Clients
  <1>4. CASE Callback
    BY <1>4, SendHelloKeeps, SlaveTimeoutKeeps DEF Callback
  <1>5. CASE \E i \in Slots : Coroutine(i) BY <1>5, CoroutineKeeps
  <1>6. CASE Tick BY <1>6, TickKeeps
  <1>q. QED BY <1>1, <1>2, <1>3, <1>4, <1>5, <1>6 DEF Next

\* The invariant holds of every state.
LEMMA PInvAlways == Spec => []PInv
  BY InitHolds, StepHolds, PTL DEF Spec

---------------------------------------------------------------------------

\* The type invariant of the engine.
THEOREM PyTypeCorrect == Spec => []TypeOK
  <1>1. PInv => TypeOK BY DEF PInv, Typed, TypeOK, SoundMsgs, ObserverType
  <1>q. QED BY <1>1, PInvAlways, PTL

\* Among the calls of _slave_timeout that associations schedule and that nobody
\* cancels, there is always one for the end of the present association.
THEOREM RunningAlwaysTimed == Spec => []RunningIsTimed
  <1>1. PInv => RunningIsTimed BY DEF PInv
  <1>q. QED BY <1>1, PInvAlways, PTL

\* No two slaves have the same address, whatever Discovers come (_find_peer).
THEOREM PyAddressesDistinct == Spec => []AddressesDistinct
  <1>1. PInv => AddressesDistinct BY DEF PInv
  <1>q. QED BY <1>1, PInvAlways, PTL

\* Whatever the number of retransmissions, a request is sent once at most after its
\* answer (send_request).
THEOREM AlwaysStopsAfterAnswer == Spec => []StopsAfterAnswer
  <1>1. PInv => StopsAfterAnswer BY DEF PInv, StopsAfterAnswer, SoundMsgs, Sound
  <1>q. QED BY <1>1, PInvAlways, PTL

\* Observers follow the associations of their slaves (start_all_observers, add_observer), as
\* long as sends succeed: a GET was put on the network for each of them.
THEOREM ObserversAlwaysAsked == Spec => []ObserversAsked
  <1>1. PInv => ObserversAsked BY DEF PInv
  <1>q. QED BY <1>1, PInvAlways, PTL
===========================================================================
