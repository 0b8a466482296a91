-------------------------- MODULE CasanSlave_proofs --------------------------
(***************************************************************************)
(* Proofs about CasanSlave, for every set of masters, every TTL and MTU,   *)
(* every value of the timers and any delay between two calls of loop().    *)
(***************************************************************************)
EXTENDS CasanSlave, TLAPS

(***************************************************************************)
(* The inductive invariant.  Sound is what holds between two calls;        *)
(* Settling is the weaker fact that holds inside a call made while the     *)
(* slave was associated, once time has elapsed and before the three final  *)
(* tests: the lease may have run out, but a slave in RUNNING is then       *)
(* bound to notice, because its next date never exceeds its limit.         *)
(***************************************************************************)
Bound(s) == s.status \in Associated \cup {"WAITING_KNOWN"} => s.master # Nobody

Waiting(s) ==
  /\ s.status \in Unassociated => s.twait.inc > 0
  /\ s.status = "WAITING_KNOWN" => s.twait.limit > 0

Settling(s) ==
  /\ s \in SlaveType
  /\ s.status \in Associated \cup {"WAITING_KNOWN"}
  /\ Bound(s)
  /\ Waiting(s)
  /\ s.status \in Associated => s.trenew.inc > 0
  /\ s.status = "RUNNING" => s.trenew.next <= s.trenew.limit

Sound(s) ==
  /\ s \in SlaveType
  /\ Bound(s)
  /\ Waiting(s)
  /\ s.status \in Associated => s.trenew.inc > 0
  /\ ~ s.crashed =>
       /\ s.status \in Associated => s.trenew.limit > 0
       /\ s.status = "RUNNING" => s.trenew.next \in 1..s.trenew.limit

SentOK(o) ==
  /\ o.discovers \in Seq(Masters \cup {Nobody})
  /\ \A m \in o.answers \cup o.notices : m.dst # Nobody

IInv == Sound(slave) /\ SentOK(out)

(* ---------------------------------------------------------------------- *)
(* Timers *)

\* The idle timer and the one that waiting starts are timers; the latter runs.
LEMMA TimersType ==
  /\ Idle \in Timer
  /\ TwaitInit \in Timer /\ TwaitInit.inc > 0 /\ TwaitInit.limit > 0
  BY TimersAssumption DEF Idle, TwaitInit, Timer

\* Trenew::init starts a timer whose next date is not after its limit.
LEMMA TrenewInitType ==
  ASSUME NEW ttl \in Ttls
  PROVE  /\ TrenewInit(ttl) \in Timer
         /\ TrenewInit(ttl).inc > 0
         /\ TrenewInit(ttl).limit > 0
         /\ TrenewInit(ttl).next \in 1..TrenewInit(ttl).limit
  BY TimersAssumption DEF TrenewInit, Timer

\* Elapsed time leaves a timer a timer, with its increment, and its next date no
\* later than its limit if it was so.
LEMMA ElapseType ==
  ASSUME NEW t \in Timer, NEW d \in Nat
  PROVE  /\ Elapse(t, d) \in Timer
         /\ Elapse(t, d).inc = t.inc
         /\ t.next <= t.limit => Elapse(t, d).next <= Elapse(t, d).limit
  <1>1. /\ NonNeg(t.limit - d) \in Nat /\ NonNeg(t.limit - d) >= t.limit - d
        /\ t.limit \in Nat /\ t.inc \in Nat /\ t.next \in Int
    BY DEF NonNeg, Timer
  <1> QED BY <1>1 DEF Elapse, Timer

\* The next methods of the timers keep the limit and a positive increment.
LEMMA NextType ==
  ASSUME NEW t \in Timer
  PROVE  /\ TwaitNext(t) \in Timer /\ TwaitNext(t).inc > 0
         /\ TwaitNext(t).limit = t.limit
         /\ TrenewNext(t) \in Timer /\ TrenewNext(t).inc > 0
         /\ TrenewNext(t).limit = t.limit
         /\ TrenewNext(t).next > t.next
  <1>1. t.limit \in Nat /\ t.inc \in Nat /\ t.next \in Int
    BY DEF Timer
  <1>2. ASSUME NEW n \in Nat, n > 0
        PROVE  /\ Rearm(t, n) \in Timer /\ Rearm(t, n).inc = n
               /\ Rearm(t, n).limit = t.limit /\ Rearm(t, n).next = t.next + n
    BY <1>1 DEF Rearm, Timer
  <1>3. /\ TwaitNext(t) = Rearm(t, IF t.inc + WaitInc > WaitIncMax
                                  THEN WaitIncMax ELSE t.inc + WaitInc)
        /\ TrenewNext(t) = Rearm(t, IF t.inc \div 2 <= RenewMin
                                   THEN RenewMin ELSE t.inc \div 2)
    BY DEF TwaitNext, TrenewNext
  <1>4. t.inc \div 2 \in Nat
    BY <1>1
  <1> QED BY <1>1, <1>2, <1>3, <1>4, TimersAssumption

(* ---------------------------------------------------------------------- *)
(* The master, the MTU and the association *)

\* negociate_mtu touches the MTU only, and keeps it positive and within DefMtu.
LEMMA NegociateMtuType ==
  ASSUME NEW s \in SlaveType, NEW mtu \in Int
  PROVE  /\ NegociateMtu(s, mtu) \in SlaveType
         /\ \A f \in {"status", "master", "hlid", "twait", "trenew", "obs", "crashed"} :
               NegociateMtu(s, mtu)[f] = s[f]
  BY AddressAssumption DEF NegociateMtu, SlaveType

\* reset_master forgets the master and leaves the association alone.
LEMMA ResetMasterType ==
  ASSUME NEW s \in SlaveType
  PROVE  /\ ResetMaster(s) \in SlaveType
         /\ ResetMaster(s).master = Nobody
  <1> DEFINE r == [s EXCEPT !.master = Nobody, !.hlid = UnknownHello]
  <1>1. r \in SlaveType /\ r.master = Nobody
    BY DEF SlaveType, UnknownHello
  <1> HIDE DEF r
  <1>2. NegociateMtu(r, 0) \in SlaveType /\ NegociateMtu(r, 0).master = r.master
    BY <1>1, NegociateMtuType
  <1> QED BY <1>1, <1>2 DEF ResetMaster, r

\* change_master sets the master it is given and leaves the association alone.
LEMMA ChangeMasterType ==
  ASSUME NEW s \in SlaveType, NEW a \in Masters,
         NEW h \in HelloIds \cup {UnknownHello}
  PROVE  /\ ChangeMaster(s, a, h) \in SlaveType
         /\ ChangeMaster(s, a, h).master = a
         /\ ChangeMaster(s, a, h).master # Nobody
         /\ \A f \in {"status", "twait", "trenew", "curmtu"} :
               ChangeMaster(s, a, h)[f] = s[f]
  BY AddressAssumption DEF ChangeMaster, SlaveType

\* The two transitions to a waiting state start its timer.
LEMMA WaitType ==
  ASSUME NEW s \in SlaveType
  PROVE  /\ Sound(WaitUnknown(s))
         /\ WaitUnknown(s).status = "WAITING_UNKNOWN"
         /\ WaitUnknown(s).master = s.master
         /\ s.master # Nobody => Sound(WaitKnown(s))
         /\ s.master # Nobody => Settling(WaitKnown(s))
  <1>1. WaitUnknown(s) \in SlaveType /\ WaitKnown(s) \in SlaveType
    BY TimersType DEF WaitUnknown, WaitKnown, SlaveType, Statuses
  <1> QED
    BY <1>1, TimersType
    DEF WaitUnknown, WaitKnown, Sound, Settling, Bound, Waiting, Associated, Unassociated,
        SlaveType

\* The transition to RUNNING starts a lease that is not over.
LEMMA RunType ==
  ASSUME NEW s \in SlaveType, s.master # Nobody, NEW ttl \in Ttls
  PROVE  Sound(Run(s, ttl)) /\ Settling(Run(s, ttl))
  <1>1. Run(s, ttl) \in SlaveType
    BY TimersType, TrenewInitType DEF Run, SlaveType, Statuses
  <1>2. /\ Run(s, ttl).status = "RUNNING"
        /\ Run(s, ttl).trenew = TrenewInit(ttl)
        /\ Run(s, ttl).master = s.master
    BY DEF Run, SlaveType
  <1>3. /\ TrenewInit(ttl).next \in 1..TrenewInit(ttl).limit
        /\ TrenewInit(ttl).inc > 0 /\ TrenewInit(ttl).limit > 0
        /\ TrenewInit(ttl) \in Timer
    BY TrenewInitType
  <1> QED
    BY <1>1, <1>2, <1>3 DEF Sound, Settling, Bound, Waiting, Associated, Unassociated, Timer

(* ---------------------------------------------------------------------- *)
(* A received message *)

\* A message comes from a master, and an Assoc grants a known TTL.
LEMMA InputCases ==
  ASSUME NEW in \in Input
  PROVE  /\ in.kind = "hello" => in.src \in Masters /\ in.hlid \in HelloIds
         /\ in.kind = "assoc" => in.src \in Masters /\ in.ttl \in Ttls /\ in.mtu \in Int
         /\ in.kind = "request" => in.obs \in BOOLEAN /\ in.token \in Tokens
  <1>1. CASE \E a \in Masters, h \in HelloIds : in = Hello(a, h)
    BY <1>1 DEF Hello
  <1>2. CASE \E a \in Masters, ttl \in Ttls, mtu \in Mtus : in = Assoc(a, ttl, mtu)
    BY <1>2, AddressAssumption DEF Assoc
  <1>3. CASE \E a \in Masters, r \in Observables \cup {Unobservable},
                o \in BOOLEAN, t \in Tokens : in = Request(a, r, o, t)
    BY <1>3 DEF Request
  <1>4. CASE \E a \in Masters : in = OtherCtl(a)
    BY <1>4 DEF OtherCtl
  <1>5. CASE in \in {Nothing, Truncated}
    BY <1>5 DEF Nothing, Truncated
  <1> QED BY <1>1, <1>2, <1>3, <1>4, <1>5 DEF Input

\* The registration of an observer leaves the association alone.
LEMMA ObservedSettling ==
  ASSUME NEW s, Settling(s), NEW in \in Input, in.kind = "request", in.res \in Observables
  PROVE  Settling(Observed(s, in))
  <1>1. Registration(s.obs[in.res], in) \in [on : BOOLEAN, token : Tokens, serial : Nat]
    BY InputCases DEF Registration, Settling, SlaveType
  <1>2. Observed(s, in) \in SlaveType
    <2> DEFINE r == in.res
               c == s.obs[r].on /\ r \in NoDereg
               o == [s.obs EXCEPT ![r] = Registration(s.obs[r], in)]
    <2>1. s \in SlaveType
      BY DEF Settling
    <2>2. o \in [Observables -> [on : BOOLEAN, token : Tokens, serial : Nat]]
      BY <1>1, <2>1 DEF SlaveType
    <2>3. c \in BOOLEAN
      OBVIOUS
    <2>4. Observed(s, in) = [s EXCEPT !.crashed = c, !.obs = o]
      BY DEF Observed
    <2> HIDE DEF o, c, r
    <2> QED BY <2>1, <2>2, <2>3, <2>4 DEF SlaveType
  <1>3. \A f \in {"status", "master", "twait", "trenew"} : Observed(s, in)[f] = s[f]
    BY DEF Observed, Settling, SlaveType
  <1> QED BY <1>2, <1>3 DEF Settling, Bound, Waiting

\* Whatever is received, the slave that handles it is Settling.
LEMMA ReceiveSettling ==
  ASSUME NEW s, Settling(s), NEW in \in Input
  PROVE  Settling(Receive(s, in))
  <1>0. s \in SlaveType
    BY DEF Settling
  <1>1. CASE in.kind = "hello" /\ ~ (SameMaster(s, in.src) /\ in.hlid = s.hlid)
    <2> DEFINE c == ChangeMaster(s, in.src, in.hlid)
               n == NegociateMtu(c, 0)
    <2>1. /\ c \in SlaveType /\ c.master # Nobody
          /\ c.status = s.status /\ c.twait = s.twait /\ c.trenew = s.trenew
      BY <1>0, <1>1, InputCases, ChangeMasterType
    <2> HIDE DEF c
    <2>2. /\ n \in SlaveType /\ n.master = c.master
          /\ n.status = c.status /\ n.twait = c.twait /\ n.trenew = c.trenew
      BY <2>1, NegociateMtuType
    <2> HIDE DEF n
    <2>3. Settling(n) /\ Settling(WaitKnown(n))
      BY <2>1, <2>2, WaitType DEF Settling, Bound, Waiting
    <2> QED BY <1>1, <2>3 DEF Receive, n, c
  <1>2. CASE in.kind = "assoc" /\ SameMaster(s, in.src)
    <2>1. /\ NegociateMtu(s, in.mtu) \in SlaveType
          /\ NegociateMtu(s, in.mtu).master = s.master
      BY <1>0, <1>2, InputCases, NegociateMtuType
    <2>2. s.master # Nobody /\ in.ttl \in Ttls
      BY <1>2, InputCases DEF SameMaster
    <2>3. Settling(Run(NegociateMtu(s, in.mtu), in.ttl))
      BY <2>1, <2>2, RunType
    <2> QED BY <1>2, <2>3 DEF Receive
  <1>3. CASE in.kind = "request" /\ in.res \in Observables
    BY <1>3, ObservedSettling DEF Receive
  <1> QED BY <1>1, <1>2, <1>3 DEF Receive

\* What answers a message is sent to the master of the slave, which exists.
LEMMA AnswerAddressed ==
  ASSUME NEW s, Settling(s), s.status \in Associated, NEW in \in Input
  PROVE  \A m \in AnswerTo(s, in) : m.dst # Nobody
  BY AddressAssumption, InputCases
  DEF AnswerTo, AssocAnswer, Reply, TooLarge, Settling, Bound, SameMaster

(* ---------------------------------------------------------------------- *)
(* The end of a call: notifications and the three tests *)

\* Notifications leave the association alone.
LEMMA NextSerialsSettling ==
  ASSUME NEW s, Settling(s), NEW trig
  PROVE  /\ Settling(NextSerials(s, trig))
         /\ \A f \in {"status", "master", "twait", "trenew"} : NextSerials(s, trig)[f] = s[f]
  <1>1. NextSerials(s, trig) \in SlaveType
    <2> DEFINE o == [r \in Observables |->
                       IF r \in trig THEN [s.obs[r] EXCEPT !.serial = @ + 1] ELSE s.obs[r]]
               O == [on : BOOLEAN, token : Tokens, serial : Nat]
    <2>1. s \in SlaveType
      BY DEF Settling
    <2>2. ASSUME NEW r \in Observables
          PROVE  s.obs[r] \in O /\ [s.obs[r] EXCEPT !.serial = @ + 1] \in O
      <3>1. s.obs[r] \in O
        BY <2>1 DEF SlaveType
      <3> QED BY <3>1
    <2>3. o \in [Observables -> O]
      BY <2>2
    <2> HIDE DEF o
    <2>4. [s EXCEPT !.obs = o] \in SlaveType
      BY <2>1, <2>3 DEF SlaveType
    <2> QED BY <2>4 DEF NextSerials, o
  <1>2. \A f \in {"status", "master", "twait", "trenew"} : NextSerials(s, trig)[f] = s[f]
    BY DEF NextSerials, Settling, SlaveType
  <1> QED BY <1>1, <1>2 DEF Settling, Bound, Waiting

\* The first of the final tests leaves no overdue slave in RUNNING.
LEMMA EnterRenewSettling ==
  ASSUME NEW s, Settling(s)
  PROVE  /\ Settling(EnterRenew(s))
         /\ EnterRenew(s).status = "RUNNING" => EnterRenew(s).trenew.next > 0
  <1>0. s \in SlaveType /\ s.trenew \in Timer
    BY DEF Settling, SlaveType
  <1>1. CASE s.status = "RUNNING" /\ Due(s.trenew)
    <2> DEFINE e == [s EXCEPT !.status = "RENEW", !.trenew = TrenewNext(@)]
    <2>1. e \in SlaveType
      BY <1>0, NextType DEF SlaveType, Statuses
    <2>2. /\ e.status = "RENEW" /\ e.trenew = TrenewNext(s.trenew)
          /\ e.master = s.master /\ e.twait = s.twait
      BY <1>0 DEF SlaveType
    <2>3. Settling(e)
      BY <1>0, <1>1, <2>1, <2>2, NextType DEF Settling, Bound, Waiting, Associated, Unassociated
    <2> QED BY <1>1, <2>2, <2>3 DEF EnterRenew, RenewTime
  <1>2. CASE ~ (s.status = "RUNNING" /\ Due(s.trenew))
    BY <1>0, <1>2 DEF EnterRenew, RenewTime, Due, Timer
  <1> QED BY <1>1, <1>2

\* The second test changes the next date only.
LEMMA RepeatRenewSettling ==
  ASSUME NEW s, Settling(s), s.status = "RUNNING" => s.trenew.next > 0
  PROVE  /\ Settling(RepeatRenew(s))
         /\ RepeatRenew(s).status = "RUNNING" => RepeatRenew(s).trenew.next > 0
  <1>0. s \in SlaveType /\ s.trenew \in Timer
    BY DEF Settling, SlaveType
  <1>1. CASE s.status = "RENEW" /\ Due(s.trenew)
    <2> DEFINE e == [s EXCEPT !.trenew = TrenewNext(@)]
    <2>1. e \in SlaveType
      BY <1>0, NextType DEF SlaveType
    <2>2. /\ e.status = "RENEW" /\ e.trenew = TrenewNext(s.trenew)
          /\ e.master = s.master /\ e.twait = s.twait
      BY <1>0, <1>1 DEF SlaveType
    <2>3. Settling(e)
      BY <1>0, <1>1, <2>1, <2>2, NextType DEF Settling, Bound, Waiting, Associated, Unassociated
    <2> QED BY <1>1, <2>2, <2>3 DEF RepeatRenew, RepeatTime
  <1>2. CASE ~ (s.status = "RENEW" /\ Due(s.trenew))
    BY <1>2 DEF RepeatRenew, RepeatTime
  <1> QED BY <1>1, <1>2

\* After the third test, a slave that is still associated is within its TTL.
LEMMA GiveUpSound ==
  ASSUME NEW s, Settling(s), s.status = "RUNNING" => s.trenew.next > 0
  PROVE  Sound(GiveUp(s))
  <1>0. s \in SlaveType /\ s.trenew \in Timer
    BY DEF Settling, SlaveType
  <1>1. CASE s.status = "RENEW" /\ Expired(s.trenew)
    BY <1>0, <1>1, ResetMasterType, WaitType DEF GiveUp, TtlOver
  <1>2. CASE ~ (s.status = "RENEW" /\ Expired(s.trenew))
    BY <1>0, <1>2 DEF GiveUp, TtlOver, Expired, Settling, Sound, Associated, Timer
  <1> QED BY <1>1, <1>2

(* ---------------------------------------------------------------------- *)
(* One call of loop() *)

\* Time that elapses before a call leaves the slave sound but for its dates.
LEMMA SyncedType ==
  ASSUME Sound(slave), ~ slave.crashed, NEW d \in Nat
  PROVE  /\ Synced(d) \in SlaveType
         /\ \A f \in {"status", "master", "hlid", "obs", "crashed"} : Synced(d)[f] = slave[f]
         /\ slave.status \in Associated => Settling(Synced(d))
         /\ slave.status \in Unassociated => Synced(d).twait.inc > 0
  <1>0. slave \in SlaveType /\ slave.twait \in Timer /\ slave.trenew \in Timer
    BY DEF Sound, SlaveType
  <1>1. /\ Synced(d) \in SlaveType
        /\ \A f \in {"status", "master", "hlid", "obs", "crashed"} : Synced(d)[f] = slave[f]
        /\ Synced(d).twait = IF slave.status \in Unassociated
                             THEN Elapse(slave.twait, d) ELSE slave.twait
        /\ Synced(d).trenew = IF slave.status \in Associated
                              THEN Elapse(slave.trenew, d) ELSE slave.trenew
    BY <1>0, ElapseType DEF Synced, SlaveType
  <1>2. ASSUME slave.status \in Unassociated
        PROVE  Synced(d).twait.inc > 0
    BY <1>0, <1>1, <1>2, ElapseType DEF Sound, Waiting
  <1>3. ASSUME slave.status \in Associated
        PROVE  Settling(Synced(d))
    <2>1. /\ Synced(d).trenew.inc > 0
          /\ slave.status = "RUNNING" => Synced(d).trenew.next <= Synced(d).trenew.limit
      BY <1>0, <1>1, <1>3, ElapseType DEF Sound, Timer
    <2> QED
      BY <1>1, <1>3, <2>1 DEF Sound, Settling, Bound, Waiting, Associated, Unassociated
  <1> QED BY <1>1, <1>2, <1>3

\* Sending nothing, or a Discover, sends nothing to nobody.
LEMMA QuietOK ==
  /\ SentOK(Quiet)
  /\ \A a \in Masters \cup {Nobody} : SentOK(Sent({}, {}, << a >>))
  BY DEF SentOK, Quiet, Sent

\* A Hello or an Assoc keeps the invariant while the slave waits.
LEMMA WaitingReceiveStep ==
  ASSUME NEW s \in SlaveType, NEW in \in Input, WaitingReceive(s, in)
  PROVE  IInv'
  <1>1. CASE in.kind = "assoc" /\ slave' = Associate(s, in)
             /\ out' = Sent({AssocAnswer(in.src)}, {}, << >>)
    <2> DEFINE c == ChangeMaster(s, in.src, UnknownHello)
               n == NegociateMtu(c, in.mtu)
    <2>1. c \in SlaveType /\ c.master # Nobody
      BY <1>1, InputCases, ChangeMasterType
    <2> HIDE DEF c
    <2>2. n \in SlaveType /\ n.master # Nobody
      BY <1>1, <2>1, InputCases, NegociateMtuType
    <2> HIDE DEF n
    <2>3. Sound(Run(n, in.ttl))
      BY <1>1, <2>2, InputCases, RunType
    <2>4. Sound(slave')
      BY <1>1, <2>3 DEF Associate, n, c
    <2>5. SentOK(out')
      BY <1>1, InputCases, AddressAssumption DEF SentOK, Sent, AssocAnswer
    <2> QED BY <2>4, <2>5 DEF IInv, Sound, SentOK, Bound, Waiting
  <1>2. CASE in.kind = "hello" /\ slave' = WaitKnown(ChangeMaster(s, in.src, in.hlid))
             /\ out' = Quiet
    <2>1. /\ ChangeMaster(s, in.src, in.hlid) \in SlaveType
          /\ ChangeMaster(s, in.src, in.hlid).master # Nobody
      BY <1>2, InputCases, ChangeMasterType
    <2>2. Sound(slave')
      BY <1>2, <2>1, WaitType
    <2> QED BY <1>2, <2>2, QuietOK DEF IInv
  <1> QED BY <1>1, <1>2 DEF WaitingReceive

\* The timer keeps the invariant while the slave waits.
LEMMA WaitingTimerStep ==
  ASSUME NEW s \in SlaveType, Bound(s), s.twait.inc > 0,
         s.status \in Unassociated, WaitingTimer(s)
  PROVE  IInv'
  <1>0. s.twait \in Timer /\ s.master \in Masters \cup {Nobody}
    BY DEF SlaveType
  <1>1. CASE slave' = WaitUnknown(ResetMaster(s)) /\ out' = Sent({}, {}, << Nobody >>)
    BY <1>1, ResetMasterType, WaitType, QuietOK DEF IInv
  <1>2. CASE /\ ~ (s.status = "WAITING_KNOWN" /\ Expired(s.twait))
             /\ slave' = [s EXCEPT !.twait = TwaitNext(@)]
             /\ out' = Sent({}, {}, << s.master >>)
    <2>1. slave' \in SlaveType
      BY <1>0, <1>2, NextType DEF SlaveType
    <2>2. /\ slave'.status = s.status /\ slave'.master = s.master
          /\ slave'.twait = TwaitNext(s.twait)
      BY <1>2 DEF SlaveType
    <2>3. Sound(slave')
      BY <1>0, <1>2, <2>1, <2>2, NextType
      DEF Sound, Bound, Waiting, Expired, Associated, Unassociated, Timer
    <2> QED BY <1>0, <1>2, <2>3, QuietOK DEF IInv
  <1>3. CASE /\ ~ (s.status = "WAITING_KNOWN" /\ Expired(s.twait))
             /\ slave' = s /\ out' = Quiet
    <2>1. Sound(s)
      BY <1>0, <1>3 DEF Sound, Bound, Waiting, Expired, Associated, Unassociated, Timer
    <2> QED BY <1>3, <2>1, QuietOK DEF IInv
  <1> QED BY <1>1, <1>2, <1>3 DEF WaitingTimer

\* The end of a call, after the message, makes the slave sound.
LEMMA EndOfCall ==
  ASSUME NEW s, Settling(s)
  PROVE  LET s3 == EnterRenew(s)
             s4 == RepeatRenew(s3)
             s5 == GiveUp(s4)
         IN /\ Sound(s5)
            /\ Discover(RenewTime(s), s3) \o Discover(RepeatTime(s3), s4)
                 \o Discover(TtlOver(s4), s5) \in Seq(Masters \cup {Nobody})
  <1> DEFINE s3 == EnterRenew(s)
             s4 == RepeatRenew(s3)
             s5 == GiveUp(s4)
  <1>1. Settling(s3) /\ (s3.status = "RUNNING" => s3.trenew.next > 0)
    BY EnterRenewSettling
  <1> HIDE DEF s3
  <1>2. Settling(s4) /\ (s4.status = "RUNNING" => s4.trenew.next > 0)
    BY <1>1, RepeatRenewSettling
  <1> HIDE DEF s4
  <1>3. Sound(s5)
    BY <1>2, GiveUpSound
  <1> HIDE DEF s5
  <1>4. ASSUME NEW u, NEW v \in SlaveType
        PROVE  Discover(u, v) \in Seq(Masters \cup {Nobody})
    <2> DEFINE Dest == Masters \cup {Nobody}
    <2>1. v.master \in Dest
      BY DEF SlaveType
    <2> HIDE DEF Dest
    <2>2. << >> \in Seq(Dest) /\ << v.master >> \in Seq(Dest)
      BY <2>1
    <2>3. Discover(u, v) \in Seq(Dest)
      BY <2>2 DEF Discover
    <2> QED BY <2>3 DEF Dest
  <1>5. s3 \in SlaveType /\ s4 \in SlaveType /\ s5 \in SlaveType
    BY <1>1, <1>2, <1>3 DEF Settling, Sound
  <1>6. /\ Discover(RenewTime(s), s3) \in Seq(Masters \cup {Nobody})
        /\ Discover(RepeatTime(s3), s4) \in Seq(Masters \cup {Nobody})
        /\ Discover(TtlOver(s4), s5) \in Seq(Masters \cup {Nobody})
    BY <1>4, <1>5
  <1> QED BY <1>3, <1>6 DEF s5, s4, s3

\* A call in RUNNING or RENEW keeps the invariant.
LEMMA AssociatedStep ==
  ASSUME IInv, ~ slave.crashed, NEW d \in Nat, NEW in \in Input, LoopAssociated(d, in)
  PROVE  IInv'
  <1> DEFINE s0 == Synced(d)
             s1 == Receive(s0, in)
  <1>1. Settling(s0) /\ s0.status \in Associated
    BY SyncedType DEF IInv, LoopAssociated
  <1>2. \A m \in AnswerTo(s0, in) : m.dst # Nobody
    BY <1>1, AnswerAddressed
  <1>3. Settling(s1)
    BY <1>1, ReceiveSettling
  <1>4. CASE s1.crashed /\ slave' = s1 /\ out' = Quiet
    BY <1>3, <1>4, QuietOK DEF IInv, Settling, Sound
  <1>5. CASE \E trig \in SUBSET Triggerable(s1) :
               LET s2 == NextSerials(s1, trig)
                   s3 == EnterRenew(s2)
                   s4 == RepeatRenew(s3)
                   s5 == GiveUp(s4)
               IN /\ slave' = s5
                  /\ out' = Sent(AnswerTo(s0, in), {Notify(s2, r) : r \in trig},
                                 Discover(RenewTime(s2), s3) \o Discover(RepeatTime(s3), s4)
                                   \o Discover(TtlOver(s4), s5))
    <2>1. PICK trig \in SUBSET Triggerable(s1) :
               LET s2 == NextSerials(s1, trig)
                   s3 == EnterRenew(s2)
                   s4 == RepeatRenew(s3)
                   s5 == GiveUp(s4)
               IN /\ slave' = s5
                  /\ out' = Sent(AnswerTo(s0, in), {Notify(s2, r) : r \in trig},
                                 Discover(RenewTime(s2), s3) \o Discover(RepeatTime(s3), s4)
                                   \o Discover(TtlOver(s4), s5))
      BY <1>5
    <2> DEFINE s2 == NextSerials(s1, trig)
               notices == {Notify(s2, r) : r \in trig}
               answers == AnswerTo(s0, in)
    <2>2. Settling(s2)
      BY <1>3, NextSerialsSettling
    <2>3. s2.master # Nobody
      BY <2>2 DEF Settling, Bound
    <2>4. \A m \in notices : m.dst # Nobody
      BY <2>3 DEF Notify
    <2> HIDE DEF s2, notices, answers
    <2>5. /\ Sound(slave')
          /\ \E sq \in Seq(Masters \cup {Nobody}) : out' = Sent(answers, notices, sq)
      BY <2>1, <2>2, EndOfCall DEF s2, notices, answers
    <2>6. SentOK(out')
      BY <1>2, <2>4, <2>5 DEF SentOK, Sent, answers
    <2> QED BY <2>5, <2>6 DEF IInv
  <1> QED BY <1>4, <1>5 DEF LoopAssociated

(***************************************************************************)
(* Every call of loop() preserves the inductive invariant.                 *)
(***************************************************************************)
THEOREM StepInvariant == IInv /\ [Next]_vars => IInv'
  <1> SUFFICES ASSUME IInv, [Next]_vars
               PROVE  IInv'
    OBVIOUS
  <1>1. CASE UNCHANGED vars
    BY <1>1 DEF vars, IInv
  <1>2. CASE \E d \in 0..MaxGap, in \in Input : Loop(d, in)
    <2>1. PICK d \in 0..MaxGap, in \in Input : Loop(d, in)
      BY <1>2
    <2>2. d \in Nat /\ ~ slave.crashed
      BY <2>1, TimersAssumption DEF Loop
    <2>3. Sound(slave) /\ slave \in SlaveType
      BY DEF IInv, Sound
    <2>4. CASE LoopColdStart(d, in)
      BY <2>3, <2>4, WaitType, QuietOK DEF LoopColdStart, IInv, SlaveType
    <2> DEFINE s0 == Synced(d)
               c  == ChangeMaster(s0, in.src, in.hlid)
    <2>5. ASSUME slave.status \in Unassociated
          PROVE  /\ s0 \in SlaveType /\ Bound(s0) /\ s0.twait.inc > 0
                 /\ s0.status = slave.status
      BY <2>2, <2>3, <2>5, SyncedType DEF Sound, Bound
    <2>6. ASSUME slave.status \in Unassociated, in.kind = "hello"
          PROVE  /\ c \in SlaveType /\ Bound(c) /\ c.twait.inc > 0
                 /\ c.status = slave.status
      BY <2>5, <2>6, InputCases, ChangeMasterType DEF Bound
    <2> HIDE DEF s0, c
    <2>7. CASE LoopWaitingUnknown(d, in)
      BY <2>5, <2>7, WaitingReceiveStep, WaitingTimerStep
      DEF LoopWaitingUnknown, Unassociated, s0
    <2>8. CASE LoopWaitingKnown(d, in)
      BY <2>5, <2>6, <2>8, WaitingReceiveStep, WaitingTimerStep
      DEF LoopWaitingKnown, Unassociated, s0, c
    <2>9. CASE LoopAssociated(d, in)
      BY <2>2, <2>9, AssociatedStep
    <2> QED BY <2>1, <2>4, <2>7, <2>8, <2>9 DEF Loop
  <1> QED BY <1>1, <1>2 DEF Next, Crashed

\* A slave that has just been made satisfies the invariant.
LEMMA ColdSound == Sound(ColdSlave)
  <1>1. NeverObserved \in [on : BOOLEAN, token : Tokens, serial : Nat]
    BY AddressAssumption DEF NeverObserved
  <1>2. ColdSlave \in SlaveType
    BY <1>1, AddressAssumption, TimersType DEF ColdSlave, SlaveType, Statuses
  <1> QED BY <1>2 DEF ColdSlave, Sound, Bound, Waiting, Associated, Unassociated

\* The invariant holds initially.
LEMMA InitInvariant == Init => IInv
  BY ColdSound, QuietOK DEF Init, IInv

(***************************************************************************)
(* The inductive invariant holds of every behaviour of the slave.          *)
(***************************************************************************)
THEOREM Inductive == Spec => []IInv
  <1> QED BY InitInvariant, StepInvariant, PTL DEF Spec

(***************************************************************************)
(* Type correctness, for every value of the constants.                     *)
(***************************************************************************)
THEOREM TypeCorrect == Spec => []TypeOK
  <1>1. IInv => TypeOK
    BY DEF IInv, Sound, SentOK, TypeOK
  <1> QED BY <1>1, Inductive, PTL

(***************************************************************************)
(* loop() never dereferences a null master_, and never sends an answer or  *)
(* a notification to nobody, in whatever order Hellos, Assocs, requests    *)
(* and timeouts come and however late the calls are.                       *)
(***************************************************************************)
THEOREM AddresseeAlwaysKnown == Spec => []AddresseeKnown
  <1>1. IInv => AddresseeKnown
    BY DEF IInv, Sound, SentOK, Bound, AddresseeKnown
  <1> QED BY <1>1, Inductive, PTL

(***************************************************************************)
(* A slave never ends a call of loop() associated beyond the TTL granted   *)
(* by the last Assoc it accepted, nor waiting for a known master beyond    *)
(* TIMER_WAIT_MAX.                                                         *)
(***************************************************************************)
THEOREM LeaseAlwaysHeld == Spec => []LeaseHeld
  <1>1. IInv => LeaseHeld
    BY DEF IInv, Sound, Waiting, LeaseHeld
  <1> QED BY <1>1, Inductive, PTL

(***************************************************************************)
(* Every timer in use has been initialised on the way to the state that    *)
(* uses it.                                                                *)
(***************************************************************************)
THEOREM TimerAlwaysRunning == Spec => []TimerRunning
  <1>1. IInv => TimerRunning
    BY DEF IInv, Sound, Waiting, TimerRunning
  <1> QED BY <1>1, Inductive, PTL

(* ---------------------------------------------------------------------- *)
(* At most one Discover of a kind in a call *)

NoRepeat(sq) == \A i, j \in DOMAIN sq : sq[i] = sq[j] => i = j

\* The empty sequence is neutral for concatenation.
LEMMA EmptyConcat ==
  ASSUME NEW S, NEW sq \in Seq(S)
  PROVE  << >> \o sq = sq /\ sq \o << >> = sq
  OBVIOUS

\* What is sent to the master at most once, then to everybody at most once,
\* has no repetition.
LEMMA NoRepeatShort ==
  ASSUME NEW a, NEW b, a # b,
         NEW p \in {<< >>, << a >>}, NEW q \in {<< >>, << a >>}, NEW r \in {<< >>, << b >>},
         p = << >> \/ q = << >>
  PROVE  NoRepeat(p \o q \o r)
  <1> DEFINE Dest == {a, b}
             both == << a >> \o << b >>
  <1>1. a \in Dest /\ b \in Dest
    OBVIOUS
  <1> HIDE DEF Dest
  <1>2. << >> \in Seq(Dest) /\ << a >> \in Seq(Dest) /\ << b >> \in Seq(Dest)
    BY <1>1
  <1>3. \A sq \in Seq(Dest) : << >> \o sq = sq /\ sq \o << >> = sq
    BY EmptyConcat
  <1>4. p \o q \in {<< >>, << a >>}
    BY <1>2, <1>3
  <1>5. p \o q \o r \in {<< >>, << a >>, << b >>, both}
    BY <1>2, <1>3, <1>4
  <1>6. NoRepeat(<< >>) /\ NoRepeat(<< a >>) /\ NoRepeat(<< b >>)
    BY DEF NoRepeat
  <1>7. DOMAIN both = 1..2 /\ both[1] = a /\ both[2] = b
    <2>1. both \in Seq(Dest) /\ Len(both) = 2 /\ both[1] = a /\ both[2] = b
      BY <1>2
    <2> QED BY <2>1
  <1> HIDE DEF both
  <1>8. NoRepeat(both)
    BY <1>7 DEF NoRepeat
  <1> QED BY <1>5, <1>6, <1>8

\* A message that leaves the slave in RUNNING with a date that is due is not the
\* one that took it there.
LEMMA ReceiveDue ==
  ASSUME NEW s, Settling(s), NEW in \in Input,
         Receive(s, in).status = "RUNNING", Due(Receive(s, in).trenew)
  PROVE  s.status = "RUNNING" /\ Receive(s, in).trenew = s.trenew
  <1>0. s \in SlaveType
    BY DEF Settling
  <1>1. CASE in.kind = "hello" /\ ~ (SameMaster(s, in.src) /\ in.hlid = s.hlid)
    <2> DEFINE c == ChangeMaster(s, in.src, in.hlid)
               n == NegociateMtu(c, 0)
    <2>1. c \in SlaveType /\ c.status = s.status /\ c.trenew = s.trenew
      BY <1>0, <1>1, InputCases, ChangeMasterType
    <2> HIDE DEF c
    <2>2. n \in SlaveType /\ n.status = s.status /\ n.trenew = s.trenew
      BY <2>1, NegociateMtuType
    <2> HIDE DEF n
    <2>3. WaitKnown(n).status # "RUNNING"
      BY <2>2 DEF WaitKnown, SlaveType
    <2> QED BY <1>1, <2>2, <2>3 DEF Receive, n, c
  <1>2. CASE in.kind = "assoc" /\ SameMaster(s, in.src)
    <2>1. NegociateMtu(s, in.mtu) \in SlaveType
      BY <1>0, <1>2, InputCases, NegociateMtuType
    <2>2. Run(NegociateMtu(s, in.mtu), in.ttl).trenew = TrenewInit(in.ttl)
      BY <2>1 DEF Run, SlaveType
    <2>3. ~ Due(TrenewInit(in.ttl))
      BY <1>2, InputCases, TrenewInitType DEF Due
    <2> QED BY <1>2, <2>2, <2>3 DEF Receive
  <1>3. CASE in.kind = "request" /\ in.res \in Observables
    BY <1>0, <1>3 DEF Receive, Observed, SlaveType
  <1> QED BY <1>1, <1>2, <1>3 DEF Receive

\* A slave that has just left RUNNING, not later than RenewMin after its date,
\* does not repeat its Discover in the same call.
LEMMA RenewOnce ==
  ASSUME NEW s, Settling(s), RenewTime(s), s.trenew.next > - RenewMin
  PROVE  ~ RepeatTime(EnterRenew(s))
  <1>1. s \in SlaveType /\ s.trenew.next \in Int /\ s.trenew.inc \in Nat
    BY DEF Settling, SlaveType, Timer
  <1>2. s.trenew.inc \div 2 \in Nat
    BY <1>1
  <1>3. TrenewNext(s.trenew).next > 0
    BY <1>1, <1>2, TimersAssumption DEF TrenewNext, Rearm
  <1>4. EnterRenew(s).trenew = TrenewNext(s.trenew)
    BY <1>1 DEF EnterRenew, SlaveType
  <1>5. TrenewNext(s.trenew).next \in Int
    BY <1>1, <1>2, TimersAssumption DEF TrenewNext, Rearm
  <1> QED BY <1>3, <1>4, <1>5 DEF RepeatTime, Due

\* The Discovers that end a call, when no date is overdue by RenewMin.
LEMMA EndDiscovers ==
  ASSUME NEW s, Settling(s), RenewTime(s) => s.trenew.next > - RenewMin
  PROVE  LET s3 == EnterRenew(s)
             s4 == RepeatRenew(s3)
             s5 == GiveUp(s4)
         IN NoRepeat(Discover(RenewTime(s), s3) \o Discover(RepeatTime(s3), s4)
                       \o Discover(TtlOver(s4), s5))
  <1> DEFINE s3 == EnterRenew(s)
             s4 == RepeatRenew(s3)
             s5 == GiveUp(s4)
  <1>1. s \in SlaveType /\ s.master # Nobody
    BY DEF Settling, Bound
  <1>2. ~ RenewTime(s) \/ ~ RepeatTime(s3)
    BY RenewOnce
  <1>3. /\ Settling(s3) /\ (s3.status = "RUNNING" => s3.trenew.next > 0)
        /\ s3.master = s.master
    BY <1>1, EnterRenewSettling DEF EnterRenew, SlaveType
  <1> HIDE DEF s3
  <1>4. Settling(s4) /\ s4.master = s.master
    BY <1>3, RepeatRenewSettling DEF RepeatRenew, Settling, SlaveType
  <1> HIDE DEF s4
  <1>5. TtlOver(s4) => s5.master = Nobody
    BY <1>4, ResetMasterType, WaitType DEF GiveUp, Settling
  <1> HIDE DEF s5
  <1> DEFINE p == Discover(RenewTime(s), s3)
             q == Discover(RepeatTime(s3), s4)
             r == Discover(TtlOver(s4), s5)
  <1>6. /\ p \in {<< >>, << s.master >>} /\ q \in {<< >>, << s.master >>}
        /\ r \in {<< >>, << Nobody >>} /\ (p = << >> \/ q = << >>)
    BY <1>2, <1>3, <1>4, <1>5 DEF Discover
  <1> HIDE DEF p, q, r
  <1>7. NoRepeat(p \o q \o r)
    BY <1>1, <1>6, NoRepeatShort
  <1> QED BY <1>7 DEF p, q, r, s5, s4, s3

\* A call in RUNNING or RENEW, made at most RenewMin after the last one.
LEMMA AssociatedDiscovers ==
  ASSUME IInv, ~ slave.crashed, NEW d \in Nat, d <= RenewMin, NEW in \in Input,
         LoopAssociated(d, in)
  PROVE  NoRepeat(out'.discovers)
  <1> DEFINE s0 == Synced(d)
             s1 == Receive(s0, in)
  <1>1. Settling(s0) /\ s0.status = slave.status
    BY SyncedType DEF IInv, LoopAssociated
  <1>2. Settling(s1)
    BY <1>1, ReceiveSettling
  <1>3. CASE out' = Quiet
    BY <1>3 DEF Quiet, Sent, NoRepeat
  <1>4. CASE \E trig \in SUBSET Triggerable(s1) :
               LET s2 == NextSerials(s1, trig)
                   s3 == EnterRenew(s2)
                   s4 == RepeatRenew(s3)
                   s5 == GiveUp(s4)
               IN out' = Sent(AnswerTo(s0, in), {Notify(s2, r) : r \in trig},
                              Discover(RenewTime(s2), s3) \o Discover(RepeatTime(s3), s4)
                                \o Discover(TtlOver(s4), s5))
    <2>1. PICK trig \in SUBSET Triggerable(s1) :
               LET s2 == NextSerials(s1, trig)
                   s3 == EnterRenew(s2)
                   s4 == RepeatRenew(s3)
                   s5 == GiveUp(s4)
               IN out' = Sent(AnswerTo(s0, in), {Notify(s2, r) : r \in trig},
                              Discover(RenewTime(s2), s3) \o Discover(RepeatTime(s3), s4)
                                \o Discover(TtlOver(s4), s5))
      BY <1>4
    <2> DEFINE s2 == NextSerials(s1, trig)
               notices == {Notify(s2, r) : r \in trig}
               answers == AnswerTo(s0, in)
    <2>2. Settling(s2) /\ s2.status = s1.status /\ s2.trenew = s1.trenew
      BY <1>2, NextSerialsSettling
    <2>3. ASSUME RenewTime(s2)
          PROVE  s2.trenew.next > - RenewMin
      <3>1. s1.status = "RUNNING" /\ Due(s1.trenew)
        BY <2>2, <2>3 DEF RenewTime
      <3>2. s0.status = "RUNNING" /\ s1.trenew = s0.trenew
        BY <1>1, <3>1, ReceiveDue
      <3>3. slave \in SlaveType /\ slave.trenew.next \in Int /\ slave.trenew.next > 0
        BY <1>1, <3>2 DEF IInv, Sound, SlaveType, Timer, Associated
      <3>4. s0.trenew.next = slave.trenew.next - d
        BY <1>1, <3>2, <3>3 DEF Synced, SlaveType, Elapse, Associated
      <3> QED BY <2>2, <3>2, <3>3, <3>4, TimersAssumption
    <2> HIDE DEF s2, notices, answers
    <2>4. \E sq : NoRepeat(sq) /\ out' = Sent(answers, notices, sq)
      BY <2>1, <2>2, <2>3, EndDiscovers DEF s2, notices, answers
    <2> QED BY <2>4 DEF Sent
  <1> QED BY <1>3, <1>4 DEF LoopAssociated

\* A call that does not find the slave associated sends one Discover at most.
LEMMA OtherDiscovers ==
  ASSUME NEW d, NEW in,
         LoopColdStart(d, in) \/ LoopWaitingUnknown(d, in) \/ LoopWaitingKnown(d, in)
  PROVE  NoRepeat(out'.discovers)
  <1>1. \/ \E a : out' = Sent({}, {}, << a >>)
        \/ out' = Quiet
        \/ out' = Sent({AssocAnswer(in.src)}, {}, << >>)
    BY DEF LoopColdStart, LoopWaitingUnknown, LoopWaitingKnown, WaitingReceive, WaitingTimer
  <1> QED BY <1>1 DEF Quiet, Sent, NoRepeat

(***************************************************************************)
(* A call of loop() made in time never sends the same Discover twice,      *)
(* although three tests in a row may each send one: the date that took the *)
(* slave out of RUNNING is pushed back by RenewMin at least, so the second *)
(* test fails, and the third sends to everybody.                           *)
(***************************************************************************)
THEOREM DiscoversOnce == Spec => []NoDiscoverBurst
  <1>1. Init => NoDiscoverBurst
    BY DEF Init, Quiet, Sent, NoDiscoverBurst
  <1>2. ASSUME IInv, NoDiscoverBurst, [Next]_vars
        PROVE  NoDiscoverBurst'
    <2>1. CASE UNCHANGED vars
      BY <1>2, <2>1 DEF vars, NoDiscoverBurst
    <2>2. CASE \E d \in 0..MaxGap, in \in Input : Loop(d, in)
      <3>1. PICK d \in 0..MaxGap, in \in Input : Loop(d, in)
        BY <2>2
      <3>2. ASSUME MaxGap <= RenewMin
            PROVE  NoRepeat(out'.discovers)
        <4>1. d \in Nat /\ d <= RenewMin
          BY <3>2, TimersAssumption
        <4>2. CASE LoopAssociated(d, in)
          BY <1>2, <3>1, <4>1, <4>2, AssociatedDiscovers DEF Loop
        <4>3. CASE \/ LoopColdStart(d, in) \/ LoopWaitingUnknown(d, in)
                   \/ LoopWaitingKnown(d, in)
          BY <4>3, OtherDiscovers
        <4> QED BY <3>1, <4>2, <4>3 DEF Loop
      <3> QED BY <3>2 DEF NoRepeat, NoDiscoverBurst
    <2> QED BY <1>2, <2>1, <2>2 DEF Next, Crashed
  <1> QED BY <1>1, <1>2, Inductive, PTL DEF Spec

(* ---------------------------------------------------------------------- *)
(* Refinement of Lease, when there is one master *)

OneMaster == \A a, b \in Masters : a = b

\* What is left of the lease after a message, if the slave is still associated.
LEMMA ReceiveLimit ==
  ASSUME NEW s, Settling(s), NEW in \in Input, Receive(s, in).status \in Associated
  PROVE  Receive(s, in).trenew.limit \in {s.trenew.limit} \cup Ttls
  <1>0. s \in SlaveType
    BY DEF Settling
  <1>1. CASE in.kind = "hello" /\ ~ (SameMaster(s, in.src) /\ in.hlid = s.hlid)
    <2> DEFINE c == ChangeMaster(s, in.src, in.hlid)
               n == NegociateMtu(c, 0)
    <2>1. c \in SlaveType /\ c.status = s.status /\ c.trenew = s.trenew
      BY <1>0, <1>1, InputCases, ChangeMasterType
    <2> HIDE DEF c
    <2>2. n \in SlaveType /\ n.status = s.status /\ n.trenew = s.trenew
      BY <2>1, NegociateMtuType
    <2> HIDE DEF n
    <2>3. WaitKnown(n).status \notin Associated
      BY <2>2 DEF WaitKnown, SlaveType, Associated
    <2> QED BY <1>1, <2>2, <2>3 DEF Receive, n, c
  <1>2. CASE in.kind = "assoc" /\ SameMaster(s, in.src)
    <2>1. NegociateMtu(s, in.mtu) \in SlaveType
      BY <1>0, <1>2, InputCases, NegociateMtuType
    <2>2. Run(NegociateMtu(s, in.mtu), in.ttl).trenew.limit = in.ttl
      BY <2>1 DEF Run, SlaveType, TrenewInit
    <2> QED BY <1>2, <2>2, InputCases DEF Receive
  <1>3. CASE in.kind = "request" /\ in.res \in Observables
    BY <1>0, <1>3 DEF Receive, Observed, SlaveType
  <1> QED BY <1>1, <1>2, <1>3 DEF Receive

\* The end of a call takes nothing from the lease but the association itself.
LEMMA EndLimit ==
  ASSUME NEW s, Settling(s), GiveUp(RepeatRenew(EnterRenew(s))).status \in Associated
  PROVE  /\ s.status \in Associated
         /\ GiveUp(RepeatRenew(EnterRenew(s))).trenew.limit = s.trenew.limit
         /\ GiveUp(RepeatRenew(EnterRenew(s))).master = s.master
  <1> DEFINE e == EnterRenew(s)
             f == RepeatRenew(e)
  <1>0. s \in SlaveType /\ s.trenew \in Timer
    BY DEF Settling, SlaveType
  <1>1. /\ Settling(e) /\ (e.status = "RUNNING" => e.trenew.next > 0)
        /\ e.trenew.limit = s.trenew.limit /\ e.master = s.master
        /\ e.status \in Associated => s.status \in Associated
    BY <1>0, EnterRenewSettling, NextType DEF EnterRenew, RenewTime, SlaveType, Associated
  <1>2. e \in SlaveType /\ e.trenew \in Timer
    BY <1>1 DEF Settling, SlaveType
  <1> HIDE DEF e
  <1>3. /\ f.trenew.limit = e.trenew.limit /\ f.master = e.master
        /\ f.status = e.status /\ f \in SlaveType
    BY <1>1, <1>2, RepeatRenewSettling, NextType DEF RepeatRenew, RepeatTime, SlaveType, Settling
  <1> HIDE DEF f
  <1>4. GiveUp(f) = f
    <2>1. WaitUnknown(ResetMaster(f)).status \notin Associated
      BY <1>3, ResetMasterType, WaitType DEF Associated
    <2> QED BY <2>1 DEF GiveUp, TtlOver, f, e
  <1> QED BY <1>1, <1>3, <1>4 DEF f, e

\* A call in RUNNING or RENEW extends the lease by an Assoc only.
LEMMA AssociatedLease ==
  ASSUME IInv, ~ slave.crashed, NEW d \in Nat, NEW in \in Input, LoopAssociated(d, in),
         Holding'
  PROVE  slave'.trenew.limit \in 1..slave.trenew.limit \cup Ttls
  <1> DEFINE s0 == Synced(d)
             s1 == Receive(s0, in)
  <1>1. Settling(s0) /\ s0.status \in Associated
    BY SyncedType DEF IInv, LoopAssociated
  <1>2. Settling(s1)
    BY <1>1, ReceiveSettling
  <1>3. PICK trig \in SUBSET Triggerable(s1) :
           slave' = GiveUp(RepeatRenew(EnterRenew(NextSerials(s1, trig))))
    BY DEF LoopAssociated, Holding
  <1> DEFINE s2 == NextSerials(s1, trig)
  <1>4. Settling(s2) /\ s2.status = s1.status /\ s2.trenew = s1.trenew
    BY <1>2, NextSerialsSettling
  <1> HIDE DEF s2
  <1>5. s2.status \in Associated /\ slave'.trenew.limit = s2.trenew.limit
    BY <1>3, <1>4, EndLimit DEF Holding, s2
  <1>6. s1.trenew.limit \in {s0.trenew.limit} \cup Ttls
    BY <1>1, <1>4, <1>5, ReceiveLimit
  <1>7. slave \in SlaveType /\ slave.trenew.limit \in Nat
    BY DEF IInv, Sound, SlaveType, Timer
  <1>8. s0.trenew.limit = NonNeg(slave.trenew.limit - d)
    BY <1>7 DEF Synced, SlaveType, Elapse, LoopAssociated
  <1>9. slave'.trenew.limit > 0 /\ slave'.trenew.limit \in Nat
    BY AssociatedStep DEF IInv, Sound, SlaveType, Timer, Holding
  <1> QED BY <1>4, <1>5, <1>6, <1>7, <1>8, <1>9 DEF NonNeg

\* A call in a waiting state begins a lease by an Assoc only.
LEMMA WaitingLease ==
  ASSUME IInv, ~ slave.crashed, NEW d \in Nat, NEW in \in Input,
         LoopColdStart(d, in) \/ LoopWaitingUnknown(d, in) \/ LoopWaitingKnown(d, in),
         Holding'
  PROVE  slave'.trenew.limit \in Ttls
  <1>0. slave \in SlaveType /\ Synced(d) \in SlaveType
    BY SyncedType DEF IInv, Sound
  <1>1. CASE \E s \in SlaveType : WaitingReceive(s, in)
    <2>1. PICK s \in SlaveType : WaitingReceive(s, in)
      BY <1>1
    <2>2. CASE in.kind = "assoc" /\ slave' = Associate(s, in)
      <3> DEFINE n == NegociateMtu(ChangeMaster(s, in.src, UnknownHello), in.mtu)
      <3>1. n \in SlaveType
        BY <2>2, InputCases, ChangeMasterType, NegociateMtuType
      <3>2. slave' = Run(n, in.ttl)
        BY <2>2 DEF Associate
      <3> HIDE DEF n
      <3> QED BY <2>2, <3>1, <3>2, InputCases DEF Run, SlaveType, TrenewInit
    <2>3. CASE in.kind = "hello" /\ slave' = WaitKnown(ChangeMaster(s, in.src, in.hlid))
      <3>1. ChangeMaster(s, in.src, in.hlid) \in SlaveType
        BY <2>3, InputCases, ChangeMasterType
      <3>2. slave'.status = "WAITING_KNOWN"
        BY <2>3, <3>1 DEF WaitKnown, SlaveType
      <3> QED BY <3>2 DEF Holding, Associated
    <2> QED BY <2>1, <2>2, <2>3 DEF WaitingReceive
  <1>2. CASE \E s \in SlaveType : s.status \in Unassociated /\ WaitingTimer(s)
    <2>1. PICK s \in SlaveType : s.status \in Unassociated /\ WaitingTimer(s)
      BY <1>2
    <2>2. slave'.status \in Unassociated
      BY <2>1, ResetMasterType, WaitType DEF WaitingTimer, Unassociated, SlaveType
    <2> QED BY <2>2 DEF Holding, Associated, Unassociated
  <1>3. CASE LoopColdStart(d, in)
    BY <1>0, <1>3, WaitType DEF LoopColdStart, Holding, Associated
  <1>4. CASE LoopWaitingUnknown(d, in)
    BY <1>0, <1>1, <1>2, <1>4, SyncedType DEF LoopWaitingUnknown, Unassociated, IInv
  <1>5. CASE LoopWaitingKnown(d, in)
    <2>1. ASSUME in.kind = "hello"
          PROVE  /\ ChangeMaster(Synced(d), in.src, in.hlid) \in SlaveType
                 /\ ChangeMaster(Synced(d), in.src, in.hlid).status = Synced(d).status
      BY <1>0, <2>1, InputCases, ChangeMasterType
    <2> QED
      BY <1>0, <1>1, <1>2, <1>5, <2>1, SyncedType DEF LoopWaitingKnown, Unassociated, IInv
  <1> QED BY <1>3, <1>4, <1>5

\* With one master, a call is a step of the abstract lease or leaves it alone.
LEMMA LeaseStep ==
  ASSUME OneMaster, IInv, [Next]_vars
  PROVE  [Granted!LeaseNext]_(Granted!leaseVars)
  <1>0. IInv'
    BY StepInvariant
  <1>1. CASE UNCHANGED vars
    BY <1>1 DEF vars, Granted!leaseVars, Holding
  <1>2. CASE ~ Holding'
    BY <1>2 DEF Granted!LeaseNext, Granted!Release
  <1>3. CASE (\E d \in 0..MaxGap, in \in Input : Loop(d, in)) /\ Holding'
    <2>1. PICK d \in 0..MaxGap, in \in Input : Loop(d, in)
      BY <1>3
    <2>2. d \in Nat /\ ~ slave.crashed
      BY <2>1, TimersAssumption DEF Loop
    <2>3. slave'.master \in Masters
      BY <1>0, <1>3 DEF IInv, Sound, Bound, SlaveType, Holding
    <2>4. CASE slave.status \in Associated
      <3>1. slave'.trenew.limit \in 1..slave.trenew.limit \cup Ttls
        BY <1>3, <2>1, <2>2, <2>4, AssociatedLease
        DEF Loop, LoopColdStart, LoopWaitingUnknown, LoopWaitingKnown, Associated
      <3>2. Holding /\ slave.master = slave'.master /\ slave.master # Nobody
        BY <2>2, <2>3, <2>4 DEF IInv, Sound, Bound, SlaveType, Holding, OneMaster
      <3> QED
        BY <1>3, <2>3, <3>1, <3>2 DEF Granted!LeaseNext, Granted!Hold, Granted!Grant
    <2>5. CASE slave.status \notin Associated
      <3>1. slave'.trenew.limit \in Ttls
        BY <1>3, <2>1, <2>2, <2>5, WaitingLease DEF Loop, LoopAssociated
      <3> QED
        BY <1>3, <2>3, <2>5, <3>1 DEF Granted!LeaseNext, Granted!Grant, Holding
    <2> QED BY <2>4, <2>5
  <1> QED BY <1>1, <1>2, <1>3 DEF Next, Crashed

(***************************************************************************)
(* With one master on the network, the slave implements a lease: it is     *)
(* associated for the granted TTL at most, unless another Assoc renews it. *)
(***************************************************************************)
THEOREM SlaveImplementsLease ==
  ASSUME OneMaster
  PROVE  Spec => AssociationIsLease
  <1>1. Init => Granted!LeaseInit
    BY DEF Init, ColdSlave, Granted!LeaseInit, Holding, Associated
  <1>2. IInv /\ [Next]_vars => [Granted!LeaseNext]_(Granted!leaseVars)
    BY LeaseStep
  <1> QED BY <1>1, <1>2, Inductive, PTL DEF Spec, AssociationIsLease, Granted!Spec

(* ---------------------------------------------------------------------- *)
(* What one call of loop() does, for whoever composes the slave with a master *)

\* Nothing but an Assoc, a request or a truncated frame is answered.
LEMMA AnswersOf ==
  ASSUME NEW d, NEW in, in.kind \in {"none", "hello"}, Loop(d, in)
  PROVE  out'.answers = {}
  <1>1. AnswerTo(Synced(d), in) = {} BY DEF AnswerTo
  <1> QED
    BY <1>1 DEF Loop, LoopColdStart, LoopWaitingUnknown, LoopWaitingKnown, LoopAssociated,
                WaitingReceive, WaitingTimer, Sent, Quiet

\* The end of a call changes neither the hello-id, unless to forget it, nor whether
\* the slave has crashed.
LEMMA EndFields ==
  ASSUME NEW s \in SlaveType
  PROVE  LET e == GiveUp(RepeatRenew(EnterRenew(s)))
         IN  e.hlid \in {s.hlid, UnknownHello} /\ e.crashed = s.crashed
  <1> DEFINE e == EnterRenew(s)
             f == RepeatRenew(e)
  <1>0. s.trenew \in Timer BY DEF SlaveType
  <1>1. e \in SlaveType /\ e.hlid = s.hlid /\ e.crashed = s.crashed
    BY <1>0, NextType DEF EnterRenew, SlaveType, Statuses
  <1> HIDE DEF e
  <1>2. e.trenew \in Timer BY <1>1 DEF SlaveType
  <1>3. f \in SlaveType /\ f.hlid = s.hlid /\ f.crashed = s.crashed
    BY <1>1, <1>2, NextType DEF RepeatRenew, SlaveType
  <1> HIDE DEF f
  <1>4. GiveUp(f).hlid \in {f.hlid, UnknownHello} /\ GiveUp(f).crashed = f.crashed
    BY <1>3 DEF GiveUp, WaitUnknown, ResetMaster, NegociateMtu, SlaveType
  <1> QED BY <1>3, <1>4 DEF e, f

\* So do notifications.
LEMMA NextSerialsFields ==
  ASSUME NEW s \in SlaveType, NEW trig
  PROVE  /\ NextSerials(s, trig) \in SlaveType
         /\ NextSerials(s, trig).hlid = s.hlid
         /\ NextSerials(s, trig).crashed = s.crashed
  <1>1. NextSerials(s, trig) \in SlaveType BY DEF NextSerials, SlaveType
  <1>2. NextSerials(s, trig).hlid = s.hlid /\ NextSerials(s, trig).crashed = s.crashed
    BY DEF NextSerials, SlaveType
  <1> QED BY <1>1, <1>2

\* A message that is not a request changes the hello-id to that of a Hello only.
LEMMA ReceiveFields ==
  ASSUME NEW s \in SlaveType, NEW in \in Input, in.kind # "request"
  PROVE  /\ Receive(s, in) \in SlaveType
         /\ Receive(s, in).crashed = s.crashed
         /\ \/ Receive(s, in).hlid \in {s.hlid, UnknownHello}
            \/ in.kind = "hello" /\ Receive(s, in).hlid = in.hlid
  <1>1. CASE in.kind = "hello" /\ ~ (SameMaster(s, in.src) /\ in.hlid = s.hlid)
    <2> DEFINE c == ChangeMaster(s, in.src, in.hlid)
               n == NegociateMtu(c, 0)
    <2>1. c \in SlaveType /\ c.crashed = s.crashed /\ c.hlid \in {s.hlid, in.hlid}
      BY <1>1, InputCases, ChangeMasterType DEF ChangeMaster, SlaveType
    <2> HIDE DEF c
    <2>2. n \in SlaveType /\ n.crashed = c.crashed /\ n.hlid = c.hlid
      BY <2>1, NegociateMtuType
    <2> HIDE DEF n
    <2>3. /\ WaitKnown(n) \in SlaveType
          /\ WaitKnown(n).crashed = n.crashed /\ WaitKnown(n).hlid = n.hlid
      BY <2>2, TimersType DEF WaitKnown, SlaveType, Statuses
    <2>4. Receive(s, in) = IF s.hlid # UnknownHello THEN WaitKnown(n) ELSE n
      BY <1>1 DEF Receive, n, c
    <2> QED BY <1>1, <2>1, <2>2, <2>3, <2>4
  <1>2. CASE in.kind = "assoc" /\ SameMaster(s, in.src)
    <2> DEFINE n == NegociateMtu(s, in.mtu)
    <2>1. n \in SlaveType /\ n.crashed = s.crashed /\ n.hlid = s.hlid
      BY <1>2, InputCases, NegociateMtuType
    <2> HIDE DEF n
    <2>2. /\ Run(n, in.ttl) \in SlaveType
          /\ Run(n, in.ttl).crashed = n.crashed /\ Run(n, in.ttl).hlid = n.hlid
      BY <1>2, <2>1, InputCases, TimersType, TrenewInitType DEF Run, SlaveType, Statuses
    <2>3. Receive(s, in) = Run(n, in.ttl) BY <1>2 DEF Receive, n
    <2> QED BY <2>1, <2>2, <2>3
  <1>3. CASE ~ (in.kind = "hello" /\ ~ (SameMaster(s, in.src) /\ in.hlid = s.hlid))
             /\ ~ (in.kind = "assoc" /\ SameMaster(s, in.src))
    <2>1. Receive(s, in) = s BY <1>3 DEF Receive
    <2> QED BY <2>1
  <1> QED BY <1>1, <1>2, <1>3

\* The slave takes its hello-id from Hellos, and only a request makes it crash.
LEMMA CallFields ==
  ASSUME IInv, NEW d \in Nat, NEW in \in Input, in.kind # "request", Loop(d, in)
  PROVE  /\ slave'.crashed = FALSE
         /\ \/ slave'.hlid \in {slave.hlid, UnknownHello}
            \/ in.kind = "hello" /\ slave'.hlid = in.hlid
  <1>0. /\ slave \in SlaveType /\ slave.crashed = FALSE
        /\ Synced(d) \in SlaveType /\ Synced(d).crashed = FALSE /\ Synced(d).hlid = slave.hlid
    BY SyncedType DEF IInv, Sound, Loop, SlaveType
  <1>1. CASE LoopColdStart(d, in)
    BY <1>0, <1>1 DEF LoopColdStart, WaitUnknown, SlaveType
  <1>2. ASSUME NEW s \in SlaveType, WaitingReceive(s, in), s.crashed = FALSE
        PROVE  /\ slave'.crashed = FALSE
               /\ \/ slave'.hlid \in {s.hlid, UnknownHello}
                  \/ in.kind = "hello" /\ slave'.hlid = in.hlid
    <2>1. CASE in.kind = "assoc" /\ slave' = Associate(s, in)
      <3> DEFINE c == ChangeMaster(s, in.src, UnknownHello)
                 n == NegociateMtu(c, in.mtu)
      <3>1. c \in SlaveType /\ c.crashed = FALSE /\ c.hlid \in {s.hlid, UnknownHello}
        BY <1>2, <2>1, InputCases, ChangeMasterType DEF ChangeMaster, SlaveType
      <3> HIDE DEF c
      <3>2. n \in SlaveType /\ n.crashed = FALSE /\ n.hlid = c.hlid
        BY <2>1, <3>1, InputCases, NegociateMtuType
      <3> HIDE DEF n
      <3>3. slave' = Run(n, in.ttl) BY <2>1 DEF Associate, n, c
      <3> QED BY <3>1, <3>2, <3>3 DEF Run, SlaveType
    <2>2. CASE in.kind = "hello" /\ slave' = WaitKnown(ChangeMaster(s, in.src, in.hlid))
      BY <1>2, <2>2 DEF WaitKnown, ChangeMaster, SlaveType
    <2> QED BY <1>2, <2>1, <2>2 DEF WaitingReceive
  <1>3. ASSUME NEW s \in SlaveType, WaitingTimer(s), s.crashed = FALSE
        PROVE  slave'.crashed = FALSE /\ slave'.hlid \in {s.hlid, UnknownHello}
    BY <1>3 DEF WaitingTimer, WaitUnknown, ResetMaster, NegociateMtu, SlaveType
  <1>4. CASE LoopWaitingUnknown(d, in)
    BY <1>0, <1>2, <1>3, <1>4 DEF LoopWaitingUnknown
  <1>5. CASE LoopWaitingKnown(d, in)
    <2> DEFINE c == ChangeMaster(Synced(d), in.src, in.hlid)
    <2>1. ASSUME in.kind = "hello"
          PROVE  c \in SlaveType /\ c.crashed = FALSE /\ c.hlid \in {slave.hlid, in.hlid}
      BY <1>0, <2>1, InputCases, ChangeMasterType DEF ChangeMaster, SlaveType
    <2> HIDE DEF c
    <2>2. CASE WaitingReceive(Synced(d), in) BY <1>0, <1>2, <2>2
    <2>3. CASE in.kind = "hello" /\ WaitingTimer(c) BY <1>3, <2>1, <2>3
    <2>4. CASE WaitingTimer(Synced(d)) BY <1>0, <1>3, <2>4
    <2> QED BY <1>5, <2>2, <2>3, <2>4 DEF LoopWaitingKnown, c
  <1>6. CASE LoopAssociated(d, in)
    <2> DEFINE m == Receive(Synced(d), in)
    <2>1. /\ m \in SlaveType /\ m.crashed = FALSE
          /\ \/ m.hlid \in {slave.hlid, UnknownHello}
             \/ in.kind = "hello" /\ m.hlid = in.hlid
      BY <1>0, ReceiveFields
    <2> HIDE DEF m
    <2>2. PICK trig \in SUBSET Triggerable(m) :
             slave' = GiveUp(RepeatRenew(EnterRenew(NextSerials(m, trig))))
      BY <1>6, <2>1 DEF LoopAssociated, m
    <2> DEFINE q == NextSerials(m, trig)
    <2>3. q \in SlaveType /\ q.crashed = FALSE /\ q.hlid = m.hlid
      BY <2>1, NextSerialsFields
    <2> HIDE DEF q
    <2>4. slave'.hlid \in {q.hlid, UnknownHello} /\ slave'.crashed = q.crashed
      BY <2>2, <2>3, EndFields DEF q
    <2> QED BY <2>1, <2>3, <2>4
  <1> QED BY <1>1, <1>4, <1>5, <1>6 DEF Loop

\* The end of a call leaves an association alone whose term is not over.
LEMMA EndKeeps ==
  ASSUME NEW s, Settling(s), s.status \in Associated, s.trenew.limit > 0
  PROVE  LET e == GiveUp(RepeatRenew(EnterRenew(s)))
         IN  e.status \in Associated /\ e.trenew.limit = s.trenew.limit
  <1> DEFINE e == EnterRenew(s)
             f == RepeatRenew(e)
  <1>0. s \in SlaveType /\ s.trenew \in Timer BY DEF Settling, SlaveType
  <1>1. /\ e \in SlaveType /\ e.status \in Associated /\ e.trenew.limit = s.trenew.limit
    BY <1>0, NextType DEF EnterRenew, RenewTime, SlaveType, Statuses, Associated
  <1> HIDE DEF e
  <1>2. e.trenew \in Timer BY <1>1 DEF SlaveType
  <1>3. f \in SlaveType /\ f.status \in Associated /\ f.trenew.limit = s.trenew.limit
    BY <1>1, <1>2, NextType DEF RepeatRenew, RepeatTime, SlaveType
  <1> HIDE DEF f
  <1>4. f.trenew.limit \in Nat BY <1>3 DEF SlaveType, Timer
  <1>5. GiveUp(f) = f BY <1>3, <1>4 DEF GiveUp, TtlOver, Expired
  <1> QED BY <1>3, <1>5 DEF e, f

\* A call that answers an Assoc leaves the slave associated for the TTL it carries.
LEMMA AnsweredCall ==
  ASSUME IInv, NEW d \in Nat, NEW in \in Input, in.kind = "assoc", Loop(d, in),
         out'.answers # {}
  PROVE  slave'.status \in Associated /\ slave'.trenew.limit = in.ttl
  <1>0. /\ slave \in SlaveType /\ slave.crashed = FALSE /\ Synced(d) \in SlaveType
        /\ in.src \in Masters /\ in.ttl \in Ttls /\ in.mtu \in Int
    BY SyncedType, InputCases DEF IInv, Sound, Loop, SlaveType
  <1>1. ASSUME NEW n \in SlaveType
        PROVE  /\ Run(n, in.ttl).status = "RUNNING"
               /\ Run(n, in.ttl).trenew.limit = in.ttl
    BY DEF Run, SlaveType, TrenewInit
  <1>2. ~ LoopColdStart(d, in) BY DEF LoopColdStart, Sent
  <1>3. CASE LoopWaitingUnknown(d, in) \/ LoopWaitingKnown(d, in)
    <2> DEFINE n == NegociateMtu(ChangeMaster(Synced(d), in.src, UnknownHello), in.mtu)
    <2>1. slave' = Run(n, in.ttl)
      BY <1>3 DEF LoopWaitingUnknown, LoopWaitingKnown, WaitingReceive, Associate
    <2>2. n \in SlaveType BY <1>0, ChangeMasterType, NegociateMtuType
    <2> HIDE DEF n
    <2> QED BY <1>1, <2>1, <2>2 DEF Associated
  <1>4. CASE LoopAssociated(d, in)
    <2> DEFINE s0 == Synced(d)
               s1 == Receive(s0, in)
    <2>1. Settling(s0) BY <1>0, <1>4, SyncedType DEF IInv, LoopAssociated
    <2>2. Settling(s1) BY <2>1, ReceiveSettling
    <2>3. PICK trig \in SUBSET Triggerable(s1) :
             /\ slave' = GiveUp(RepeatRenew(EnterRenew(NextSerials(s1, trig))))
             /\ out'.answers = AnswerTo(s0, in)
      BY <1>4 DEF LoopAssociated, Sent, Quiet
    <2>4. SameMaster(s0, in.src) BY <2>3 DEF AnswerTo
    <2> DEFINE n == NegociateMtu(s0, in.mtu)
    <2>5. n \in SlaveType BY <1>0, NegociateMtuType
    <2>6. s1 = Run(n, in.ttl) BY <2>4 DEF Receive
    <2> HIDE DEF n, s0
    <2>7. s1.status = "RUNNING" /\ s1.trenew.limit = in.ttl BY <1>1, <2>5, <2>6
    <2> DEFINE s2 == NextSerials(s1, trig)
    <2> HIDE DEF s1
    <2>8. Settling(s2) /\ s2.status = s1.status /\ s2.trenew = s1.trenew
      BY <2>2, NextSerialsSettling
    <2>9. in.ttl > 0 BY <1>0, TimersAssumption
    <2> HIDE DEF s2
    <2>10. s2.status \in Associated /\ s2.trenew.limit = in.ttl BY <2>7, <2>8 DEF Associated
    <2> QED BY <2>3, <2>8, <2>9, <2>10, EndKeeps DEF s2
  <1> QED BY <1>2, <1>3, <1>4 DEF Loop

\* A call made before the term is over leaves the association alone, unless it hears
\* a Hello that announces another master; only an Assoc begins another term.
LEMMA KeptCall ==
  ASSUME IInv, NEW d \in Nat, NEW in \in Input, Loop(d, in),
         slave.status \in Associated, slave.trenew.limit > d,
         in.kind = "hello" =>
           \/ slave.hlid = UnknownHello
           \/ SameMaster(slave, in.src) /\ in.hlid = slave.hlid
  PROVE  /\ slave'.status \in Associated
         /\ \/ slave'.trenew.limit = slave.trenew.limit - d
            \/ in.kind = "assoc" /\ slave'.trenew.limit = in.ttl
  <1> DEFINE s0 == Synced(d)
             s1 == Receive(s0, in)
  <1>0. /\ slave \in SlaveType /\ slave.trenew.limit \in Nat
        /\ \A f \in {"status", "master", "hlid", "obs", "crashed"} : s0[f] = slave[f]
        /\ Settling(s0) /\ s0 \in SlaveType
    BY SyncedType DEF IInv, Sound, Loop, SlaveType, Timer
  <1>1. s0.trenew.limit = slave.trenew.limit - d
    BY <1>0 DEF Synced, SlaveType, Elapse, NonNeg
  <1>2. LoopAssociated(d, in)
    BY DEF Loop, LoopColdStart, LoopWaitingUnknown, LoopWaitingKnown, Associated
  <1>3. Settling(s1) BY <1>0, ReceiveSettling
  <1> HIDE DEF s0
  <1>4. /\ s1.status \in Associated
        /\ \/ s1.trenew.limit = s0.trenew.limit
           \/ in.kind = "assoc" /\ s1.trenew.limit = in.ttl
    <2>1. CASE in.kind = "hello" /\ ~ (SameMaster(s0, in.src) /\ in.hlid = s0.hlid)
      <3> DEFINE c == ChangeMaster(s0, in.src, in.hlid)
      <3>1. c \in SlaveType /\ c.status = s0.status /\ c.trenew = s0.trenew
        BY <1>0, <2>1, InputCases, ChangeMasterType
      <3> HIDE DEF c
      <3>2. NegociateMtu(c, 0).status = c.status /\ NegociateMtu(c, 0).trenew = c.trenew
        BY <3>1, NegociateMtuType
      <3>3. s0.hlid = UnknownHello BY <1>0, <2>1 DEF SameMaster
      <3>4. s1 = NegociateMtu(c, 0) BY <2>1, <3>3 DEF Receive, c
      <3> QED BY <1>0, <3>1, <3>2, <3>4
    <2>2. CASE in.kind = "assoc" /\ SameMaster(s0, in.src)
      <3> DEFINE n == NegociateMtu(s0, in.mtu)
      <3>1. n \in SlaveType BY <1>0, <2>2, InputCases, NegociateMtuType
      <3>2. s1 = Run(n, in.ttl) BY <2>2 DEF Receive
      <3> HIDE DEF n
      <3> QED BY <2>2, <3>1, <3>2 DEF Run, SlaveType, TrenewInit, Associated
    <2>3. CASE in.kind = "request" /\ in.res \in Observables
      <3>1. s1 = Observed(s0, in) BY <2>3 DEF Receive
      <3> QED BY <1>0, <3>1 DEF Observed, SlaveType
    <2>4. CASE /\ ~ (in.kind = "hello" /\ ~ (SameMaster(s0, in.src) /\ in.hlid = s0.hlid))
               /\ ~ (in.kind = "assoc" /\ SameMaster(s0, in.src))
               /\ ~ (in.kind = "request" /\ in.res \in Observables)
      <3>1. s1 = s0 BY <2>4 DEF Receive
      <3> QED BY <1>0, <3>1
    <2> QED BY <2>1, <2>2, <2>3, <2>4
  <1>5. s1.trenew.limit > 0
    BY <1>0, <1>1, <1>4, InputCases, TimersAssumption
  <1>6. CASE s1.crashed /\ slave' = s1 BY <1>1, <1>4, <1>6
  <1>7. CASE \E trig \in SUBSET Triggerable(s1) :
                slave' = GiveUp(RepeatRenew(EnterRenew(NextSerials(s1, trig))))
    <2>1. PICK trig \in SUBSET Triggerable(s1) :
             slave' = GiveUp(RepeatRenew(EnterRenew(NextSerials(s1, trig))))
      BY <1>7
    <2> DEFINE s2 == NextSerials(s1, trig)
    <2> HIDE DEF s1
    <2>2. Settling(s2) /\ s2.status = s1.status /\ s2.trenew = s1.trenew
      BY <1>3, NextSerialsSettling
    <2> HIDE DEF s2
    <2>3. s2.status \in Associated /\ s2.trenew.limit = s1.trenew.limit /\ s2.trenew.limit > 0
      BY <1>4, <1>5, <2>2
    <2> QED BY <1>1, <1>4, <2>1, <2>2, <2>3, EndKeeps DEF s2
  <1> QED BY <1>2, <1>6, <1>7 DEF LoopAssociated, s0

=============================================================================
