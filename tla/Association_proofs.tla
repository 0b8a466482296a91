------------------------- MODULE Association_proofs -------------------------
(***************************************************************************)
(* Proofs about Association, for any TTL, latency of the network, ids,     *)
(* hello-ids and timers, and any interleaving of the slave, the master and *)
(* the network: what the master believes of the association is backed by   *)
(* the slave, and the slave, composed with a master and a network that     *)
(* loses, repeats and reorders frames, still keeps a lease.                *)
(***************************************************************************)
EXTENDS Association, Sequences, TLAPS

\* What is proved of the slave alone.
P == INSTANCE CasanSlave_proofs WITH
  Masters <- {Master}, Ttls <- {Ttl}, Mtus <- 1..MasterMtu, DefMtu <- SlaveMtu,
  Observables <- {}, NoDereg <- {}, Tokens <- {"none"}, MaxSerial <- 0

\* The constants are such as CasanSlave assumes.
LEMMA Timers ==
  /\ WaitStart \in Nat \ {0} /\ WaitInc \in Nat \ {0}
  /\ WaitIncMax \in Nat \ {0} /\ WaitMax \in Nat \ {0}
  /\ RenewMin \in Nat \ {0} /\ MaxGap \in Nat \ {0}
  /\ \A ttl \in {Ttl} : ttl \in Nat /\ ttl >= 2
  BY SlaveAssumption, AssociationAssumption

\* The parameters of the slave in the composition are ones that its own module allows.
LEMMA Addresses ==
  /\ Nobody \notin {Master}
  /\ HelloIds \subseteq Nat
  /\ 1..MasterMtu \subseteq Int
  /\ SlaveMtu \in Nat \ {0}
  /\ {} \subseteq {}
  /\ {"none"} # {}
  BY SlaveAssumption, AssociationAssumption

---------------------------------------------------------------------------
(* Association and CasanSlave_proofs speak of the same slave: each definition that *)
(* a call of loop() uses is the same operator under both names.                   *)

\* The timers of the slave proved about and of the slave of the composition are the same.
LEMMA SameTimers ==
  /\ P!Idle = Slave!Idle /\ P!TwaitInit = Slave!TwaitInit
  /\ \A t : /\ P!TwaitNext(t) = Slave!TwaitNext(t) /\ P!TrenewNext(t) = Slave!TrenewNext(t)
            /\ P!Due(t) <=> Slave!Due(t)
            /\ P!Expired(t) <=> Slave!Expired(t)
  /\ \A ttl : P!TrenewInit(ttl) = Slave!TrenewInit(ttl)
  /\ \A t, d : P!Elapse(t, d) = Slave!Elapse(t, d)
  BY DEF P!Idle, Slave!Idle, P!TwaitInit, Slave!TwaitInit, P!TwaitNext, Slave!TwaitNext,
         P!TrenewNext, Slave!TrenewNext, P!Rearm, Slave!Rearm, P!Due, Slave!Due,
         P!Expired, Slave!Expired, P!TrenewInit, Slave!TrenewInit, P!Elapse,
         Slave!Elapse, P!NonNeg, Slave!NonNeg

\* So are the constants of its module, and what it sends.
LEMMA SameConstants ==
  /\ P!UnknownHello = Slave!UnknownHello /\ P!Quiet = Slave!Quiet
  /\ P!Associated = Slave!Associated /\ P!Unassociated = Slave!Unassociated
  /\ \A a, n, e : P!Sent(a, n, e) = Slave!Sent(a, n, e)
  /\ \A a : P!AssocAnswer(a) = Slave!AssocAnswer(a)
  BY DEF P!UnknownHello, Slave!UnknownHello, P!Quiet, Slave!Quiet, P!Sent, Slave!Sent,
         P!Associated, Slave!Associated, P!Unassociated, Slave!Unassociated,
         P!AssocAnswer, Slave!AssocAnswer

\* So is what it does of masters and of the MTU.
LEMMA SameMasters ==
  /\ \A s, mtu : P!NegociateMtu(s, mtu) = Slave!NegociateMtu(s, mtu)
  /\ \A s : P!ResetMaster(s) = Slave!ResetMaster(s)
  /\ \A s, a : P!SameMaster(s, a) <=> Slave!SameMaster(s, a)
  /\ \A s, a, h : P!ChangeMaster(s, a, h) = Slave!ChangeMaster(s, a, h)
  BY SameConstants DEF P!NegociateMtu, Slave!NegociateMtu, P!ResetMaster, Slave!ResetMaster,
         P!SameMaster, Slave!SameMaster, P!ChangeMaster, Slave!ChangeMaster

\* So is what it does to enter a status.
LEMMA SameStatuses ==
  /\ \A s : P!WaitKnown(s) = Slave!WaitKnown(s) /\ P!WaitUnknown(s) = Slave!WaitUnknown(s)
  /\ \A s, ttl : P!Run(s, ttl) = Slave!Run(s, ttl)
  /\ \A d : P!Synced(d) = Slave!Synced(d)
  BY SameTimers, SameConstants DEF P!WaitKnown, Slave!WaitKnown, P!WaitUnknown, Slave!WaitUnknown, P!Run,
         Slave!Run, P!Synced, Slave!Synced

\* So is what it does of a frame.
LEMMA SameReceptions ==
  ASSUME NEW s, NEW in
  PROVE  /\ P!Receive(s, in) = Slave!Receive(s, in)
         /\ P!AnswerTo(s, in) = Slave!AnswerTo(s, in)
         /\ P!Associate(s, in) = Slave!Associate(s, in)
  <1>1. P!Receive(s, in) = Slave!Receive(s, in)
    BY SameConstants, SameMasters, SameStatuses DEF P!Receive, Slave!Receive, P!Observed, Slave!Observed
  <1>2. P!AnswerTo(s, in) = Slave!AnswerTo(s, in)
    BY SameMasters DEF P!AnswerTo, Slave!AnswerTo, P!AssocAnswer, Slave!AssocAnswer, P!Reply,
           Slave!Reply, P!TooLarge, Slave!TooLarge
  <1>3. P!Associate(s, in) = Slave!Associate(s, in)
    BY SameConstants, SameMasters, SameStatuses DEF P!Associate, Slave!Associate
  <1>q. QED BY <1>1, <1>2, <1>3

\* So are the tests that end a call.
LEMMA SameEnds ==
  /\ \A s, trig : P!NextSerials(s, trig) = Slave!NextSerials(s, trig)
  /\ \A s : /\ P!EnterRenew(s) = Slave!EnterRenew(s)
            /\ P!RepeatRenew(s) = Slave!RepeatRenew(s)
            /\ P!GiveUp(s) = Slave!GiveUp(s)
            /\ P!RenewTime(s) <=> Slave!RenewTime(s)
            /\ P!RepeatTime(s) <=> Slave!RepeatTime(s)
            /\ P!TtlOver(s) <=> Slave!TtlOver(s)
            /\ P!Triggerable(s) = Slave!Triggerable(s)
  /\ \A s, r : P!Notify(s, r) = Slave!Notify(s, r)
  /\ \A test, t : P!Discover(test, t) = Slave!Discover(test, t)
  BY SameTimers, SameMasters, SameStatuses DEF P!NextSerials, Slave!NextSerials, P!EnterRenew, Slave!EnterRenew,
         P!RepeatRenew, Slave!RepeatRenew, P!GiveUp, Slave!GiveUp, P!RenewTime,
         Slave!RenewTime, P!RepeatTime, Slave!RepeatTime, P!TtlOver, Slave!TtlOver,
         P!Triggerable, Slave!Triggerable, P!Notify, Slave!Notify, P!Discover,
         Slave!Discover

\* So is what it does while it waits.
LEMMA SameWaiting ==
  ASSUME NEW s, NEW in
  PROVE  /\ P!WaitingReceive(s, in) <=> Slave!WaitingReceive(s, in)
         /\ P!WaitingTimer(s) <=> Slave!WaitingTimer(s)
  BY SameTimers, SameConstants, SameMasters, SameStatuses, SameReceptions DEF P!WaitingReceive, Slave!WaitingReceive, P!WaitingTimer, Slave!WaitingTimer

\* So is a whole call of loop().
LEMMA SameLoop ==
  ASSUME NEW d, NEW in
  PROVE  P!Loop(d, in) <=> Slave!Loop(d, in)
  <1>1. P!LoopColdStart(d, in) <=> Slave!LoopColdStart(d, in)
    BY SameConstants, SameStatuses DEF P!LoopColdStart, Slave!LoopColdStart
  <1>2. /\ P!LoopWaitingUnknown(d, in) <=> Slave!LoopWaitingUnknown(d, in)
        /\ P!LoopWaitingKnown(d, in) <=> Slave!LoopWaitingKnown(d, in)
    BY SameMasters, SameStatuses, SameWaiting DEF P!LoopWaitingUnknown, Slave!LoopWaitingUnknown, P!LoopWaitingKnown,
           Slave!LoopWaitingKnown
  <1>3. P!LoopAssociated(d, in) <=> Slave!LoopAssociated(d, in)
    <2> DEFINE p0 == P!Synced(d)
               p1 == P!Receive(p0, in)
               p2(trig) == P!NextSerials(p1, trig)
               p3(trig) == P!EnterRenew(p2(trig))
               p4(trig) == P!RepeatRenew(p3(trig))
               p5(trig) == P!GiveUp(p4(trig))
               pNotices(trig) == {P!Notify(p2(trig), r) : r \in trig}
               pDiscovers(trig) ==
                 P!Discover(P!RenewTime(p2(trig)), p3(trig))
                   \o P!Discover(P!RepeatTime(p3(trig)), p4(trig))
                   \o P!Discover(P!TtlOver(p4(trig)), p5(trig))
               s0 == Slave!Synced(d)
               s1 == Slave!Receive(s0, in)
               s2(trig) == Slave!NextSerials(s1, trig)
               s3(trig) == Slave!EnterRenew(s2(trig))
               s4(trig) == Slave!RepeatRenew(s3(trig))
               s5(trig) == Slave!GiveUp(s4(trig))
               sNotices(trig) == {Slave!Notify(s2(trig), r) : r \in trig}
               sDiscovers(trig) ==
                 Slave!Discover(Slave!RenewTime(s2(trig)), s3(trig))
                   \o Slave!Discover(Slave!RepeatTime(s3(trig)), s4(trig))
                   \o Slave!Discover(Slave!TtlOver(s4(trig)), s5(trig))
    <2>1. p0 = s0 BY SameStatuses
    <2>2. p1 = s1 BY <2>1, SameReceptions
    <2>3. P!AnswerTo(p0, in) = Slave!AnswerTo(s0, in) BY <2>1, SameReceptions
    <2>4. P!Triggerable(p1) = Slave!Triggerable(s1) BY <2>2, SameEnds
    <2>5. ASSUME NEW trig
          PROVE  /\ p2(trig) = s2(trig) /\ p3(trig) = s3(trig) /\ p4(trig) = s4(trig)
                 /\ p5(trig) = s5(trig)
      <3>1. p2(trig) = s2(trig) BY <2>2, SameEnds
      <3>2. p3(trig) = s3(trig) BY <3>1, SameEnds
      <3>3. p4(trig) = s4(trig) BY <3>2, SameEnds
      <3>4. p5(trig) = s5(trig) BY <3>3, SameEnds
      <3>q. QED BY <3>1, <3>2, <3>3, <3>4
    <2>6. ASSUME NEW trig PROVE pNotices(trig) = sNotices(trig)
      <3> HIDE DEF p2, s2
      <3>q. QED BY <2>5, SameEnds
    <2>7. ASSUME NEW trig PROVE pDiscovers(trig) = sDiscovers(trig)
      <3> HIDE DEF p2, s2, p3, s3, p4, s4, p5, s5
      <3>1. /\ P!RenewTime(p2(trig)) <=> Slave!RenewTime(s2(trig))
            /\ P!RepeatTime(p3(trig)) <=> Slave!RepeatTime(s3(trig))
            /\ P!TtlOver(p4(trig)) <=> Slave!TtlOver(s4(trig))
        BY <2>5, SameEnds
      <3>q. QED BY <2>5, <3>1 DEF P!Discover, Slave!Discover
    <2>8. P!LoopAssociated(d, in) <=>
            /\ slave.status \in P!Associated
            /\ \/ p1.crashed /\ slave' = p1 /\ out' = P!Quiet
               \/ /\ ~ p1.crashed
                  /\ \E trig \in SUBSET P!Triggerable(p1) :
                       /\ slave' = p5(trig)
                       /\ out' = P!Sent(P!AnswerTo(p0, in), pNotices(trig), pDiscovers(trig))
      BY DEF P!LoopAssociated
    <2>9. Slave!LoopAssociated(d, in) <=>
            /\ slave.status \in Slave!Associated
            /\ \/ s1.crashed /\ slave' = s1 /\ out' = Slave!Quiet
               \/ /\ ~ s1.crashed
                  /\ \E trig \in SUBSET Slave!Triggerable(s1) :
                       /\ slave' = s5(trig)
                       /\ out' = Slave!Sent(Slave!AnswerTo(s0, in), sNotices(trig),
                                            sDiscovers(trig))
      BY DEF Slave!LoopAssociated
    <2> HIDE DEF p0, p1, p5, pNotices, pDiscovers, s0, s1, s5, sNotices, sDiscovers
    <2>q. QED
      BY <2>2, <2>3, <2>4, <2>5, <2>6, <2>7, <2>8, <2>9, SameConstants
  <1>q. QED BY <1>1, <1>2, <1>3 DEF P!Loop, Slave!Loop

\* So are its states.
LEMMA SameStates ==
  /\ P!SlaveType = Slave!SlaveType
  /\ P!ColdSlave = Slave!ColdSlave
  /\ P!Nothing = Slave!Nothing
  <1>1. P!NeverObserved = Slave!NeverObserved BY DEF P!NeverObserved, Slave!NeverObserved
  <1>q. QED
    BY <1>1, SameTimers, SameConstants
    DEF P!SlaveType, Slave!SlaveType, P!Statuses, Slave!Statuses, P!Timer, Slave!Timer,
        P!ColdSlave, Slave!ColdSlave, P!Nothing, Slave!Nothing

---------------------------------------------------------------------------
(* The inductive invariant *)

\* The slave is associated for t more units of time at least.
Backed(t) == slave.status \in Slave!Associated /\ slave.trenew.limit - since >= t

\* While nobody restarts, there is one hello-id: the slave never takes the Hello of
\* its master for that of another one.
HelloKnown ==
  /\ slave.hlid \in {Slave!UnknownHello, master.hlid}
  /\ \A h \in HelloIds : InFlight(Hello(h)) => h = master.hlid

\* An Assoc Answer that may still be received is younger than the latency, and the
\* slave has begun the term it announces, or another one since, when it sent it.
AnswersBacked ==
  \A i \in Ids : InFlight(Answer(i)) => Backed(Ttl - Latency + net[Answer(i)])

AInv ==
  /\ TypeOK
  /\ P!IInv
  /\ restarts = 0 => HelloKnown /\ AnswersBacked
  /\ LeaseBacked

\* Frames of different kinds are different frames.
LEMMA FrameKinds ==
  /\ \A i \in Ids : Answer(i) \in Frames /\ Assoc(i) \in Frames
  /\ \A h \in HelloIds : Hello(h) \in Frames
  /\ Discover \in Frames
  /\ \A i \in Ids, h \in HelloIds : Answer(i) # Hello(h) /\ Assoc(i) # Hello(h)
  /\ \A i \in Ids : Discover # Answer(i)
  /\ \A h \in HelloIds : Discover # Hello(h)
  /\ \A i, j \in Ids : Answer(i) # Assoc(j) /\ (Answer(i) = Answer(j) => i = j)
  /\ \A h, k \in HelloIds : Hello(h) = Hello(k) => h = k
  <1>1. /\ \A i : Answer(i).kind = "answer" /\ Answer(i).id = i /\ Assoc(i).kind = "assoc"
        /\ \A h : Hello(h).kind = "hello" /\ Hello(h).hlid = h
        /\ Discover.kind = "discover"
    BY DEF Answer, Assoc, Hello, Discover
  <1>2. /\ \A i \in Ids : Answer(i) \in Frames /\ Assoc(i) \in Frames
        /\ \A h \in HelloIds : Hello(h) \in Frames
        /\ Discover \in Frames
    BY DEF Frames
  <1> HIDE DEF Answer, Assoc, Hello, Discover
  <1>q. QED BY <1>1, <1>2

\* What is sent has the latency of the network before it, and what was in flight is
\* left alone.
LEMMA EmitValues ==
  ASSUME net \in [Frames -> 0..Latency], NEW frames
  PROVE  /\ Emit(frames) \in [Frames -> 0..Latency]
         /\ \A f \in Frames : Emit(frames)[f] = IF f \in frames THEN Latency ELSE net[f]
  BY AssociationAssumption DEF Emit

\* Inputs are inputs of the slave: Assocs and Hellos of its master.
LEMMA InputsOfSlave ==
  ASSUME NEW r \in Inputs
  PROVE  /\ r.in \in P!Input
         /\ \/ \E i \in Ids : /\ r.frame = Assoc(i)
                              /\ r.in.kind = "assoc" /\ r.in.ttl = Ttl
            \/ \E h \in HelloIds : /\ r.frame = Hello(h)
                                   /\ r.in.kind = "hello" /\ r.in.src = Master /\ r.in.hlid = h
  <1>1. Negotiated \in 1..MasterMtu BY AssociationAssumption DEF Negotiated
  <1>2. ASSUME NEW i \in Ids, r = AssocInput(i)
        PROVE  /\ r.in \in P!Input /\ r.frame = Assoc(i)
               /\ r.in.kind = "assoc" /\ r.in.ttl = Ttl
    <2>1. r.in = P!Assoc(Master, Ttl, Negotiated) /\ r.frame = Assoc(i)
      BY <1>2 DEF AssocInput, P!Assoc, Slave!Assoc
    <2>2. P!Assoc(Master, Ttl, Negotiated) \in P!Input BY <1>1 DEF P!Input
    <2>3. /\ P!Assoc(Master, Ttl, Negotiated).kind = "assoc"
          /\ P!Assoc(Master, Ttl, Negotiated).ttl = Ttl
      BY DEF P!Assoc
    <2>q. QED BY <2>1, <2>2, <2>3
  <1>3. ASSUME NEW h \in HelloIds, r = HelloInput(h)
        PROVE  /\ r.in \in P!Input /\ r.frame = Hello(h)
               /\ r.in.kind = "hello" /\ r.in.src = Master /\ r.in.hlid = h
    <2>1. r.in = P!Hello(Master, h) /\ r.frame = Hello(h)
      BY <1>3 DEF HelloInput, P!Hello, Slave!Hello
    <2>2. P!Hello(Master, h) \in P!Input BY DEF P!Input
    <2>3. /\ P!Hello(Master, h).kind = "hello" /\ P!Hello(Master, h).src = Master
          /\ P!Hello(Master, h).hlid = h
      BY DEF P!Hello
    <2>q. QED BY <2>1, <2>2, <2>3
  <1>4. (\E i \in Ids : r = AssocInput(i)) \/ (\E h \in HelloIds : r = HelloInput(h))
    BY DEF Inputs
  <1>q. QED BY <1>2, <1>3, <1>4

\* A call that receives nothing is one of those that the slave is proved about.
LEMMA NothingIsInput ==
  Slave!Nothing \in P!Input /\ Slave!Nothing.kind = "none"
  BY SameStates DEF P!Input, P!Nothing

---------------------------------------------------------------------------
(* A call of loop(), whatever it receives *)

\* It is a step of the slave.
LEMMA CallOfSlave ==
  ASSUME TypeOK, P!IInv, NEW in \in P!Input, in.kind # "request", Slave!Loop(since, in)
  PROVE  P!IInv' /\ P!Next /\ P!Loop(since, in) /\ slave' \in Slave!SlaveType
  <1>1. P!Loop(since, in) BY SameLoop
  <1>2. since \in 0..MaxGap BY DEF TypeOK
  <1>3. P!Next BY <1>1, <1>2 DEF P!Next
  <1>4. P!IInv' BY <1>3, P!StepInvariant, Timers, Addresses
  <1>5. slave' \in Slave!SlaveType BY <1>4, SameStates DEF P!IInv, P!Sound
  <1>q. QED BY <1>1, <1>3, <1>4, <1>5

\* The times that LeaseBacked compares are natural numbers.
LEMMA TimesAreNumbers == ASSUME TypeOK PROVE slave.trenew.limit \in Nat /\ since \in Nat
  <1>1. slave \in P!SlaveType BY SameStates DEF TypeOK
  <1>2. slave.trenew \in P!Timer BY <1>1 DEF P!SlaveType
  <1>q. QED BY <1>2, SlaveAssumption DEF TypeOK, P!Timer

\* What is backed remains so: a call takes from the association the time that has
\* passed since the previous one, or begins another term.
LEMMA BackedKept ==
  ASSUME TypeOK, P!IInv, NEW in \in P!Input, Slave!Loop(since, in), since' = 0,
         in.kind = "assoc" => in.ttl = Ttl,
         in.kind = "hello" => in.src = Master /\ slave.hlid \in {Slave!UnknownHello, in.hlid},
         NEW t \in 1..Ttl, Backed(t)
  PROVE  Backed(t)'
  <1>1. /\ P!Loop(since, in) /\ since \in Nat /\ Ttl \in Nat
        /\ slave.trenew.limit \in Nat /\ slave.trenew.limit > since
        /\ slave.status \in P!Associated
    <2>q. QED BY TimesAreNumbers, SameLoop, SameConstants, AssociationAssumption DEF Backed
  <1>2. slave.master = Master /\ slave.master # Nobody
    BY <1>1 DEF P!IInv, P!Sound, P!Bound, P!SlaveType
  <1>3. in.kind = "hello" =>
           \/ slave.hlid = P!UnknownHello
           \/ P!SameMaster(slave, in.src) /\ in.hlid = slave.hlid
    BY <1>2, SameConstants DEF P!SameMaster
  <1>4. /\ slave'.status \in P!Associated
        /\ \/ slave'.trenew.limit = slave.trenew.limit - since
           \/ in.kind = "assoc" /\ slave'.trenew.limit = in.ttl
    BY <1>1, <1>3, P!KeptCall, Timers, Addresses
  <1>q. QED BY <1>1, <1>4, SameConstants DEF Backed

\* A call that answers an Assoc backs a whole term.
LEMMA BackedByAnswer ==
  ASSUME TypeOK, P!IInv, NEW in \in P!Input, Slave!Loop(since, in), since' = 0,
         in.kind = "assoc", in.ttl = Ttl, out'.answers # {}
  PROVE  Backed(Ttl)'
  <1>1. P!Loop(since, in) /\ since \in Nat
    BY SameLoop, SlaveAssumption DEF TypeOK
  <1>2. slave'.status \in P!Associated /\ slave'.trenew.limit = Ttl
    BY <1>1, P!AnsweredCall, Timers, Addresses
  <1>q. QED BY <1>2, SameConstants, AssociationAssumption DEF Backed

---------------------------------------------------------------------------
(* The steps *)

MasterType ==
  [up : BOOLEAN, hlid : HelloIds, status : {"INACTIVE", "RUNNING"}, known : BOOLEAN, left : 0..Ttl]

AssocType == [listed : BOOLEAN, ntrans : 0..MaxRetransmit, expire : -1..Lifetime, answered : BOOLEAN]

\* A master that starts and an Assoc that is not in use have their types.
LEMMA NewMasterAndAssoc ==
  /\ NoAssoc \in AssocType
  /\ \A h \in HelloIds : Inactive(h) \in MasterType
  /\ Lifetime \in Nat
  <1>1. Lifetime \in Nat BY AssociationAssumption DEF Lifetime
  <1>q. QED BY <1>1, AssociationAssumption DEF NoAssoc, Inactive, AssocType, MasterType

\* The slave's call of loop(): what it sends, and what it makes of the invariant.
LEMMA CallKeeps ==
  ASSUME AInv, NEW in \in P!Input, in.kind # "request", Slave!Loop(since, in), since' = 0,
         UNCHANGED <<master, assocs, restarts>>,
         in.kind = "assoc" => in.ttl = Ttl,
         in.kind = "hello" /\ restarts = 0 =>
           in.src = Master /\ in.hlid = master.hlid /\ in.hlid \in HelloIds,
         in.kind = "hello" => in.src = Master,
         NEW sent, net' = Emit(sent),
         \A h \in HelloIds : Hello(h) \notin sent,
         \A i \in Ids : Answer(i) \in sent =>
           in.kind = "assoc" /\ in.ttl = Ttl /\ out'.answers # {}
  PROVE  AInv'
  <1> USE DEF AInv
  <1>1. P!IInv' /\ slave' \in Slave!SlaveType BY CallOfSlave
  <1>2. /\ net \in [Frames -> 0..Latency] /\ net' \in [Frames -> 0..Latency]
        /\ \A f \in Frames : net'[f] = IF f \in sent THEN Latency ELSE net[f]
    BY EmitValues DEF TypeOK
  <1>3. TypeOK'
    <2>1. since' \in 0..MaxGap BY SlaveAssumption
    <2>q. QED BY <1>1, <1>2, <2>1, NewMasterAndAssoc DEF TypeOK, MasterType, AssocType
  <1>4. P!Loop(since, in) /\ since \in Nat
    BY SameLoop, SlaveAssumption DEF TypeOK
  <1>5. ASSUME restarts = 0, NEW t \in 1..Ttl, Backed(t) PROVE Backed(t)'
    <2>1. in.kind = "hello" => in.src = Master /\ slave.hlid \in {Slave!UnknownHello, in.hlid}
      BY <1>5 DEF HelloKnown
    <2>q. QED BY <1>5, <2>1, BackedKept
  <1>6. ASSUME restarts = 0 PROVE HelloKnown'
    <2>1. \/ slave'.hlid \in {slave.hlid, P!UnknownHello}
          \/ in.kind = "hello" /\ slave'.hlid = in.hlid
      BY <1>4, P!CallFields, Timers, Addresses
    <2>2. slave'.hlid \in {Slave!UnknownHello, master'.hlid}
      BY <1>6, <2>1, SameConstants DEF HelloKnown
    <2>3. \A h \in HelloIds : net'[Hello(h)] = net[Hello(h)] BY <1>2, FrameKinds
    <2>q. QED BY <1>6, <2>2, <2>3 DEF HelloKnown, InFlight
  <1>7. ASSUME restarts = 0, NEW i \in Ids, net'[Answer(i)] > 0
        PROVE  /\ slave'.status \in Slave!Associated
               /\ slave'.trenew.limit - since' >= Ttl - Latency + net'[Answer(i)]
    <2> DEFINE t == Ttl - Latency + net'[Answer(i)]
    <2>1. t \in 1..Ttl
      <3>1. net'[Answer(i)] \in 1..Latency BY <1>2, <1>7, FrameKinds
      <3>q. QED BY <3>1, AssociationAssumption
    <2>2. CASE Answer(i) \in sent
      <3>1. Backed(Ttl)' BY <2>2, BackedByAnswer
      <3>2. slave'.trenew.limit \in Nat /\ since' \in Nat /\ Ttl \in Nat
        BY <1>1, SameStates, AssociationAssumption DEF P!SlaveType, P!Timer
      <3>3. slave'.status \in Slave!Associated /\ slave'.trenew.limit - since' >= Ttl
        BY <3>1 DEF Backed
      <3> HIDE DEF t
      <3>4. slave'.trenew.limit - since' >= t BY <2>1, <3>2, <3>3
      <3>q. QED BY <3>3, <3>4 DEF t
    <2>3. CASE Answer(i) \notin sent
      <3>1. net'[Answer(i)] = net[Answer(i)] BY <1>2, <2>3, FrameKinds
      <3>2. Backed(t) BY <1>7, <3>1 DEF AnswersBacked, InFlight
      <3> HIDE DEF t
      <3>3. slave'.status \in Slave!Associated /\ slave'.trenew.limit - since' >= t
        BY <1>5, <1>7, <2>1, <3>2 DEF Backed
      <3>q. QED BY <3>3 DEF t
    <2>q. QED BY <2>2, <2>3
  <1>8. restarts = 0 => AnswersBacked'
    BY <1>7 DEF AnswersBacked, InFlight, Backed
  <1>9. LeaseBacked'
    <2> SUFFICES ASSUME restarts = 0, master.status = "RUNNING", master.left > Latency
                 PROVE  Backed(master.left - Latency)'
      BY DEF LeaseBacked, Backed
    <2>1. Backed(master.left - Latency) BY DEF LeaseBacked, Backed
    <2>2. master.left - Latency \in 1..Ttl
      BY AssociationAssumption DEF TypeOK
    <2>q. QED BY <1>5, <2>1, <2>2
  <1>q. QED BY <1>1, <1>3, <1>6, <1>8, <1>9

\* A Discover is no answer.
LEMMA DiscoverOnly ==
  /\ \A h \in HelloIds : Hello(h) \notin DiscoverSent
  /\ \A i \in Ids : Answer(i) \notin DiscoverSent
  <1>1. DiscoverSent \subseteq {Discover} BY DEF DiscoverSent
  <1>q. QED BY <1>1, FrameKinds

\* A call that receives nothing keeps the invariant.
LEMMA SlaveIdlesKeeps == ASSUME AInv, SlaveIdles PROVE AInv'
  BY CallKeeps, NothingIsInput, DiscoverOnly DEF SlaveIdles

\* So does the reception of a frame by the slave.
LEMMA SlaveReceivesKeeps == ASSUME AInv, NEW r \in Inputs, SlaveReceives(r) PROVE AInv'
  <1> USE DEF SlaveReceives
  <1> DEFINE sent == DiscoverSent \cup IF out'.answers = {} THEN {} ELSE {Answer(r.frame.id)}
  <1>1. r.in \in P!Input BY InputsOfSlave
  <1>2. CASE \E i \in Ids : r.frame = Assoc(i) /\ r.in.kind = "assoc" /\ r.in.ttl = Ttl
    <2>1. PICK i \in Ids : r.frame = Assoc(i) BY <1>2
    <2>2. r.frame.id = i BY <2>1 DEF Assoc
    <2>3. \A h \in HelloIds : Hello(h) \notin sent BY <2>2, DiscoverOnly, FrameKinds
    <2>4. \A j \in Ids : Answer(j) \in sent => out'.answers # {} BY DiscoverOnly
    <2> HIDE DEF sent
    <2>5. net' = Emit(sent) BY DEF sent
    <2>q. QED BY <1>1, <1>2, <2>3, <2>4, <2>5, CallKeeps
  <1>3. CASE \E h \in HelloIds : /\ r.frame = Hello(h)
                                 /\ r.in.kind = "hello" /\ r.in.src = Master /\ r.in.hlid = h
    <2>1. out'.answers = {}
      BY <1>3, SameLoop, P!AnswersOf, Timers, Addresses
    <2>2. sent = DiscoverSent BY <2>1
    <2>3. restarts = 0 => r.in.hlid = master.hlid
      BY <1>3 DEF AInv, HelloKnown
    <2> HIDE DEF sent
    <2>4. net' = Emit(sent) BY DEF sent
    <2>q. QED BY <1>1, <1>3, <2>2, <2>3, <2>4, CallKeeps, DiscoverOnly
  <1>q. QED BY <1>2, <1>3, InputsOfSlave

\* A slave that starts again is not associated, and a restart has been counted.
LEMMA SlaveRestartsKeeps == ASSUME AInv, SlaveRestarts PROVE AInv'
  <1> USE DEF AInv, SlaveRestarts
  <1>1. restarts' # 0 /\ restarts' \in 0..MaxRestarts
    BY AssociationAssumption DEF TypeOK
  <1>2. P!Sound(slave') /\ P!SentOK(out')
    BY SameStates, SameConstants, P!ColdSound, P!QuietOK, Timers, Addresses
  <1>3. slave' \in Slave!SlaveType BY <1>2, SameStates DEF P!Sound
  <1>4. TypeOK' BY <1>1, <1>3, SlaveAssumption DEF TypeOK
  <1>q. QED BY <1>1, <1>2, <1>4 DEF P!IInv, LeaseBacked

\* What leaves the slave alone, and neither makes an answer nor lets one be believed.
LEMMA MasterKeeps ==
  ASSUME AInv, UNCHANGED <<slave, out, since, restarts>>,
         master' \in MasterType, assocs' \in [Ids -> AssocType],
         master'.hlid = master.hlid,
         master'.status = "INACTIVE" \/ UNCHANGED <<master.status, master.left>>,
         NEW sent, net' = Emit(sent),
         \A i \in Ids : Answer(i) \notin sent,
         \A h \in HelloIds : Hello(h) \in sent => h = master.hlid
  PROVE  AInv'
  <1> USE DEF AInv
  <1>1. /\ net \in [Frames -> 0..Latency] /\ net' \in [Frames -> 0..Latency]
        /\ \A f \in Frames : net'[f] = IF f \in sent THEN Latency ELSE net[f]
    BY EmitValues DEF TypeOK
  <1>2. TypeOK' BY <1>1 DEF TypeOK, MasterType, AssocType
  <1>3. P!IInv' BY DEF P!IInv
  <1>4. \A i \in Ids : net'[Answer(i)] = net[Answer(i)] BY <1>1, FrameKinds
  <1>5. \A h \in HelloIds : net'[Hello(h)] = net[Hello(h)] \/ h = master.hlid
    BY <1>1, FrameKinds
  <1>6. restarts' = 0 => HelloKnown' BY <1>5 DEF HelloKnown, InFlight
  <1>7. restarts' = 0 => AnswersBacked' BY <1>4 DEF AnswersBacked, InFlight, Backed
  <1>8. LeaseBacked' BY DEF LeaseBacked
  <1>q. QED BY <1>2, <1>3, <1>6, <1>7, <1>8

\* Nothing is sent.
LEMMA EmitNothing == ASSUME net \in [Frames -> 0..Latency] PROVE net = Emit({})
  BY DEF Emit

\* So do the steps of the sender of the master.
LEMMA SenderKeeps ==
  ASSUME AInv, SendHello \/ Lapse \/ \E i \in Ids : Transmit(i) \/ Purge(i)
  PROVE  AInv'
  <1>1. /\ net = Emit({}) /\ master \in MasterType /\ assocs \in [Ids -> AssocType]
        /\ master.hlid \in HelloIds
    BY EmitNothing DEF AInv, TypeOK, MasterType, AssocType
  <1>2. CASE SendHello
    <2>1. \A i \in Ids : Answer(i) \notin {Hello(master.hlid)} BY <1>1, FrameKinds
    <2>2. \A h \in HelloIds : Hello(h) \in {Hello(master.hlid)} => h = master.hlid
      BY <1>1, FrameKinds
    <2>q. QED BY <1>1, <1>2, <2>1, <2>2, MasterKeeps DEF SendHello
  <1>3. CASE Lapse
    <2>1. master' \in MasterType /\ master'.hlid = master.hlid /\ master'.status = "INACTIVE"
      BY <1>1, <1>3, NewMasterAndAssoc DEF Lapse, Inactive
    <2>q. QED BY <1>1, <1>3, <2>1, MasterKeeps DEF Lapse
  <1>4. CASE \E i \in Ids : Transmit(i)
    <2>1. PICK i \in Ids : Transmit(i) BY <1>4
    <2>2. assocs' \in [Ids -> AssocType]
      <3>1. CASE master.known
        <4>1. assocs[i] \in AssocType /\ assocs[i].ntrans < MaxRetransmit
          BY <1>1, <2>1 DEF Transmit, Sendable
        <4>2. assocs[i].ntrans + 1 \in 0..MaxRetransmit
          BY <4>1, AssociationAssumption DEF AssocType
        <4>3. (IF assocs[i].ntrans = 0 THEN Lifetime ELSE assocs[i].expire) \in -1..Lifetime
          BY <4>1, NewMasterAndAssoc DEF AssocType
        <4>q. QED BY <1>1, <2>1, <3>1, <4>1, <4>2, <4>3 DEF Transmit, AssocType
      <3>2. CASE ~ master.known BY <1>1, <2>1, <3>2 DEF Transmit
      <3>q. QED BY <3>1, <3>2
    <2>3. /\ master' \in MasterType /\ master'.hlid = master.hlid
          /\ UNCHANGED <<master.status, master.left>>
      BY <1>1, <2>1 DEF Transmit, MasterType
    <2>4. \E sent \in {{}, {Assoc(i)}} : net' = Emit(sent) BY <1>1, <2>1 DEF Transmit
    <2>5. PICK sent \in {{}, {Assoc(i)}} : net' = Emit(sent) BY <2>4
    <2>6. /\ \A j \in Ids : Answer(j) \notin sent
          /\ \A h \in HelloIds : Hello(h) \notin sent
      BY <2>5, FrameKinds
    <2>7. UNCHANGED <<slave, out, since, restarts>> BY <2>1 DEF Transmit
    <2>q. QED BY <2>2, <2>3, <2>5, <2>6, <2>7, MasterKeeps
  <1>5. CASE \E i \in Ids : Purge(i)
    <2>1. PICK i \in Ids : Purge(i) BY <1>5
    <2>2. assocs' \in [Ids -> AssocType] BY <1>1, <2>1, NewMasterAndAssoc DEF Purge
    <2>q. QED BY <1>1, <2>1, <2>2, MasterKeeps DEF Purge
  <1>q. QED BY <1>2, <1>3, <1>4, <1>5

\* So does the reception of a Discover by the master.
LEMMA ReceiveDiscoverKeeps == ASSUME AInv, ReceiveDiscover PROVE AInv'
  <1>1. /\ net = Emit({}) /\ master \in MasterType /\ assocs \in [Ids -> AssocType]
    BY EmitNothing DEF AInv, TypeOK, MasterType, AssocType
  <1>2. [NoAssoc EXCEPT !.listed = TRUE] \in AssocType
    BY NewMasterAndAssoc DEF AssocType
  <1>3. assocs' \in [Ids -> AssocType] BY <1>1, <1>2 DEF ReceiveDiscover
  <1>4. /\ master' \in MasterType /\ master'.hlid = master.hlid
        /\ UNCHANGED <<master.status, master.left>>
    BY <1>1 DEF ReceiveDiscover, MasterType
  <1>q. QED BY <1>1, <1>3, <1>4, MasterKeeps DEF ReceiveDiscover

\* The master believes an answer that is in flight: the slave backs it.
LEMMA ReceiveAnswerKeeps == ASSUME AInv, NEW i \in Ids, ReceiveAnswer(i) PROVE AInv'
  <1> USE DEF AInv, ReceiveAnswer
  <1>1. /\ master \in MasterType /\ assocs \in [Ids -> AssocType]
    BY DEF TypeOK, MasterType, AssocType
  <1>2. /\ master' \in MasterType /\ master'.hlid = master.hlid
        /\ master'.left = Ttl
    <2>1. master' \in MasterType
      <3>1. Ttl \in 0..Ttl BY AssociationAssumption
      <3>q. QED BY <1>1, <3>1 DEF Associated, MasterType
    <2>2. master'.hlid = master.hlid /\ master'.left = Ttl
      BY <1>1 DEF Associated, MasterType
    <2>q. QED BY <2>1, <2>2
  <1>3. assocs' \in [Ids -> AssocType]
    <2>1. assocs[i] \in AssocType BY <1>1
    <2>2. [assocs[i] EXCEPT !.answered = TRUE] \in AssocType BY <2>1 DEF AssocType
    <2>q. QED BY <1>1, <2>2
  <1>4. TypeOK' BY <1>2, <1>3 DEF TypeOK, MasterType, AssocType
  <1>5. P!IInv' BY DEF P!IInv
  <1>6. restarts' = 0 => HelloKnown' /\ AnswersBacked'
    BY <1>2 DEF HelloKnown, AnswersBacked, InFlight, Backed
  <1>7. LeaseBacked'
    <2> SUFFICES ASSUME restarts = 0
                 PROVE  Backed(Ttl - Latency)
      BY <1>2 DEF LeaseBacked, Backed
    <2>1. net[Answer(i)] \in 1..Latency BY FrameKinds DEF TypeOK, InFlight
    <2>2. Backed(Ttl - Latency + net[Answer(i)]) BY DEF AnswersBacked
    <2>3. slave.trenew.limit - since \in Int BY TimesAreNumbers
    <2>q. QED BY <2>1, <2>2, <2>3, AssociationAssumption DEF Backed
  <1>q. QED BY <1>4, <1>5, <1>6, <1>7

\* A master that starts again believes nothing, and a restart has been counted.
LEMMA MasterStartsKeeps == ASSUME AInv, StartAfterCrash \/ MasterRestarts PROVE AInv'
  <1> USE DEF AInv
  <1>1. restarts' # 0 /\ restarts' \in 0..MaxRestarts
    BY AssociationAssumption DEF TypeOK, StartAfterCrash, MasterRestarts
  <1>2. UNCHANGED <<slave, out, since, net>>
    BY DEF StartAfterCrash, MasterRestarts, Start
  <1>3. master' \in MasterType /\ assocs' \in [Ids -> AssocType]
    BY NewMasterAndAssoc DEF StartAfterCrash, MasterRestarts, Start
  <1>4. TypeOK' BY <1>1, <1>2, <1>3 DEF TypeOK, MasterType, AssocType
  <1>5. P!IInv' BY <1>2 DEF P!IInv
  <1>q. QED BY <1>1, <1>4, <1>5 DEF LeaseBacked

\* Time passes for the master, the slave and the network alike.
LEMMA TickKeeps == ASSUME AInv, Tick PROVE AInv'
  <1> USE DEF AInv, Tick
  <1>1. /\ master \in MasterType /\ assocs \in [Ids -> AssocType]
        /\ net \in [Frames -> 0..Latency] /\ since' = since + 1
        /\ slave.trenew.limit \in Nat /\ since \in Nat
    BY TimesAreNumbers DEF TypeOK, MasterType, AssocType
  <1>2. /\ master' \in MasterType
        /\ master'.hlid = master.hlid /\ master'.status = master.status
        /\ master'.left = IF master.left > 0 THEN master.left - 1 ELSE 0
    BY <1>1, AssociationAssumption DEF MasterType
  <1>3. assocs' \in [Ids -> AssocType]
    <2> SUFFICES ASSUME NEW i \in Ids, assocs[i].expire >= 0
                 PROVE  [assocs[i] EXCEPT !.expire = @ - 1] \in AssocType
      BY <1>1
    <2>1. assocs[i] \in AssocType /\ assocs[i].expire - 1 \in -1..Lifetime
      BY <1>1, NewMasterAndAssoc DEF AssocType
    <2>q. QED BY <2>1 DEF AssocType
  <1>4. /\ net' \in [Frames -> 0..Latency]
        /\ \A f \in Frames : net'[f] = IF net[f] > 0 THEN net[f] - 1 ELSE 0
    BY <1>1, AssociationAssumption
  <1>5. since' \in 0..MaxGap BY <1>1, SlaveAssumption
  <1>6. TypeOK' BY <1>2, <1>3, <1>4, <1>5 DEF TypeOK, MasterType, AssocType
  <1>7. P!IInv' BY DEF P!IInv
  <1>8. restarts' = 0 => HelloKnown'
    BY <1>2, <1>4, <1>1, FrameKinds DEF HelloKnown, InFlight
  <1>9. restarts' = 0 => AnswersBacked'
    <2> SUFFICES ASSUME restarts = 0, NEW i \in Ids, net'[Answer(i)] > 0
                 PROVE  /\ slave.status \in Slave!Associated
                        /\ slave.trenew.limit - since' >= Ttl - Latency + net'[Answer(i)]
      BY DEF AnswersBacked, InFlight, Backed
    <2>1. net[Answer(i)] \in 1..Latency /\ net'[Answer(i)] = net[Answer(i)] - 1
      BY <1>1, <1>4, FrameKinds
    <2>2. Backed(Ttl - Latency + net[Answer(i)]) BY <2>1 DEF AnswersBacked, InFlight
    <2>q. QED BY <1>1, <2>1, <2>2, AssociationAssumption DEF Backed
  <1>10. LeaseBacked'
    BY <1>1, <1>2, AssociationAssumption DEF LeaseBacked, MasterType
  <1>q. QED BY <1>6, <1>7, <1>8, <1>9, <1>10

\* The invariant holds initially.
LEMMA InitHolds == Init => AInv
  <1> SUFFICES ASSUME Init PROVE AInv OBVIOUS
  <1> USE DEF Init
  <1>1. P!IInv
    BY SameStates, SameConstants, P!ColdSound, P!QuietOK, Timers, Addresses
    DEF Slave!Init, P!IInv
  <1>2. slave \in Slave!SlaveType BY <1>1, SameStates DEF P!IInv, P!Sound
  <1>3. master \in MasterType /\ master.status = "INACTIVE"
    BY NewMasterAndAssoc DEF Inactive
  <1>4. TypeOK
    BY <1>2, <1>3, NewMasterAndAssoc, SlaveAssumption, AssociationAssumption
    DEF TypeOK, MasterType, AssocType
  <1>5. slave.hlid = Slave!UnknownHello BY DEF Slave!Init, Slave!ColdSlave
  <1>6. \A f \in Frames : net[f] = 0 OBVIOUS
  <1>7. HelloKnown /\ AnswersBacked
    BY <1>5, <1>6, FrameKinds DEF HelloKnown, AnswersBacked, InFlight
  <1>q. QED BY <1>1, <1>3, <1>4, <1>7 DEF AInv, LeaseBacked

\* Every step keeps the invariant.
LEMMA StepHolds == AInv /\ [Next]_vars => AInv'
  <1> SUFFICES ASSUME AInv, [Next]_vars PROVE AInv' OBVIOUS
  <1>1. CASE UNCHANGED vars
    BY <1>1
    DEF vars, AInv, TypeOK, P!IInv, HelloKnown, AnswersBacked, InFlight, Backed, LeaseBacked
  <1>2. CASE Next
    BY <1>2, SlaveIdlesKeeps, SlaveReceivesKeeps, SlaveRestartsKeeps, SenderKeeps,
       ReceiveDiscoverKeeps, ReceiveAnswerKeeps, MasterStartsKeeps, TickKeeps
    DEF Next, Sender
  <1>q. QED BY <1>1, <1>2

\* The invariant holds of every state.
LEMMA AInvAlways == Spec => []AInv
  BY InitHolds, StepHolds, PTL DEF Spec

---------------------------------------------------------------------------

\* The slave, the master, the Assocs and the network keep their types, whoever
\* restarts and whatever is lost, repeated or reordered.
THEOREM AssociationTypeCorrect == Spec => []TypeOK
  <1>1. AInv => TypeOK BY DEF AInv
  <1>q. QED BY <1>1, AInvAlways, PTL

\* As long as nobody restarts, what the master believes is true: the slave is
\* associated, for the time the master thinks it is, but for the latency; whatever the
\* network does with Hellos, Assocs and their answers, for any TTL and any latency.
THEOREM LeaseAlwaysBacked == Spec => []LeaseBacked
  <1>1. AInv => LeaseBacked BY DEF AInv
  <1>q. QED BY <1>1, AInvAlways, PTL

\* A call of loop() is a step of the lease, and so is a restart.
LEMMA LeaseStep ==
  ASSUME AInv, [Next]_vars
  PROVE  [Slave!Granted!LeaseNext]_(Slave!Granted!leaseVars)
  <1>1. CASE UNCHANGED slave
    BY <1>1 DEF Slave!Granted!leaseVars, Slave!Holding
  <1>2. CASE SlaveRestarts
    BY <1>2 DEF SlaveRestarts, Slave!ColdSlave, Slave!Granted!LeaseNext,
                Slave!Granted!Release, Slave!Holding, Slave!Associated
  <1>3. ASSUME NEW in \in P!Input, in.kind # "request", Slave!Loop(since, in)
        PROVE  [Slave!Granted!LeaseNext]_(Slave!Granted!leaseVars)
    <2>1. P!Next BY <1>3, CallOfSlave DEF AInv
    <2>2. P!OneMaster BY DEF P!OneMaster
    <2>3. P!IInv BY DEF AInv
    <2>4. [P!Granted!LeaseNext]_(P!Granted!leaseVars)
      BY <2>1, <2>2, <2>3, P!LeaseStep, Timers, Addresses
    <2>q. QED
      BY <2>4, SameConstants
      DEF P!Granted!LeaseNext, P!Granted!leaseVars, P!Granted!Hold, P!Granted!Release,
          P!Granted!Grant, P!Holding, Slave!Granted!LeaseNext, Slave!Granted!leaseVars,
          Slave!Granted!Hold, Slave!Granted!Release, Slave!Granted!Grant, Slave!Holding
  <1>4. CASE SlaveIdles BY <1>3, <1>4, NothingIsInput DEF SlaveIdles
  <1>5. CASE \E r \in Inputs : SlaveReceives(r)
    <2>1. PICK r \in Inputs : SlaveReceives(r) BY <1>5
    <2>2. r.in \in P!Input /\ r.in.kind # "request" BY InputsOfSlave
    <2>q. QED BY <1>3, <2>1, <2>2 DEF SlaveReceives
  <1>q. QED
    BY <1>1, <1>2, <1>4, <1>5
    DEF Next, Sender, SendHello, Lapse, Transmit, Purge, ReceiveDiscover, ReceiveAnswer,
        StartAfterCrash, MasterRestarts, Start, Tick, vars

\* The slave in the composition makes the steps of the slave alone, starts again, or
\* is left alone, so that it holds a lease (Lease), whatever the network does.
THEOREM AssociationKeepsLease == Spec => AssociationIsLease
  <1>1. Init => Slave!Granted!LeaseInit
    BY DEF Init, Slave!Init, Slave!ColdSlave, Slave!Granted!LeaseInit, Slave!Holding,
           Slave!Associated
  <1>2. AInv /\ [Next]_vars => [Slave!Granted!LeaseNext]_(Slave!Granted!leaseVars)
    BY LeaseStep
  <1>q. QED
    BY <1>1, <1>2, AInvAlways, PTL
    DEF Spec, AssociationIsLease, Slave!AssociationIsLease, Slave!Granted!Spec
===========================================================================
