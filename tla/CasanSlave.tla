----------------------------- MODULE CasanSlave -----------------------------
(***************************************************************************)
(* The slave engine of the Arduino library (arduino/libraries/Casan):      *)
(* class Casan, whose loop() method is called for ever by the application, *)
(* its two timers (classes Twait and Trenew) and its observed resources    *)
(* (class Resource).                                                       *)
(*                                                                         *)
(* One action is one call of loop(): the clock is read, at most one frame  *)
(* is received, and everything the call does with them follows.  Absolute  *)
(* dates never matter to the code, only their distance to `curtime': a     *)
(* timer holds what is LEFT until each of its dates, and a call begins by  *)
(* letting the time since the previous call elapse.  A date that is only   *)
(* compared with `curtime' stops at 0.  The timer of a state the slave has *)
(* left is not kept (Idle): each is initialised whenever it becomes of     *)
(* use, and TimerRunning checks that the code never forgets to.            *)
(***************************************************************************)
EXTENDS Integers, Sequences

CONSTANTS
  Masters,       \* L2 addresses of the masters on this network
  Nobody,        \* master_ == NULL, which stands for the broadcast address
  HelloIds,      \* hello-ids that masters announce
  Ttls,          \* slave TTLs that masters grant
  Mtus,          \* MTUs that masters announce in an Assoc
  DefMtu,        \* defmtu_: MTU of the L2 network, or less if the user says so
  Observables,   \* resources with an ohandler()
  NoDereg,       \* those whose ohandler() was given no deregistration handler
  Tokens,        \* tokens of the requests
  WaitStart, WaitInc, WaitIncMax, WaitMax,  \* TIMER_WAIT_*
  RenewMin,      \* TIMER_RENEW_MIN
  MaxGap,        \* bound: longest time between two calls of loop()
  MaxSerial      \* bound: notifications of one observation

ASSUME TimersAssumption ==
  /\ WaitStart \in Nat \ {0} /\ WaitInc \in Nat \ {0}
  /\ WaitIncMax \in Nat \ {0} /\ WaitMax \in Nat \ {0}
  /\ RenewMin \in Nat \ {0} /\ MaxGap \in Nat \ {0}
  /\ \A ttl \in Ttls : ttl \in Nat /\ ttl >= 2

ASSUME AddressAssumption ==
  /\ Nobody \notin Masters
  /\ HelloIds \subseteq Nat
  /\ Mtus \subseteq Int
  /\ DefMtu \in Nat \ {0}
  /\ NoDereg \subseteq Observables
  /\ Tokens # {}

VARIABLES
  slave,   \* the Casan object
  out      \* what the last call of loop() sent

vars == <<slave, out>>

Statuses == {"COLDSTART", "WAITING_UNKNOWN", "WAITING_KNOWN", "RUNNING", "RENEW"}
Associated == {"RUNNING", "RENEW"}
Unassociated == {"WAITING_UNKNOWN", "WAITING_KNOWN"}

UnknownHello == -1       \* hlid_ when no Hello has been heard

---------------------------------------------------------------------------
(* Timers *)

Idle == [limit |-> 0, inc |-> 0, next |-> 0]

NonNeg(n) == IF n > 0 THEN n ELSE 0

Elapse(t, d) == [limit |-> NonNeg(t.limit - d), inc |-> t.inc, next |-> t.next - d]

TwaitInit == [limit |-> WaitMax, inc |-> WaitStart, next |-> WaitStart]

\* Mutant of TrenewInit: the limit is counted from the next Discover.
TrenewInitLate(ttl) == [limit |-> ttl + 1, inc |-> ttl \div 2, next |-> ttl \div 2]

TrenewInit(ttl) == [limit |-> ttl, inc |-> ttl \div 2, next |-> ttl \div 2]

Due(t) == t.next <= 0
Expired(t) == t.limit <= 0

\* The next date is counted from the date that is due, not from now.
Rearm(t, inc) == [limit |-> t.limit, inc |-> inc, next |-> t.next + inc]

TwaitNext(t) ==
  Rearm(t, IF t.inc + WaitInc > WaitIncMax THEN WaitIncMax ELSE t.inc + WaitInc)

\* Mutant of TrenewNext: the interval is halved without a minimum.
TrenewNextHalved(t) == Rearm(t, t.inc \div 2)

TrenewNext(t) ==
  Rearm(t, IF t.inc \div 2 <= RenewMin THEN RenewMin ELSE t.inc \div 2)

---------------------------------------------------------------------------
(* The master and the MTU, as functions of the Casan object s *)

\* Mutant of NegociateMtu: 0, which means no MTU, is taken for one.
NegociateAnyMtu(s, mtu) ==
  [s EXCEPT !.curmtu = IF mtu >= 0 /\ mtu <= DefMtu THEN mtu ELSE DefMtu]

NegociateMtu(s, mtu) ==
  [s EXCEPT !.curmtu = IF mtu > 0 /\ mtu <= DefMtu THEN mtu ELSE DefMtu]

ResetMaster(s) ==
  NegociateMtu([s EXCEPT !.master = Nobody, !.hlid = UnknownHello], 0)

SameMaster(s, a) == s.master # Nobody /\ s.master = a

\* change_master: a hello-id of -1 leaves the one of the same master alone.
ChangeMaster(s, a, hlid) ==
  [s EXCEPT !.master = a,
            !.hlid = IF SameMaster(s, a) /\ hlid = UnknownHello THEN @ ELSE hlid]

---------------------------------------------------------------------------
(* Messages *)

Nothing   == [kind |-> "none"]
Truncated == [kind |-> "truncated"]
Hello(a, h) == [kind |-> "hello", src |-> a, hlid |-> h]
Assoc(a, ttl, mtu) == [kind |-> "assoc", src |-> a, ttl |-> ttl, mtu |-> mtu]
OtherCtl(a) == [kind |-> "ctl", src |-> a]

\* obs: the request has the option Observe, whose value always reads 0 (option.cpp:329)
Request(a, res, obs, tok) ==
  [kind |-> "request", src |-> a, res |-> res, obs |-> obs, token |-> tok]

\* A request for a resource without ohandler(), for /resources or for nothing
\* the slave has: these leave no trace in the slave.
Unobservable == "unobservable"

Input ==
  {Nothing, Truncated}
    \cup {Hello(a, h) : a \in Masters, h \in HelloIds}
    \cup {Assoc(a, ttl, mtu) : a \in Masters, ttl \in Ttls, mtu \in Mtus}
    \cup {OtherCtl(a) : a \in Masters}
    \cup {Request(a, r, o, t) : a \in Masters, r \in Observables \cup {Unobservable},
                                o \in BOOLEAN, t \in Tokens}

AssocAnswer(a)  == [kind |-> "assoc_answer", dst |-> a]
Reply(s, tok)   == [kind |-> "reply", dst |-> s.master, token |-> tok]
TooLarge(s)     == [kind |-> "too_large", dst |-> s.master]
Notify(s, r)    == [kind |-> "notify", dst |-> s.master, res |-> r,
                    token |-> s.obs[r].token, serial |-> s.obs[r].serial]

\* What a call sends, in this order: an answer at most, the notifications of
\* the observed resources, and Discovers, each given by where it is sent.
Sent(answers, notices, discovers) ==
  [answers |-> answers, notices |-> notices, discovers |-> discovers]

Quiet == Sent({}, {}, << >>)

---------------------------------------------------------------------------
(* Observed resources *)

NeverObserved == [on |-> FALSE, token |-> CHOOSE t \in Tokens : TRUE, serial |-> 0]

\* Resource::observed, and the serial put in the reply to a registration.  The
\* deregistration handler is called, if the resource was observed, when the
\* TRIGGER handler is not null.
Registration(o, in) ==
  IF in.obs THEN [on |-> TRUE, token |-> in.token, serial |-> 2]
            ELSE [on |-> FALSE, token |-> o.token, serial |-> o.serial]

Observed(s, in) ==
  LET r == in.res
  IN  [s EXCEPT !.crashed = s.obs[r].on /\ r \in NoDereg,
                !.obs = [s.obs EXCEPT ![r] = Registration(s.obs[r], in)]]

\* check_observed_resources, the resources of trig being triggered.
NextSerials(s, trig) ==
  [s EXCEPT !.obs = [r \in Observables |->
     IF r \in trig THEN [s.obs[r] EXCEPT !.serial = @ + 1] ELSE s.obs[r]]]

Triggerable(s) == {r \in Observables : s.obs[r].on /\ s.obs[r].serial < MaxSerial}

---------------------------------------------------------------------------
(* The association *)

\* Mutant of WaitUnknown: the timer of the new state is not initialised.
WaitUntimed(s) == [s EXCEPT !.status = "WAITING_UNKNOWN", !.trenew = Idle]

WaitUnknown(s) == [s EXCEPT !.status = "WAITING_UNKNOWN", !.twait = TwaitInit, !.trenew = Idle]
WaitKnown(s)   == [s EXCEPT !.status = "WAITING_KNOWN", !.twait = TwaitInit, !.trenew = Idle]
Run(s, ttl)    == [s EXCEPT !.status = "RUNNING", !.twait = Idle, !.trenew = TrenewInit(ttl)]

\* An Assoc accepted while waiting: its sender becomes the master.
Associate(s, in) == Run(NegociateMtu(ChangeMaster(s, in.src, UnknownHello), in.mtu), in.ttl)

\* Mutant of Receive: a request renews the association too.
ReceiveAlive(s, in) ==
  CASE in.kind = "hello" /\ ~ (SameMaster(s, in.src) /\ in.hlid = s.hlid) ->
         LET n == NegociateMtu(ChangeMaster(s, in.src, in.hlid), 0)
         IN  IF s.hlid # UnknownHello THEN WaitKnown(n) ELSE n
    [] in.kind = "assoc" /\ SameMaster(s, in.src) -> Run(NegociateMtu(s, in.mtu), in.ttl)
    [] in.kind = "request" -> Run(s, CHOOSE ttl \in Ttls : TRUE)
    [] OTHER -> s

\* Mutant of Receive: the hello-id is not compared.
ReceiveAnyHello(s, in) ==
  CASE in.kind = "hello" -> WaitKnown(NegociateMtu(ChangeMaster(s, in.src, in.hlid), 0))
    [] in.kind = "assoc" /\ SameMaster(s, in.src) -> Run(NegociateMtu(s, in.mtu), in.ttl)
    [] in.kind = "request" /\ in.res \in Observables -> Observed(s, in)
    [] OTHER -> s

\* The effect of the received message in RUNNING and RENEW.  A Hello from
\* another master, or from a restarted one, takes the slave back to waiting,
\* but only if the slave had heard a Hello before.
Receive(s, in) ==
  CASE in.kind = "hello" /\ ~ (SameMaster(s, in.src) /\ in.hlid = s.hlid) ->
         LET n == NegociateMtu(ChangeMaster(s, in.src, in.hlid), 0)
         IN  IF s.hlid # UnknownHello THEN WaitKnown(n) ELSE n
    [] in.kind = "assoc" /\ SameMaster(s, in.src) -> Run(NegociateMtu(s, in.mtu), in.ttl)
    [] in.kind = "request" /\ in.res \in Observables -> Observed(s, in)
    [] OTHER -> s

AnswerTo(s, in) ==
  CASE in.kind = "assoc" /\ SameMaster(s, in.src) -> {AssocAnswer(in.src)}
    [] in.kind = "request"   -> {Reply(s, in.token)}
    [] in.kind = "truncated" -> {TooLarge(s)}
    [] OTHER                 -> {}

\* The three tests that end a call in RUNNING and RENEW, each followed by what it
\* leads to and by a Discover.
RenewTime(s)  == s.status = "RUNNING" /\ Due(s.trenew)
RepeatTime(s) == s.status = "RENEW" /\ Due(s.trenew)

\* Mutant of TtlOver: it is looked at in RUNNING only, which the slave has left.
TtlOverRunning(s) == s.status = "RUNNING" /\ Expired(s.trenew)

TtlOver(s) == s.status = "RENEW" /\ Expired(s.trenew)

EnterRenew(s) ==
  IF RenewTime(s) THEN [s EXCEPT !.status = "RENEW", !.trenew = TrenewNext(@)] ELSE s

RepeatRenew(s) == IF RepeatTime(s) THEN [s EXCEPT !.trenew = TrenewNext(@)] ELSE s

\* Mutant of GiveUp: the slave waits for the master it has just forgotten.
GiveUpKnown(s) == IF TtlOver(s) THEN WaitKnown(ResetMaster(s)) ELSE s

GiveUp(s) == IF TtlOver(s) THEN WaitUnknown(ResetMaster(s)) ELSE s

\* send_discover, to the master of t if there is one
Discover(test, t) == IF test THEN << t.master >> ELSE << >>

---------------------------------------------------------------------------
(* One call of loop() *)

\* sync_time
Synced(d) ==
  [slave EXCEPT !.twait  = IF slave.status \in Unassociated THEN Elapse(@, d) ELSE @,
                !.trenew = IF slave.status \in Associated THEN Elapse(@, d) ELSE @]

LoopColdStart(d, in) ==
  /\ slave.status = "COLDSTART"
  /\ slave' = WaitUnknown(slave)
  /\ out' = Sent({}, {}, << slave.master >>)

\* Hello and Assoc in the two waiting states.
WaitingReceive(s, in) ==
  \/ /\ in.kind = "assoc"
     /\ slave' = Associate(s, in)
     /\ out' = Sent({AssocAnswer(in.src)}, {}, << >>)
  \/ /\ in.kind = "hello"
     /\ s.status = "WAITING_UNKNOWN"
     /\ slave' = WaitKnown(ChangeMaster(s, in.src, in.hlid))
     /\ out' = Quiet

\* Mutant of WaitingTimer: the first Discover of a state is not repeated.
WaitingTimerSilent(s) ==
  \/ /\ s.status = "WAITING_KNOWN"
     /\ Expired(s.twait)
     /\ slave' = WaitUnknown(ResetMaster(s))
     /\ out' = Sent({}, {}, << Nobody >>)
  \/ /\ ~ (s.status = "WAITING_KNOWN" /\ Expired(s.twait))
     /\ slave' = IF Due(s.twait) THEN [s EXCEPT !.twait = TwaitNext(@)] ELSE s
     /\ out' = Quiet

\* The timer in the two waiting states, for a slave still there; only
\* WAITING_KNOWN looks at the limit.
WaitingTimer(s) ==
  \/ /\ s.status = "WAITING_KNOWN"
     /\ Expired(s.twait)
     /\ slave' = WaitUnknown(ResetMaster(s))
     /\ out' = Sent({}, {}, << Nobody >>)
  \/ /\ ~ (s.status = "WAITING_KNOWN" /\ Expired(s.twait))
     /\ Due(s.twait)
     /\ slave' = [s EXCEPT !.twait = TwaitNext(@)]
     /\ out' = Sent({}, {}, << s.master >>)
  \/ /\ ~ (s.status = "WAITING_KNOWN" /\ Expired(s.twait))
     /\ ~ Due(s.twait)
     /\ slave' = s
     /\ out' = Quiet

LoopWaitingUnknown(d, in) ==
  /\ slave.status = "WAITING_UNKNOWN"
  /\ \/ WaitingReceive(Synced(d), in)
     \/ in.kind \notin {"assoc", "hello"} /\ WaitingTimer(Synced(d))

\* Mutant of LoopWaitingKnown: each Hello starts the timer again.
LoopWaitingRestarted(d, in) ==
  /\ slave.status = "WAITING_KNOWN"
  /\ \/ WaitingReceive(Synced(d), in)
     \/ in.kind = "hello" /\ WaitingTimer(WaitKnown(ChangeMaster(Synced(d), in.src, in.hlid)))
     \/ in.kind \notin {"assoc", "hello"} /\ WaitingTimer(Synced(d))

\* A Hello changes the master at once and leaves the timer running.
LoopWaitingKnown(d, in) ==
  /\ slave.status = "WAITING_KNOWN"
  /\ \/ WaitingReceive(Synced(d), in)
     \/ in.kind = "hello" /\ WaitingTimer(ChangeMaster(Synced(d), in.src, in.hlid))
     \/ in.kind \notin {"assoc", "hello"} /\ WaitingTimer(Synced(d))

LoopAssociated(d, in) ==
  /\ slave.status \in Associated
  /\ LET s0 == Synced(d)
         s1 == Receive(s0, in)
     IN \/ s1.crashed /\ slave' = s1 /\ out' = Quiet
        \/ /\ ~ s1.crashed
           /\ \E trig \in SUBSET Triggerable(s1) :
                LET s2 == NextSerials(s1, trig)
                    s3 == EnterRenew(s2)
                    s4 == RepeatRenew(s3)
                    s5 == GiveUp(s4)
                IN /\ slave' = s5
                   /\ out' = Sent(AnswerTo(s0, in), {Notify(s2, r) : r \in trig},
                                  Discover(RenewTime(s2), s3) \o Discover(RepeatTime(s3), s4)
                                    \o Discover(TtlOver(s4), s5))

Loop(d, in) ==
  /\ ~ slave.crashed
  /\ \/ LoopColdStart(d, in)
     \/ LoopWaitingUnknown(d, in)
     \/ LoopWaitingKnown(d, in)
     \/ LoopAssociated(d, in)

ColdSlave ==
  [status |-> "COLDSTART", master |-> Nobody, hlid |-> UnknownHello, curmtu |-> DefMtu,
   twait |-> Idle, trenew |-> Idle, obs |-> [r \in Observables |-> NeverObserved],
   crashed |-> FALSE]

Init ==
  /\ slave = ColdSlave
  /\ out = Quiet

\* The call of a null handler is the end of what the source defines.
Crashed == slave.crashed /\ UNCHANGED vars

Next ==
  \/ \E d \in 0..MaxGap, in \in Input : Loop(d, in)
  \/ Crashed

Spec == Init /\ [][Next]_vars

\* The application calls loop() for ever, and time passes between the calls.
FairSpec == Spec /\ WF_vars(\E d \in 1..MaxGap, in \in Input : Loop(d, in))

---------------------------------------------------------------------------
(* What the slave promises *)

Timer == [limit : Nat, inc : Nat, next : Int]

SlaveType ==
  [status : Statuses, master : Masters \cup {Nobody},
   hlid : HelloIds \cup {UnknownHello}, curmtu : 1..DefMtu, twait : Timer, trenew : Timer,
   obs : [Observables -> [on : BOOLEAN, token : Tokens, serial : Nat]],
   crashed : BOOLEAN]

\* Type invariant.
TypeOK ==
  /\ slave \in SlaveType
  /\ out.discovers \in Seq(Masters \cup {Nobody})

\* loop() dereferences master_ without a test wherever it answers a request,
\* reports a truncated one or notifies an observer: in the states where it does
\* so, and in WAITING_KNOWN which those states can fall back to in the middle
\* of a call, there is a master, and nothing is ever sent to none.
AddresseeKnown ==
  /\ slave.status \in Associated \cup {"WAITING_KNOWN"} => slave.master # Nobody
  /\ \A m \in out.answers \cup out.notices : m.dst # Nobody

\* Whenever a call of loop() ends with the slave associated, the TTL granted by
\* the last accepted Assoc has not run out, however late that call was; and a
\* slave that waits for a known master has not waited longer than TIMER_WAIT_MAX.
LeaseHeld ==
  ~ slave.crashed =>
    /\ slave.status \in Associated => slave.trenew.limit > 0
    /\ slave.status = "RUNNING" => slave.trenew.next \in 1..slave.trenew.limit
    /\ slave.status = "WAITING_KNOWN" => slave.twait.limit > 0

\* The timers of the state the slave is in have been initialised on the way to
\* it: an increment of zero would make every call due.
TimerRunning ==
  /\ slave.status \in Associated => slave.trenew.inc > 0
  /\ slave.status \in Unassociated => slave.twait.inc > 0

\* When loop() is called at least every TIMER_RENEW_MIN, a call never sends the
\* same Discover twice; it may send one to the master it is losing and one to
\* everybody.
NoDiscoverBurst ==
  MaxGap <= RenewMin =>
    \A i, j \in DOMAIN out.discovers : out.discovers[i] = out.discovers[j] => i = j

\* A slave that is not associated is always looking for a master, whatever
\* Hellos it hears: Discovers never stop, and those sent to one master only,
\* which may be gone, give way to broadcast ones.  (A call of the null handler, which
\* DeregMayBeNull is about, puts an end to this.)
KeepsLooking ==
  /\ []<>(slave.status \in Associated \/ out.discovers # << >> \/ slave.crashed)
  /\ slave.status = "WAITING_KNOWN" ~>
       (slave.status \in Associated \/ out.discovers = << Nobody >>)

\* A slave stays associated for ever only if the master keeps on renewing the
\* association: Hellos and requests do not.
LeaseNeedsAssoc ==
  <>[](slave.status \in Associated /\ ~ slave.crashed) =>
    []<>(\E m \in out.answers : m.kind = "assoc_answer")

\* resource.cpp:63: "the handler for deregistering the observation (may be null)".
\* observed() calls it all the same when the observation ends.
DeregMayBeNull == ~ slave.crashed

\* The lease the slave holds, as the abstract specification Lease sees it.
Holding == slave.status \in Associated /\ ~ slave.crashed

Granted ==
  INSTANCE Lease WITH Holders <- Masters, None <- Nobody, Terms <- Ttls,
    holder <- IF Holding THEN slave.master ELSE Nobody,
    left <- IF Holding THEN slave.trenew.limit ELSE 0

\* With one master on the network, which is all the class says it supports, an
\* association is a lease: it begins with a grant, it ends at the latest when
\* its term has elapsed since the last grant, and it changes hands only by ending.
AssociationIsLease == Granted!Spec
===========================================================================
