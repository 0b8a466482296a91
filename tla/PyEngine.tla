------------------------------ MODULE PyEngine ------------------------------
(***************************************************************************)
(* The engine of the Python master (py-master): one asyncio loop runs the  *)
(* callbacks of the engine (periodic Hello, frames received, ends of       *)
(* associations) and the coroutines of the HTTP server.  Nothing preempts  *)
(* a callback, nor a coroutine between two of its awaits: these are the    *)
(* actions.  The only await of the engine is in Msg.send_request, between  *)
(* the expiry of its timer and the moment it runs again.                   *)
(*                                                                         *)
(* A date is kept as what is left until it.  A message is a slot, which    *)
(* stands for its message id.  Once no coroutine waits for a message, its  *)
(* slot may be taken by a new one: the answers to the previous one are     *)
(* lost, and then its place in the list of the network makes no            *)
(* difference.                                                             *)
(*                                                                         *)
(* Left out: the MTU of the slaves, several networks, the cache, the list  *)
(* of received messages (which only finds duplicates of requests, and no   *)
(* slave sends requests), and the tokens of the observations.              *)
(***************************************************************************)
EXTENDS Integers, FiniteSets

CONSTANTS
  Slaves,         \* the configured slaves, which are their ids
  Observed,       \* those of which an HTTP client observes a resource
  Addrs,          \* L2 addresses
  Roaming,        \* bound: the slaves whose Discovers come from any address
  Home,           \* bound: the address that those of the others come from
  Slots,          \* messages sent, of which one remembers something
  None,           \* None
  Ttl,            \* Slave.ttl
  HelloInterval,  \* timers ['hello']
  AckTimeout,     \* the first timeout of a request
  MaxRetransmit,  \* MAX_RETRANSMIT
  Lifetime,       \* Msg._exchange_lifetime
  MaxSerial,      \* bound: values of the option Observe
  SendFails       \* the send method of the network may return False

ASSUME PyAssumption ==
  /\ {Ttl, HelloInterval, AckTimeout, MaxRetransmit, Lifetime} \subseteq Nat \ {0}
  /\ MaxSerial \in Nat
  /\ Observed \subseteq Slaves
  /\ Home \in Addrs
  /\ None \notin Slaves \cup Addrs
  /\ SendFails \in BOOLEAN

VARIABLES
  slaves,     \* Engine._slaves
  timers,     \* for each slave, the calls of _slave_timeout that are scheduled
  observers,  \* for each slave, its observer of one resource
  msgs,       \* the messages sent; l2n.sentlist holds those listed
  hello       \* what is left until the next call of _send_hello

vars == <<slaves, timers, observers, msgs, hello>>

---------------------------------------------------------------------------
(* Slaves *)

\* Slave.reset.  The address and the network are None together.  res tells whether
\* the list of resources has the one that clients are interested in, and whether
\* it is a list that could be read or what was read of one that could not.
Reset == [status |-> "INACTIVE", addr |-> None, left |-> 0, res |-> "none"]

\* Slave.find_resource
Found(s) == slaves[s].res # "none"

\* Slave.reset_discover: the address is only set if it was None.
ResetDiscover(s, a) == [s EXCEPT !.addr = IF @ = None THEN a ELSE @]

\* Mutant of FindPeer: the id in a Discover counts first.
FindPeerById(a, ids) ==
  IF ids # {} THEN ids ELSE {s \in Slaves : slaves[s].addr = a}

\* Engine._find_peer, for a frame from a; ids: the slave a Discover names, if the
\* frame is one.  At most one slave, and none if the frame is to be ignored.
FindPeer(a, ids) ==
  LET known == {s \in Slaves : slaves[s].addr = a}
  IN  IF known # {} THEN known ELSE ids

---------------------------------------------------------------------------
(* Messages.  Where one is sent is not kept: _correlate compares ids only.    *)
(* kind: "assoc", or "request" for the GET of an observer too.  phase:        *)
(* "unused", "posted" when nobody waits for an answer, "waiting" for a        *)
(* coroutine in its wait, "late" when its timer is over and it has not run    *)
(* since.  answers: those linked by req_rep.  extra: the frames sent after    *)
(* the answer.                                                                *)

NoMsg == [kind |-> "none", phase |-> "unused", listed |-> FALSE, expire |-> 0,
          answers |-> 0, ntrans |-> 0, timeout |-> 0, left |-> 0, sent |-> 0, extra |-> 0]

Answered(m) == m.answers > 0

\* Bound: frames of a message are counted up to one more than there should be.
SentBound == MaxRetransmit + 3

Awaited(m) == m.phase \in {"waiting", "late"}
Free == {i \in Slots : ~ Awaited(msgs[i])}

\* Whether a call of the send method of the network succeeds.
Outcomes == IF SendFails THEN BOOLEAN ELSE {TRUE}

\* Msg.send: only a success puts the message in sentlist, and refreshes its date.
Send(m, ok) ==
  IF ok THEN [m EXCEPT !.listed = TRUE, !.expire = Lifetime,
                       !.sent = IF @ < SentBound THEN @ + 1 ELSE @,
                       !.extra = IF Answered(m) THEN @ + 1 ELSE @]
        ELSE m

\* What is left of a message: nothing, once no list has it and no coroutine awaits it.
Remains(m) == IF m.listed \/ Awaited(m) THEN m ELSE NoMsg

\* A CON message that is sent once, without a coroutine to wait for its answer.
Post(kind, ok) == Remains(Send([NoMsg EXCEPT !.kind = kind, !.phase = "posted"], ok))

\* Msg.got_reply
GotReply(m) == [m EXCEPT !.answers = @ + 1, !.ntrans = MaxRetransmit]

---------------------------------------------------------------------------
(* Observers: known, the observer exists; asked, a GET for it was put on the   *)
(* network since the slave was last INACTIVE.                                 *)

NoObserver == [known |-> FALSE, status |-> "INACTIVE", last |-> 0, asked |-> FALSE]

\* Observer.start.  ok: the GET is sent.  Nobody looks whether it is, nor repeats it.
Started(o, ok) == [o EXCEPT !.status = "INACTIVE", !.asked = @ \/ ok]

\* Slave.recv_observe and Observer.set_value
SetValue(o, serial) ==
  IF o.known /\ (o.status = "INACTIVE" \/ serial > o.last)
  THEN [o EXCEPT !.status = "ACTIVE", !.last = serial]
  ELSE o

---------------------------------------------------------------------------
(* Callbacks of the loop *)

\* The filter of _send_hello: m.expire < now
Kept(m) == m.listed /\ m.expire < 0

\* Engine._send_hello.  The Hello itself is in the list too, but has no answer.
SendHello ==
  /\ hello = 0
  /\ hello' = HelloInterval
  /\ msgs' = [i \in Slots |-> Remains([msgs[i] EXCEPT !.listed = Kept(msgs[i])])]
  /\ UNCHANGED <<slaves, timers, observers>>

\* Slave._slave_timeout: a call scheduled by an association that was renewed
\* since does nothing.
SlaveTimeout(s) ==
  /\ 0 \in timers[s]
  /\ timers' = [timers EXCEPT ![s] = @ \ {0}]
  /\ IF slaves[s].status = "RUNNING" /\ slaves[s].left <= 0
     THEN /\ slaves' = [slaves EXCEPT ![s] = Reset]
          /\ observers' = [observers EXCEPT ![s].asked = FALSE]
     ELSE UNCHANGED <<slaves, observers>>
  /\ UNCHANGED <<msgs, hello>>

---------------------------------------------------------------------------
(* Engine._l2reader *)

DiscoverAddrs(sid) == IF sid \in Roaming THEN Addrs ELSE {Home}

\* A Discover of slave sid from address a: an Assoc is sent to this address.
ReceiveDiscover(sid, a) ==
  \E s \in FindPeer(a, {sid}), i \in Free, ok \in Outcomes :
    /\ slaves' = [slaves EXCEPT ![s] = ResetDiscover(@, a)]
    /\ msgs' = [msgs EXCEPT ![i] = Post("assoc", ok)]
    /\ UNCHANGED <<timers, observers, hello>>

\* Slave.process_casan for an Assoc Answer.  parse_resource_list forgets the
\* previous resources, then keeps those it reads before what it cannot read.
Associated(s, a, found) ==
  [status |-> "RUNNING", addr |-> a, left |-> Ttl, res |-> IF found THEN "full" ELSE "none"]
Unparsable(s, found) == [s EXCEPT !.res = IF found THEN "partial" ELSE "none"]

\* Mutants of Scheduled: a single timer, which a renewal does not start again; a
\* timer of more than the TTL.
ScheduledOnce(due) == IF due = {} THEN {Ttl} ELSE due
ScheduledLate(due) == due \cup {Ttl + 1}

\* loop.call_later (self.ttl, self._slave_timeout)
Scheduled(due) == due \cup {Ttl}

\* Mutant of StartAll: the slave is looked at before it is RUNNING.
StartAllBefore(s, i, found) ==
  IF observers[s].known /\ found /\ slaves[s].status = "RUNNING"
  THEN \E j \in Free \ {i}, ok \in Outcomes :
         /\ observers' = [observers EXCEPT ![s] = Started(@, ok)]
         /\ msgs' = [msgs EXCEPT ![i] = GotReply(@), ![j] = Post("request", ok)]
  ELSE /\ msgs' = [msgs EXCEPT ![i] = GotReply(@)]
       /\ UNCHANGED observers

\* The answer to message i is linked, and Slave.start_all_observers sends the GET
\* of the observer to the address of the slave if the resource is there.
StartAll(s, i, found) ==
  IF observers[s].known /\ found
  THEN \E j \in Free \ {i}, ok \in Outcomes :
         /\ observers' = [observers EXCEPT ![s] = Started(@, ok)]
         /\ msgs' = [msgs EXCEPT ![i] = GotReply(@), ![j] = Post("request", ok)]
  ELSE /\ msgs' = [msgs EXCEPT ![i] = GotReply(@)]
       /\ UNCHANGED observers

\* Bound: a slave that nobody observes always has the resource.
Lists(s) == IF s \in Observed THEN BOOLEAN ELSE {TRUE}

ReceiveAssocAnswer(i, s, a, found) ==
  /\ msgs[i].kind = "assoc"
  /\ \/ /\ slaves' = [slaves EXCEPT ![s] = Associated(@, a, found)]
        /\ timers' = [timers EXCEPT ![s] = Scheduled(@)]
        /\ StartAll(s, i, found)
     \/ /\ slaves' = [slaves EXCEPT ![s] = Unparsable(@, found)]
        /\ msgs' = [msgs EXCEPT ![i] = GotReply(@)]
        /\ UNCHANGED <<timers, observers>>
  /\ UNCHANGED hello

\* The answer to a request, or to the GET of an observer.  It may have a value of the
\* observer, whatever it answers.
ReceiveReply(i, s) ==
  /\ msgs[i].kind = "request"
  /\ msgs' = [msgs EXCEPT ![i] = GotReply(@)]
  /\ \/ UNCHANGED observers
     \/ \E serial \in 0..MaxSerial : observers' = [observers EXCEPT ![s] = SetValue(@, serial)]
  /\ UNCHANGED <<slaves, timers, hello>>

\* _correlate, and the test of req_rep.
Answerable(i) == msgs[i].listed /\ ~ Answered(msgs[i])

\* An ACK with the id of message i, which need not come from where it was sent: the
\* ids are compared, and the slave is the one that has address a.
ReceiveAnswer(i, a) ==
  /\ Answerable(i)
  /\ \E s \in FindPeer(a, {}) :
       \/ \E found \in Lists(s) : ReceiveAssocAnswer(i, s, a, found)
       \/ ReceiveReply(i, s)

\* A notification, or an ACK with a value that _correlate does not find.
ReceiveNotification(a) ==
  \E s \in FindPeer(a, {}), serial \in 0..MaxSerial :
    /\ observers' = [observers EXCEPT ![s] = SetValue(@, serial)]
    /\ UNCHANGED <<slaves, timers, msgs, hello>>

---------------------------------------------------------------------------
(* Coroutines of the HTTP server *)

\* Master.handle_casan up to its await: the beginning of Msg.send_request, for a
\* request that the cache does not answer.
HandleCasan(s) ==
  /\ slaves[s].status = "RUNNING" /\ Found(s)
  /\ \E i \in Free, ok \in Outcomes :
       msgs' = [msgs EXCEPT ![i] =
         Send([NoMsg EXCEPT !.kind = "request", !.phase = "waiting",
                            !.timeout = AckTimeout, !.left = AckTimeout], ok)]
  /\ UNCHANGED <<slaves, timers, observers, hello>>

\* Mutant of TimerFires: the only messages with a timer are those of the list.
TimerFiresListed(i) ==
  /\ msgs[i].phase = "waiting" /\ msgs[i].left = 0 /\ msgs[i].listed
  /\ msgs' = [msgs EXCEPT ![i].phase = "late"]
  /\ UNCHANGED <<slaves, timers, observers, hello>>

\* asyncio.wait_for: the timer is over.  The coroutine will run for this reason
\* even if the answer comes before it does.
TimerFires(i) ==
  /\ msgs[i].phase = "waiting" /\ msgs[i].left = 0
  /\ msgs' = [msgs EXCEPT ![i].phase = "late"]
  /\ UNCHANGED <<slaves, timers, observers, hello>>

\* Mutant of NextTimeout: the counter is compared too late.
NextTimeoutOnceMore(m) ==
  IF m.ntrans <= MaxRetransmit
  THEN [m EXCEPT !.phase = "waiting", !.ntrans = @ + 1,
                 !.timeout = 2 * @, !.left = 2 * m.timeout]
  ELSE [m EXCEPT !.phase = "posted", !.timeout = 0]

\* Msg._next_timeout, and the condition of the loop of send_request.
NextTimeout(m) ==
  IF m.ntrans < MaxRetransmit
  THEN [m EXCEPT !.phase = "waiting", !.ntrans = @ + 1,
                 !.timeout = 2 * @, !.left = 2 * m.timeout]
  ELSE [m EXCEPT !.phase = "posted", !.timeout = 0]

\* asyncio.TimeoutError: the message is sent again, then the time of the next
\* transmission is looked for.
Retransmit(i) ==
  /\ msgs[i].phase = "late"
  /\ \E ok \in Outcomes : msgs' = [msgs EXCEPT ![i] = Remains(NextTimeout(Send(@, ok)))]
  /\ UNCHANGED <<slaves, timers, observers, hello>>

\* The event is set: send_request and handle_casan return.
Return(i) ==
  /\ msgs[i].phase = "waiting" /\ Answered(msgs[i])
  /\ msgs' = [msgs EXCEPT ![i] =
       Remains([@ EXCEPT !.phase = "posted", !.timeout = 0, !.left = 0])]
  /\ UNCHANGED <<slaves, timers, observers, hello>>

\* Master.handle_observe: POST (Slave.add_observer) and DELETE.  The slave is not
\* told that the observation ends.
AddObserver(s) ==
  /\ ~ observers[s].known
  /\ IF slaves[s].status = "RUNNING" /\ Found(s)
     THEN \E i \in Free, ok \in Outcomes :
            /\ observers' = [observers EXCEPT ![s] = Started([NoObserver EXCEPT !.known = TRUE], ok)]
            /\ msgs' = [msgs EXCEPT ![i] = Post("request", ok)]
     ELSE /\ observers' = [observers EXCEPT ![s] = [NoObserver EXCEPT !.known = TRUE]]
          /\ UNCHANGED msgs
  /\ UNCHANGED <<slaves, timers, hello>>

DelObserver(s) ==
  /\ observers[s].known
  /\ observers' = [observers EXCEPT ![s] = NoObserver]
  /\ UNCHANGED <<slaves, timers, msgs, hello>>

---------------------------------------------------------------------------

\* What the loop has to run at this date.
Busy ==
  \/ hello = 0
  \/ \E s \in Slaves : 0 \in timers[s]
  \/ \E i \in Slots : Awaited(msgs[i]) /\ (msgs[i].left = 0 \/ Answered(msgs[i]))

AtLeast(n, low) == IF n > low THEN n ELSE low

Tick ==
  /\ ~ Busy
  /\ hello' = hello - 1
  /\ timers' = [s \in Slaves |-> {t - 1 : t \in timers[s]}]
  /\ slaves' = [s \in Slaves |-> [slaves[s] EXCEPT !.left = AtLeast(@ - 1, -1)]]
  /\ msgs' = [i \in Slots |-> [msgs[i] EXCEPT !.left = AtLeast(@ - 1, 0),
                                              !.expire = IF msgs[i].listed THEN AtLeast(@ - 1, -1) ELSE 0]]
  /\ UNCHANGED observers

Init ==
  /\ slaves = [s \in Slaves |-> Reset]
  /\ timers = [s \in Slaves |-> {}]
  /\ observers = [s \in Slaves |-> NoObserver]
  /\ msgs = [i \in Slots |-> NoMsg]
  /\ hello \in 1..HelloInterval

Coroutine(i) == TimerFires(i) \/ Retransmit(i) \/ Return(i)

Callback == SendHello \/ \E s \in Slaves : SlaveTimeout(s)

Network ==
  \/ \E s \in Slaves : \E a \in DiscoverAddrs(s) : ReceiveDiscover(s, a)
  \/ \E i \in Slots, a \in Addrs : ReceiveAnswer(i, a)
  \/ \E a \in Addrs : ReceiveNotification(a)

Clients ==
  \/ \E s \in Slaves : HandleCasan(s)
  \/ \E s \in Observed : AddObserver(s) \/ DelObserver(s)

Next == Network \/ Clients \/ Callback \/ (\E i \in Slots : Coroutine(i)) \/ Tick

Spec == Init /\ [][Next]_vars

\* The loop runs every callback and every coroutine that is ready; time passes,
\* since there is a finite amount of work at each date.  Nothing is assumed of
\* the network and of HTTP clients.
FairSpec ==
  /\ Spec
  /\ WF_vars(Callback)
  /\ \A i \in Slots : WF_vars(Coroutine(i))
  /\ SF_vars(Tick)

---------------------------------------------------------------------------
(* What the engine promises *)

SlaveType ==
  [status : {"INACTIVE", "RUNNING"}, addr : Addrs \cup {None}, left : Int,
   res : {"none", "partial", "full"}]

MsgType ==
  [kind : {"none", "assoc", "request"},
   phase : {"unused", "posted", "waiting", "late"}, listed : BOOLEAN, expire : Int,
   answers : Nat, ntrans : Nat, timeout : Nat, left : Nat, sent : Nat, extra : Nat]

\* Type invariant.
TypeOK ==
  /\ slaves \in [Slaves -> SlaveType]
  /\ timers \in [Slaves -> SUBSET (0..Ttl)]
  /\ observers \in [Slaves -> [known : BOOLEAN, status : {"INACTIVE", "ACTIVE"},
                               last : Nat, asked : BOOLEAN]]
  /\ msgs \in [Slots -> MsgType]
  /\ hello \in 0..HelloInterval

\* A RUNNING slave is reset in time: among the calls that its associations have
\* scheduled and that nobody cancels, one is for the date of the last of them.
\* And it can be reached: a request to a slave without an address raises.
RunningIsTimed ==
  \A s \in Slaves : slaves[s].status = "RUNNING" =>
    /\ slaves[s].left \in timers[s]
    /\ slaves[s].addr # None

\* A frame is attributed to one slave: whatever ids Discovers carry, no two
\* slaves have the same address.
AddressesDistinct ==
  \A s, r \in Slaves : s # r /\ slaves[s].addr = slaves[r].addr => slaves[s].addr = None

\* When the answer and a timer of a request meet, the request is sent once more at
\* most; and without an answer it is sent MAX_RETRANSMIT + 2 times at most.
StopsAfterAnswer ==
  \A i \in Slots : msgs[i].extra <= 1 /\ msgs[i].sent <= MaxRetransmit + 2

\* Observations follow associations: if sending never fails, a GET for an observer of a
\* resource that a slave has announced, in a list that was read to its end, was put on
\* the network since this slave came up, whether the observer was added before, or
\* while it was down, or between two renewals.  The slave may not have received it.
ObserversAsked ==
  ~ SendFails =>
    \A s \in Slaves :
      slaves[s].status = "RUNNING" /\ slaves[s].res = "full" /\ observers[s].known =>
        observers[s].asked

\* Every HTTP request ends, with an answer or without.
RequestEnds == \A i \in Slots : Awaited(msgs[i]) ~> ~ Awaited(msgs[i])
===========================================================================
