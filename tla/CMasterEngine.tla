--------------------------- MODULE CMasterEngine ---------------------------
(***************************************************************************)
(* The engine of the C++ master (c-master/casan): its sender thread, the   *)
(* receiver thread of one L2 network, and the threads of the HTTP server   *)
(* that forward requests to slaves (master::http_casan).  They share the   *)
(* list of slaves and the list of outgoing messages, which the mutex of    *)
(* the engine protects in some places only: an action is a section of code *)
(* that no other thread observes half-done, so a handler that works        *)
(* outside of the mutex is several actions.                                *)
(*                                                                         *)
(* Dates are kept as what is left until them, and Tick lets time pass for  *)
(* all of them.  A date that is only compared with `now' stops once it is  *)
(* over.  Message ids are the slots of the messages: a slot is given to a  *)
(* new message once the previous one is out of the list and nobody refers  *)
(* to it, and an answer to a message that is gone is not modelled, since   *)
(* ids are not reused before 65535 others.                                 *)
(***************************************************************************)
EXTENDS Integers, FiniteSets, FiniteSetsExt

CONSTANTS
  Slaves,         \* the configured slaves, which are their ids
  Addrs,          \* L2 addresses
  Slots,          \* outgoing messages that may exist at a time
  Threads,        \* threads of the HTTP server
  None,           \* a null pointer
  Ttl,            \* init_ttl_ of the slaves
  HelloInterval,  \* interval_hello_
  FirstHello,     \* first_hello_
  FirstTimeouts,  \* values of the first timeout of a confirmable message
  MaxRetransmit,  \* MAX_RETRANSMIT
  Lifetime,       \* EXCHANGE_LIFETIME of the network
  SendFails,      \* the send method of the network may return -1
  Punctual        \* the work of the threads of the engine takes no time

ASSUME EngineAssumption ==
  /\ {Ttl, HelloInterval, FirstHello, MaxRetransmit, Lifetime} \subseteq Nat \ {0}
  /\ FirstTimeouts \subseteq Nat \ {0} /\ FirstTimeouts # {}
  /\ IsFiniteSet(Slaves) /\ IsFiniteSet(Slots)
  /\ None \notin Slaves \cup Addrs \cup Slots \cup Threads
  /\ {SendFails, Punctual} \subseteq BOOLEAN

VARIABLES
  slaves,    \* slist_
  msgs,      \* the messages made so far, of which mlist_ holds those listed
  hello,     \* what is left until next_hello
  sender,    \* the sender thread
  receiver,  \* the receiver thread
  threads,   \* the HTTP threads
  crash      \* what ended the process, if something did

vars == <<slaves, msgs, hello, sender, receiver, threads, crash>>

Alive == crash = "none"

NonNeg(n) == IF n > 0 THEN n ELSE 0
AtLeast(n, low) == IF n > low THEN n ELSE low

---------------------------------------------------------------------------
(* Slaves and messages *)

Inactive == [status |-> "INACTIVE", addr |-> None, left |-> 0]

\* Mutant of Reset: the status of slave.h:33 that no other code knows.
ResetAssociating(s) == [Inactive EXCEPT !.status = "ASSOCIATING"]

\* slave::reset.  addr_ and l2_ are null together, so addr stands for both.
Reset(s) == Inactive

\* slave::process_casan, for an answer to an Assoc with its list of resources
Associated(s) == [s EXCEPT !.status = "RUNNING", !.left = Ttl]

Lapsed(s) == s.status = "RUNNING" /\ s.left <= 0

\* kind: "none" when the slot is unused; answers: number of times an answer was
\* linked to the message; sent: number of its frames put on the network
NoMsg == [kind |-> "none", peer |-> None, listed |-> FALSE, ntrans |-> 0, timeout |-> 0,
          next |-> 0, expire |-> 0, answers |-> 0, waiter |-> None, sent |-> 0]

NewMsg(kind, peer) == [NoMsg EXCEPT !.kind = kind, !.peer = peer]

\* A message with ntrans = 0 has never been sent, and its dates are infinite.
Unsent(m) == m.ntrans = 0

\* Mutants of Pending and Expired: one transmission too many; a lifetime that
\* ends at its last date; an answered message that is kept.
PendingOnceMore(m) == 0 < m.ntrans /\ m.ntrans <= MaxRetransmit
ExpiredEarly(m) == ~ Unsent(m) /\ m.expire <= 0
ExpiredUnanswered(m) == ~ Unsent(m) /\ m.expire < 0 /\ m.answers = 0

Pending(m) == 0 < m.ntrans /\ m.ntrans < MaxRetransmit
ToSend(m) == m.listed /\ (Unsent(m) \/ (Pending(m) /\ m.next <= 0))
Expired(m) == ~ Unsent(m) /\ m.expire < 0

\* msg::send, once the frame is on the network, for a confirmable message.
\* The counter is incremented out of the reach of the receiver's mutex: n is
\* its value when it was read.
Counted(m, n, first) ==
  LET timeout == IF Unsent(m) THEN first ELSE 2 * m.timeout
  IN  [m EXCEPT !.ntrans = n + 1, !.timeout = timeout, !.next = timeout,
                !.expire = IF Unsent(m) THEN Lifetime ELSE @]

\* msg::link_reqrep and msg::stop_retransmit
Answered(m) == [m EXCEPT !.answers = @ + 1, !.ntrans = MaxRetransmit]

\* Out of the list, a message is destroyed unless a thread refers to it.
Delisted(m, referenced) ==
  IF referenced THEN [m EXCEPT !.listed = FALSE, !.next = 0, !.expire = 0] ELSE NoMsg

Listed == {i \in Slots : msgs[i].listed}

Referenced(i) == receiver.org = i \/ \E t \in Threads : threads[t].msg = i

\* Message ids are not reused while a frame that carries them is being received.
Free(i) == ~ msgs[i].listed /\ ~ Referenced(i) /\ receiver.id # i

---------------------------------------------------------------------------
(* The sender thread.  It holds the mutex all along but in its wait, of which *)
(* sender.wait is left: nothing once it has been notified.                    *)

SenderWaiting == sender.pc = "waiting"

\* Mutant of MutexFree: the list is changed and searched without the mutex.
NoMutex == TRUE

MutexFree == SenderWaiting

\* add_request
AddRequest(i, m) ==
  /\ MutexFree
  /\ msgs' = [msgs EXCEPT ![i] = [m EXCEPT !.listed = TRUE]]
  /\ sender' = [sender EXCEPT !.wait = 0]

\* The wait ends; Hellos are sent, and the slaves whose TTL is over are reset.
SenderWakes ==
  /\ Alive
  /\ SenderWaiting
  /\ sender.wait <= 0
  /\ hello' = IF hello <= 0 THEN HelloInterval ELSE hello
  /\ slaves' = [s \in Slaves |-> IF Lapsed(slaves[s]) THEN Reset(slaves[s]) ELSE slaves[s]]
  /\ sender' = [sender EXCEPT !.pc = "transmit", !.wait = 0, !.todo = Listed]
  /\ UNCHANGED <<msgs, receiver, threads, crash>>

\* A message of the list is put on the network, at the address of its peer.
SenderTransmits(i) ==
  /\ Alive
  /\ sender.pc = "transmit" /\ sender.sending = None
  /\ i \in sender.todo /\ ToSend(msgs[i])
  /\ \/ /\ slaves[msgs[i].peer].addr = None
        /\ crash' = "send"
        /\ UNCHANGED <<msgs, sender>>
     \/ /\ slaves[msgs[i].peer].addr # None
        /\ msgs' = [msgs EXCEPT ![i].sent = @ + 1]
        /\ sender' = [sender EXCEPT !.sending = i, !.count = msgs[i].ntrans]
        /\ UNCHANGED crash
     \/ /\ slaves[msgs[i].peer].addr # None
        /\ SendFails
        /\ sender' = [sender EXCEPT !.todo = @ \ {i}]
        /\ UNCHANGED <<msgs, crash>>
  /\ UNCHANGED <<slaves, hello, receiver, threads>>

\* The rest of msg::send.  A stop_retransmit since the counter was tested is
\* kept if the increment reads the counter after it, and lost otherwise.
SenderCounts ==
  /\ Alive
  /\ sender.pc = "transmit" /\ sender.sending # None
  /\ \E first \in FirstTimeouts, n \in {sender.count, msgs[sender.sending].ntrans} :
       msgs' = [msgs EXCEPT ![sender.sending] = Counted(@, n, first)]
  /\ sender' = [sender EXCEPT !.sending = None, !.count = 0, !.todo = @ \ {sender.sending}]
  /\ UNCHANGED <<slaves, hello, receiver, threads, crash>>

\* Mutant of NextDate: the TTL of the slaves is forgotten.
NextDateOfMessages(ms) ==
  Min({hello} \cup {ms[i].next : i \in {i \in Slots : ms[i].listed /\ Pending(ms[i])}})

\* The date of the next action, given the messages that remain
NextDate(ms) ==
  Min({hello} \cup {slaves[s].left : s \in {s \in Slaves : slaves[s].status = "RUNNING"}}
              \cup {ms[i].next : i \in {i \in Slots : ms[i].listed /\ Pending(ms[i])}})

\* The expired messages are removed, and the date of the next action is computed.
SenderPurges ==
  /\ Alive
  /\ sender.pc = "transmit" /\ sender.sending = None
  /\ \A i \in sender.todo : ~ ToSend(msgs[i])
  /\ msgs' = [i \in Slots |->
       IF msgs[i].listed /\ Expired(msgs[i]) THEN Delisted(msgs[i], Referenced(i)) ELSE msgs[i]]
  /\ sender' = [sender EXCEPT !.pc = "sleep", !.todo = {}, !.wait = NextDate(msgs')]
  /\ UNCHANGED <<slaves, hello, receiver, threads, crash>>

\* The delay until that date is computed with a new reading of the clock.
SenderSleeps ==
  /\ Alive
  /\ sender.pc = "sleep"
  /\ \/ /\ sender.wait < 0
        /\ crash' = "assert"
        /\ UNCHANGED sender
     \/ /\ sender.wait >= 0
        /\ sender' = [sender EXCEPT !.pc = "waiting"]
        /\ UNCHANGED crash
  /\ UNCHANGED <<slaves, msgs, hello, receiver, threads>>

Sender ==
  \/ SenderWakes
  \/ \E i \in Slots : SenderTransmits(i)
  \/ SenderCounts
  \/ SenderPurges
  \/ SenderSleeps

---------------------------------------------------------------------------
(* The receiver thread *)

ReceiverIdle == [pc |-> "recv", peer |-> None, frame |-> "none", id |-> None, org |-> None]

\* Mutant of ReceiveDiscover: the slave is searched by its id only.
ReceiveDiscoverById(a, sid) ==
  /\ Alive
  /\ receiver.pc = "recv"
  /\ slaves' = [slaves EXCEPT ![sid].addr = a]
  /\ receiver' = [ReceiverIdle EXCEPT !.pc = "process", !.peer = sid, !.frame = "discover"]
  /\ UNCHANGED <<msgs, hello, sender, threads, crash>>

\* find_peer for a Discover that announces the slave id sid: the frame is the
\* one of the slave known at this address, whatever sid says, or else sid's.
ReceiveDiscover(a, sid) ==
  /\ Alive
  /\ receiver.pc = "recv"
  /\ \/ /\ \E s \in Slaves :
             /\ slaves[s].addr = a
             /\ receiver' = [ReceiverIdle EXCEPT !.pc = "process", !.peer = s, !.frame = "discover"]
        /\ UNCHANGED slaves
     \/ /\ \A s \in Slaves : slaves[s].addr # a
        /\ slaves' = [slaves EXCEPT ![sid].addr = a]
        /\ receiver' = [ReceiverIdle EXCEPT !.pc = "process", !.peer = sid, !.frame = "discover"]
  /\ UNCHANGED <<msgs, hello, sender, threads, crash>>

\* find_peer for an ACK or RST to message i, which has been on the network: an
\* Assoc Answer if i is an Assoc, with a list of resources or with something else
ReceiveAnswer(a, i) ==
  /\ Alive
  /\ receiver.pc = "recv"
  /\ msgs[i].listed /\ msgs[i].sent > 0
  /\ \E s \in Slaves, f \in IF msgs[i].kind = "assoc" THEN {"resources", "garbage"} ELSE {"reply"} :
       /\ slaves[s].addr = a
       /\ receiver' = [ReceiverIdle EXCEPT !.pc = "correlate", !.peer = s, !.frame = f, !.id = i]
  /\ UNCHANGED <<slaves, msgs, hello, sender, threads, crash>>

\* correlate: the search is protected by the mutex, its result is not.
Correlate ==
  /\ Alive
  /\ receiver.pc = "correlate"
  /\ MutexFree
  /\ receiver' =
       IF msgs[receiver.id].listed
       THEN [receiver EXCEPT !.pc = "link", !.org = receiver.id, !.id = None]
       ELSE ReceiverIdle
  /\ UNCHANGED <<slaves, msgs, hello, sender, threads, crash>>

\* The first answer is linked, and a thread that waits for it will be woken up.
Link ==
  /\ Alive
  /\ receiver.pc = "link"
  /\ LET m == msgs[receiver.org]
     IN \/ /\ m.answers > 0
           /\ receiver' = ReceiverIdle
           /\ UNCHANGED msgs
        \/ /\ m.answers = 0
           /\ msgs' = [msgs EXCEPT ![receiver.org] = Answered(@)]
           /\ receiver' = [receiver EXCEPT !.pc = IF m.waiter # None THEN "wakeup" ELSE "process"]
  /\ UNCHANGED <<slaves, hello, sender, threads, crash>>

\* waiter::wakeup, on a second reading of the pointer to the waiter.
WakeUp ==
  /\ Alive
  /\ receiver.pc = "wakeup"
  /\ LET t == msgs[receiver.org].waiter
     IN \/ /\ t = None
           /\ crash' = "wakeup"
           /\ UNCHANGED <<receiver, threads>>
        \/ /\ t # None
           /\ threads' = [threads EXCEPT ![t].left = IF threads[t].pc = "waiting" THEN 0 ELSE @]
           /\ receiver' = ReceiverIdle
           /\ UNCHANGED crash
  /\ UNCHANGED <<slaves, msgs, hello, sender>>

\* process_casan: a Discover is answered by an Assoc, whose answer associates.
Process ==
  /\ Alive
  /\ receiver.pc = "process"
  /\ \/ /\ receiver.frame = "discover"
        /\ \E i \in Slots : Free(i) /\ AddRequest(i, NewMsg("assoc", receiver.peer))
        /\ UNCHANGED slaves
     \/ /\ receiver.frame = "resources"
        /\ slaves' = [slaves EXCEPT ![receiver.peer] = Associated(@)]
        /\ UNCHANGED <<msgs, sender>>
     \/ /\ receiver.frame \in {"garbage", "reply"}
        /\ UNCHANGED <<slaves, msgs, sender>>
  /\ receiver' = ReceiverIdle
  /\ UNCHANGED <<hello, threads, crash>>

Receiver == Correlate \/ Link \/ WakeUp \/ Process

Network == \E a \in Addrs :
  \/ \E sid \in Slaves : ReceiveDiscover(a, sid)
  \/ \E i \in Slots : ReceiveAnswer(a, i)

---------------------------------------------------------------------------
(* The HTTP threads, on a request for a resource that is not in the cache.   *)
(* left is what is left until the timeout of the request, which is also over *)
(* for a waiting thread that has been notified.                              *)

ThreadIdle == [pc |-> "idle", msg |-> None, left |-> 0]

\* parse_path and the making of the message
HttpRequest(t, s, i) ==
  /\ Alive
  /\ threads[t].pc = "idle"
  /\ slaves[s].status = "RUNNING"
  /\ Free(i)
  /\ msgs' = [msgs EXCEPT ![i] = NewMsg("request", s)]
  /\ threads' = [threads EXCEPT ![t] = [pc |-> "prepare", msg |-> i, left |-> 0]]
  /\ UNCHANGED <<slaves, hello, sender, receiver, crash>>

\* The waiter is attached, and the latency of the slave's network is read.
HttpPrepare(t) ==
  /\ Alive
  /\ threads[t].pc = "prepare"
  /\ \/ /\ slaves[msgs[threads[t].msg].peer].addr = None
        /\ crash' = "http"
        /\ UNCHANGED <<msgs, threads>>
     \/ /\ slaves[msgs[threads[t].msg].peer].addr # None
        /\ msgs' = [msgs EXCEPT ![threads[t].msg].waiter = t]
        /\ threads' = [threads EXCEPT ![t].pc = "submit", ![t].left = Lifetime]
        /\ UNCHANGED crash
  /\ UNCHANGED <<slaves, hello, sender, receiver>>

\* waiter::do_and_wait: the action, then the wait
HttpSubmit(t) ==
  /\ Alive
  /\ threads[t].pc = "submit"
  /\ AddRequest(threads[t].msg, msgs[threads[t].msg])
  /\ threads' = [threads EXCEPT ![t].pc = "submitted"]
  /\ UNCHANGED <<slaves, hello, receiver, crash>>

HttpWait(t) ==
  /\ Alive
  /\ threads[t].pc = "submitted"
  /\ threads' = [threads EXCEPT ![t].pc = "waiting"]
  /\ UNCHANGED <<slaves, msgs, hello, sender, receiver, crash>>

\* Mutant of HttpReturn: the thread waits for a reply, whatever the timeout.
HttpReturnWithReply(t) ==
  /\ Alive
  /\ threads[t].pc = "waiting"
  /\ msgs[threads[t].msg].answers > 0
  /\ msgs' = [msgs EXCEPT ![threads[t].msg].waiter = None]
  /\ threads' = [threads EXCEPT ![t] = ThreadIdle]
  /\ UNCHANGED <<slaves, hello, sender, receiver, crash>>

\* The wait ends; the waiter is detached, and the thread answers its client
\* with the reply linked to the message, if any.
HttpReturn(t) ==
  /\ Alive
  /\ threads[t].pc = "waiting"
  /\ threads[t].left <= 0
  /\ LET i == threads[t].msg
     IN msgs' = [msgs EXCEPT ![i] =
          IF msgs[i].listed \/ receiver.org = i THEN [@ EXCEPT !.waiter = None] ELSE NoMsg]
  /\ threads' = [threads EXCEPT ![t] = ThreadIdle]
  /\ UNCHANGED <<slaves, hello, sender, receiver, crash>>

HttpThread(t) == HttpPrepare(t) \/ HttpSubmit(t) \/ HttpWait(t) \/ HttpReturn(t)

Http == \E t \in Threads :
  \/ \E s \in Slaves, i \in Slots : HttpRequest(t, s, i)
  \/ HttpThread(t)

---------------------------------------------------------------------------
(* Time *)

\* Time passes when the threads that have something to do at this date have done
\* it.  If they are not punctual, the receiver may be anywhere, and the sender at
\* the end of an iteration.
SenderOnTime ==
  \/ SenderWaiting /\ sender.wait > 0
  \/ ~ Punctual /\ sender.pc = "sleep" /\ sender.wait >= 0

\* Waiting for a free slot, which the code does not need, is not being late.
ReceiverOnTime ==
  \/ receiver.pc = "recv"
  \/ receiver.frame = "discover" /\ ~ \E i \in Slots : Free(i)
  \/ ~ Punctual

ThreadsOnTime ==
  \A t \in Threads : threads[t].pc \in {"submit", "submitted", "waiting"} =>
                       threads[t].left > 0

Tick ==
  /\ Alive
  /\ SenderOnTime
  /\ ReceiverOnTime
  /\ ThreadsOnTime
  /\ hello' = hello - 1
  /\ sender' = [sender EXCEPT !.wait = @ - 1]
  /\ slaves' = [s \in Slaves |->
       IF slaves[s].status = "RUNNING" THEN [slaves[s] EXCEPT !.left = @ - 1] ELSE slaves[s]]
  /\ msgs' = [i \in Slots |->
       IF msgs[i].listed /\ ~ Unsent(msgs[i])
       THEN [msgs[i] EXCEPT !.next = NonNeg(@ - 1), !.expire = AtLeast(@ - 1, -1)]
       ELSE msgs[i]]
  /\ threads' = [t \in Threads |-> [threads[t] EXCEPT !.left = NonNeg(@ - 1)]]
  /\ UNCHANGED <<receiver, crash>>

---------------------------------------------------------------------------

Init ==
  /\ slaves = [s \in Slaves |-> Inactive]
  /\ msgs = [i \in Slots |-> NoMsg]
  /\ hello \in 0..FirstHello
  /\ sender = [pc |-> "waiting", wait |-> 0, todo |-> {}, sending |-> None, count |-> 0]
  /\ receiver = ReceiverIdle
  /\ threads = [t \in Threads |-> ThreadIdle]
  /\ crash = "none"

\* A process that has crashed does nothing more.
Crashed == ~ Alive /\ UNCHANGED vars

Next == Sender \/ Receiver \/ Network \/ Http \/ Tick \/ Crashed

Spec == Init /\ [][Next]_vars

\* The threads run, and get the mutex in the end when others take it too; time
\* passes, whatever the traffic, of which there is a finite amount at each date.
\* Nothing else is assumed of the network and of HTTP clients.
FairSpec ==
  /\ Spec
  /\ WF_vars(Sender)
  /\ SF_vars(Receiver)
  /\ \A t \in Threads : SF_vars(HttpThread(t))
  /\ SF_vars(Tick)

---------------------------------------------------------------------------
(* What the engine promises *)

Address == Addrs \cup {None}

SlaveType == [status : {"INACTIVE", "RUNNING"}, addr : Address, left : Int]

MsgType ==
  [kind : {"none", "assoc", "request"}, peer : Slaves \cup {None}, listed : BOOLEAN,
   ntrans : Nat, timeout : Nat, next : Nat, expire : Int, answers : Nat,
   waiter : Threads \cup {None}, sent : Nat]

\* Type invariant.
TypeOK ==
  /\ slaves \in [Slaves -> SlaveType]
  /\ msgs \in [Slots -> MsgType]
  /\ hello \in Int
  /\ sender \in [pc : {"waiting", "transmit", "sleep"}, wait : Int, todo : SUBSET Slots,
                 sending : Slots \cup {None}, count : Nat]
  /\ receiver \in [pc : {"recv", "correlate", "link", "wakeup", "process"},
                   peer : Slaves \cup {None},
                   frame : {"none", "discover", "resources", "garbage", "reply"},
                   id : Slots \cup {None}, org : Slots \cup {None}]
  /\ threads \in [Threads -> [pc : {"idle", "prepare", "submit", "submitted", "waiting"},
                              msg : Slots \cup {None}, left : Nat]]
  /\ crash \in {"none", "send", "assert", "wakeup", "http"}

\* A confirmable message is on the network MAX_RETRANSMIT times at most, even
\* when the receiver stops its retransmission in the middle of one.
BoundedTransmissions == \A i \in Slots : msgs[i].sent <= MaxRetransmit

\* A frame is attributed to one slave: no two slaves have the same address.
AddressesDistinct ==
  \A s, r \in Slaves : s # r /\ slaves[s].addr = slaves[r].addr => slaves[s].addr = None

\* The sender is not told when a slave becomes RUNNING, but its next wake-up
\* lets it see the end of the TTL: it is seen on time when the TTL is longer
\* than the interval between Hellos, and late by their difference otherwise.
ExpiryOnTime ==
  \A s \in Slaves : slaves[s].status = "RUNNING" =>
    slaves[s].left >= - NonNeg(HelloInterval - Ttl)

\* The sender never waits while there is a message it has not tried to send.
NoMessageForgotten ==
  ~ SendFails /\ SenderWaiting /\ sender.wait > 0 =>
    \A i \in Slots : msgs[i].listed => ~ Unsent(msgs[i])

\* A message is not removed from the list, where the answer is looked for,
\* while a thread waits for it: the thread gives up first.
WaitedMessageKept ==
  \A t \in Threads : threads[t].pc \in {"submitted", "waiting"} => msgs[threads[t].msg].listed

\* An HTTP client gets an answer, unless the process crashes.
RequestEnds ==
  \A t \in Threads : threads[t].pc # "idle" ~> (threads[t].pc = "idle" \/ ~ Alive)

\* A message that has been on the network does not stay in the list for ever: the
\* list does not grow with the slaves that do not answer.  A message that can
\* never be sent again is no exception, but nothing ends its stay except the end
\* of the process: its date stays due, and the assertion of casan.cc:456 fails.
OldMessageExpires ==
  \A i \in Slots : msgs[i].listed /\ ~ Unsent(msgs[i]) ~> (~ msgs[i].listed \/ ~ Alive)

---------------------------------------------------------------------------
(* What the comments and the assertion of the engine say and its code does not *)

\* casan.cc:323: a message without an answer is retransmitted.  When the TTL of
\* its slave is over in the meantime, the retransmission uses its null address.
RetransmissionHasAddress == crash # "send"

\* casan.cc:456: assert (delay >= 0)
DelayNotNegative == crash # "assert"

\* casan.cc:545: the thread that waits for an answer is woken up when it comes,
\* before its timeout.
EmitterWoken ==
  \A t \in Threads :
    threads[t].pc = "waiting" /\ threads[t].left > 0 /\ receiver.pc = "recv" =>
      msgs[threads[t].msg].answers = 0

\* waiter.h:15: a thread waits either for a timeout or for another thread to wake
\* it up; the other thread survives when both happen.
WakeupSafe == crash # "wakeup"
===========================================================================
