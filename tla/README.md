# CASAN: TLA+ models and proofs

CASAN connects small devices to the Web: *slaves* (Arduino boards) offer
resources with CoAP messages sent directly over a layer-2 network (Ethernet or
802.15.4), and a *master* associates them, renews the associations and forwards
HTTP requests to them. The repository has one implementation of the slave
(`src/arduino/libraries/Casan`) and two of the master (`src/c-master`, threads;
`src/py-master`, coroutines).

This directory holds models of the slave, of both masters, of their messages
and caches and of the two ends of the 802.15.4 link, the TLC runs that check
them, and machine-checked proofs.

    tlc -config CasanSlave.cfg CasanSlave        # any run of PROJECT.json
    tlapm CasanSlave_proofs.tla                  # any module *_proofs

## 1. Inventory

### How the parts interact

* The master broadcasts a **Hello** with its hello-id, drawn when it starts. A
  slave answers with a **Discover** (its id and its MTU), sent to a known master
  or broadcast. The master sends an **Assoc** (TTL and MTU), a confirmable CoAP
  request; the slave becomes RUNNING and answers with its list of resources; the
  master, on this answer, marks the slave RUNNING. The slave sends a Discover
  again when half of its TTL is over, then more and more often (RENEW), and
  forgets its master at the end of the TTL.
* An HTTP request for `/casan/<slave>/<resource>` is looked for in the cache and,
  failing that, becomes a CoAP request. The HTTP thread (or coroutine) waits for
  the answer, which the receiver correlates by message id (ACK) or by token, and
  adds it to the cache.
* A client that observes a resource receives notifications, which the slave
  sends when the resource is triggered.
* On 802.15.4, the slave shares a circular buffer of frames with the interrupt
  routines of its radio, and the master finds frames in the bytes of a serial
  line to an XBee module.

### Components

| Component | State | Operations | Hard behaviours | What makes it correct |
|---|---|---|---|---|
| Slave engine (`casan.cpp`, `time.cpp`, `resource.cpp`) | status, master and its hello-id, MTU, two timers, observations | `loop()`: receive, answer, notify, timers | late calls, Hellos of other masters, lost, repeated or old Assocs | associated within the TTL only; a master exists wherever it is used; it never stops looking for a master |
| Slave retransmissions (`retrans.cpp`) | list of messages | `add`, `loop`, `check_msg_received` | none: `add` is never called | |
| CoAP messages (slave `msg.cpp`, `option.cpp`; C++ `msg.cc`, `option.cc`) | one message | encode, size, decode | codes and lengths at the thresholds 13 and 269, order of options, a payload with a marker byte | what is read is what was written, which fails for options of 13 to 268 bytes (section 6); the size that is allocated is the size that is written |
| Slave radio buffer (`ZigMsg.cpp`, `L2-154`) | circular buffer, `curframe_`, `writing_` | `sendto`, `get_received`, `skip_received`; interrupts | interrupts between any two steps, a full buffer, bad CRCs | the frame that is read is not overwritten; the radio receives again after a transmission |
| Slave Ethernet (`L2-eth`) | registers of the chip | send, recv | | |
| C++ engine (`casan.cc`, `slave.cc`, `waiter.cc`) | slaves, outgoing messages, Hello dates, waiters | sender thread, receiver threads, `add_request`, `do_and_wait` | threads that share lists half-protected by a mutex, condition variables, retransmission against answers, TTLs | see section 4 |
| C++ cache (`cache.cc`, `msg::cache_match`) | request/answer pairs with dates | `add`, `get` | stale pairs, a request that matches another one | a hit answers the request that was made, and is fresh |
| C++ resources (`resource.cc`, `slave::parse_resource_list`) | attributes | parser | truncated lists | |
| C++ XBee line (`l2-154.cc`) | buffer of bytes, list of frames | `recv` | frames in pieces, false starts, bad lengths and checksums, packets shorter than their header | the packets of the line, in order, none late |
| C++ L2 Ethernet (`l2-eth.cc`) | raw socket | send, recv | | |
| C++ daemon (`master.cc`, `casand.cc`, `conf.cc`, `http/`) | configuration, HTTP server | handlers, parser | threads of the HTTP server | modelled as the HTTP threads of the engine only |
| Python engine (`engine.py`, `slave.py`, `msg.py`, `observer.py`) | slaves, sent messages, timers, observers | callbacks, coroutines | the await of `send_request` against the answer, timers that are never cancelled, observers across associations | as the C++ engine; observers follow associations |
| Python cache and options (`cache.py`, `option.py`) | as the C++ cache | | | as the C++ cache |
| Python resources, event log, HTTP, configuration, L2 | | | input and output | |
| DTLS, makefiles, sketches, slides | | | third-party, or not the program | |

`PROJECT.json` lists each with its sources and status.

## 2. Modules

| Module | Code | Role |
|---|---|---|
| `Lease` | none | abstract: what an association promises, held for the term of the last grant at most, and passed on only by being given up |
| `CasanSlave` | `casan.cpp`, `time.cpp`, `resource.cpp` | one slave and any network around it |
| `CMasterEngine` | `casan.cc`, `slave.cc`, `msg.cc`, `waiter.cc`, `master.cc` | the threads of the C++ master |
| `Association` | `casan.cc`, `slave.cc`, `msg.cc` and, through `CasanSlave`, the slave | a slave and a master composed by a faulty network, with restarts |
| `PyEngine` | `engine.py`, `slave.py`, `msg.py`, `observer.py`, `master.py` | the callbacks and coroutines of the Python master |
| `Coap` | `msg.cc`, `option.cc`, `msg.cpp`, `option.cpp` | encoders and decoders, as operators |
| `HttpCache`, `HttpCacheMC` | `master.cc`, `cache.cc`, `msg.cc`, `casan.cpp`, `cache.py`, `msg.py` | HTTP requests through cache, encoders, slave and decoders |
| `FrameQueue` | none | abstract: a queue with a refusal when it is full, and a reader |
| `ZigMsg` | `ZigMsg.cpp`, `radio_rfa.c`, `l2-154.cpp` | the radio buffer of a slave, with its interrupts |
| `XBeeFrame` | `l2-154.cc` | frames in the bytes of a serial line |
| `CasanSlave_proofs`, `CMasterEngine_proofs`, `Association_proofs`, `PyEngine_proofs`, `Coap_proofs`, `HttpCache_proofs`, `ZigMsg_proofs`, `XBeeFrame_proofs` | | proofs about the module of this name; `Association_proofs` instantiates `CasanSlave_proofs`, `HttpCache_proofs` extends `Coap_proofs` |

### CasanSlave

The slave is single-threaded: one action is one call of `Casan::loop()`. A call
takes the time `d` since the previous one and a received message `in`, or
`Nothing`; `slave` is the Casan object, `out` what the call sent. Everything
the call does is in the action: `LoopAssociated` composes, in the order of the
code, the handling of the message (`Receive`), the notifications
(`NextSerials`), and the three final tests (`EnterRenew`, `RepeatRenew`,
`GiveUp`), each of which sees what the previous one changed.

* *Time.* The code compares absolute dates with `curtime`. A timer of the model
  holds what is left until its dates, and `Elapse` moves all of them. `next` is
  not stopped at zero, because `next()` counts the next date from the date that
  was due and not from now. The 64-bit clock is not modelled here.
* *Messages.* `Input` is every frame a slave can receive: nothing, a frame that
  was truncated, a Hello, an Assoc, another control message, a request. Any
  can come at any time, from any master, so that loss, duplication and
  reordering are all included.
* *Message ids* are left out: the slave does not compare them (the
  de-duplication is commented out, `casan.cpp:647`), and its retransmission list
  is always empty, so that its `loop` and `check_msg_received` do nothing.
* *Null handler.* `Resource::observed` tests `obs_trig_` and calls `obs_dereg_`.
  `NoDereg` is the set of the resources for which the latter is null; calling it
  sets `crashed`, and what follows is not defined by the source. `CasanSlave.cfg` has
  one resource with a null handler and one with a handler (section 6).
* *Observation*: the content of replies is left out; the serial is kept, up to
  the bound `MaxSerial`.

### CMasterEngine

An action is a piece of code that no other thread sees half-done. The sender
holds the mutex of the engine but in its wait; `add_request` and the search of
`correlate` take it; the rest of the receiver and the HTTP threads do not.

| Thread | Actions, in order |
|---|---|
| sender | `SenderWakes` (Hellos, expired slaves), `SenderTransmits` and `SenderCounts` for each message to send, `SenderPurges` (expired messages, next date), `SenderSleeps` (the delay) |
| receiver | `ReceiveDiscover` or `ReceiveAnswer` (`find_peer`), `Correlate`, `Link`, `WakeUp`, `Process` (`process_casan`) |
| HTTP thread | `HttpRequest` (status of the slave), `HttpPrepare`, `HttpSubmit`, `HttpWait`, `HttpReturn` |
| clock | `Tick` |

* `msg::send` puts the frame on the network and then updates its counter and
  its dates, without anything that the receiver would respect: `SenderCounts`
  chooses the value the increment read, before or after `stop_retransmit`. (The
  first transmission cannot be stopped before it is counted: `Correlate` needs the
  mutex, so a message to which an answer is linked has been counted once.)
* `condvar_` and the waiters: `sender.wait` and `threads[t].left` are what is
  left of a wait, and a notification makes it zero. A notification to a thread
  that does not wait is lost, which is what the code does.
* A slot of `msgs` is a message and its id. It is reused when the message has
  left the list and no thread and no frame being received refers to it; ids
  wrap after 65535 messages in the code.
* `slave::reset` makes `addr_` and `l2_` null together: `addr = None`. A null
  pointer that is followed, or an assertion that fails, sets `crash`.
* Time passes (`Tick`) when no thread has something to do at this date; with
  `Punctual = FALSE`, also while the receiver is anywhere in its work or the
  sender is at the end of an iteration.
* Left out: several L2 networks, the MTU, `deduplicate` (it only has an effect on
  requests that have an answer, and the engine never answers a request), the
  content of messages (an Assoc Answer has a list of resources or garbage), and the
  cache (each request misses it). Tokens are left out: answers are matched by id,
  which is what slaves that answer with an ACK obtain.

### Association

`Slave` is an instance of `CasanSlave` with one master: every action of the slave is
`Slave!Loop` or a restart. The master is what `CMasterEngine` shows of an Assoc,
with punctual threads: `ReceiveDiscover`, `Transmit`, `ReceiveAnswer`, `Lapse` (end
of the TTL), `Purge` (end of `EXCHANGE_LIFETIME`), and its starts.

* *Network.* `net[f]` is for how long a frame may still be received. Until then it
  may be received any number of times, in any order with others, or never.
* *Restarts.* A slave starts cold. A master starts with any hello-id, the one of
  before included, since it is the start date modulo 1000, and with message ids
  from the first one, so that an old answer may have the id of a new Assoc. A
  master that sends to a null network (section 6) ends and is started again.
* *Left out*: the dates of Hellos (sent at any time) and of retransmissions (any
  date within `MAX_TRANSMIT_SPAN`), HTTP requests, several slaves.

### PyEngine

One asyncio loop: an action is a callback, or a piece of a coroutine between two
awaits. The only await of the engine is in `Msg.send_request`; between the expiry
of `wait_for` and the moment the coroutine runs (`TimerFires`, then `Retransmit`),
the answer may come.

* `timers[s]` is the set of `_slave_timeout` calls that are scheduled for a slave:
  the code never cancels one.
* `msgs` holds the messages sent, `listed` those of `l2n.sentlist`. `sent`, `extra`
  and `answers` count frames and answers and exist for the properties.
* `_correlate` compares message ids only: an answer is linked to message `i` whatever
  the address it comes from, and it is attributed to the slave that has this address.
* A slot is `NoMsg` again when neither the list nor a coroutine has its message
  (`Remains`): no answer can find it any more.
* `observers`: `known` and `status` as in `observer.py`; `asked` remembers that a GET
  was put on the network since the slave was last INACTIVE. `Observer.start` does not look
  whether its GET is sent (`observer.py:145`) and nothing repeats it: one that fails or is
  lost leaves the slave without the observer until the next Assoc Answer, and the master
  does not know.
* `slave.py:183-185` takes the end of a term from the wall clock and the date of
  `_slave_timeout` from the clock of the loop; the model has one clock for both.
* `DiscoverAddrs` bounds the addresses Discovers come from: any for the slaves of
  `Roaming`, `Home` for the others.
* `res` tells a list of resources that was read to its end ("full") from what was
  kept of one that could not be parsed ("partial").
* Left out: see the head of the module.

### Coap and HttpCache

`Coap` has the encoders and the decoders. The C++ master and the slave encode with
the same algorithm, the Python master with one that differs in one place: for an option of
13 to 268 bytes the former write the low byte of the length (`msg.cc:566`,
`msg.cpp:403`), the latter writes the length minus 13 (`LengthBytes`, argument `py`). All
decoders add 13. `Readable` says that a message has no option of such a length, or
comes from the Python master. Names are at most 255 bytes long (`option.cc:256`,
`option.cpp:67`), so that what a length of 256 to 268 becomes is in `Coap`, but not in
`HttpCache`.

`Decode` is that of the masters, `SlaveDecode` that of the slave, which differs in what
follows the options (`msg.cpp:237-247`): the payload it takes is one byte too long, and
an option that goes past the end of the message leaves a negative length, without a sign.
The slave then ignores the message, or exhausts its memory if the byte it finds there is
the marker; both are `ok = FALSE`, a request without an answer. What a decoder reads
past the end of a message is `Junk`, any byte, the same one all along. The
decoder of `msg.py` reads options of the same form; it cuts a value at the end of the
message, where the C++ decoders go on: no answer that a slave sends is in that case.

A nibble has `Nib` values instead of 16: the thresholds (13 and 269), the size of a byte
and the marker follow from it. With the `Nib = 6` of the runs, a byte has 36 values, a
length takes one byte more from 3 and two from 39. The codes of the options are the
real ones: 11, 12 and 14 take one byte more, and 60 two.

The loops of the code are functions that are recursive on a position or a number
(`digits`, `sorted`, `bytes`, `size`, `after`, `kept`) and not recursive operators or
folds, which the provers cannot use.

`HttpCache` sends each request through `Encode`, `SlaveDecode`, the slave (`SlaveReply`,
the order of the tests of `loop` and `request_handler`: too long, found, not found),
`Encode` and `Decode`. A thread holds the mutex in `cache::get` and `cache::add`, which are
`Ask` and `Wake`; between them others may add the same answer. `AfterGet` is the
clean-up of the C++ loop, which forgets expired entries only if it meets one before
the entry it looks for. With `Python = TRUE`, matching, Max-Age and its default
are those of `msg.py` and `cache.py`.

### ZigMsg and FrameQueue

The interrupt routines (`ItReceiveFrame`, `ItTxDone`) come between any two steps of
the program, whose control point is `pc`: `l2net_154::recv` releases the frame of
its previous call (`SkipReceived`), takes the next one (`GetReceived`) and reads it in
place until the engine calls `recv` again; in between it sends frames (`SetTxAuto`,
`StartWriting`, `RadioSendFrame`, busy wait, `SetRxAuto`). `skip_received` and the test
of the indexes in `get_received` (`ZigMsg.cpp:298-302`) run with the interrupts disabled;
the rest of `get_received` does not: it is one action because it reads one index
once and the interrupt does not write `rbuffirst`. `held` is what
`get_received` found; `FrameKept` compares it with the place in the buffer.
A frame with a bad CRC is written into the buffer too, at the place for the next one.

*Assumption*: `radio_set_state` succeeds (`SetTxAuto`, `SetRxAuto`). The code tries 140
times, "enough to await an ongoing frame reception" (`radio_rfa.c:286`); then it reports
to an empty function (`ZigMsg.cpp:30`) and returns as if it had succeeded. A radio that is
not in the state it should be would send nothing, and the busy wait of `sendto` would not
end: `Listening` and `FrameProcessed` rest on the comment being right.

`FrameQueue` is the queue that the buffer should be; `BufferIsQueue` is the refinement.

### XBeeFrame

An action is an iteration of the loop of `is_frame_complete` (`ScanJunk`,
`ScanIncomplete`, `ScanSkips`, `ScanExtracts`, `ScanCrashes`), a read, or the extraction
of a packet. The data of a packet begin with a header of five bytes (`Header`), and nobody
compares the length of a frame with it: `extract_frame_to_list` copies a payload of
`framelen - 5` bytes (`l2-154.cc:618`), which `memcpy` takes for a huge one when it is
negative. That is `ScanCrashes`, at the first packet that is `Short`.
`line` and `packets` record what came and what `recv` returned. `PacketsOfLine`
compares them with a definition of the frames of a whole line (`Holds`) that knows
nothing of buffers and pieces.

## 3. Fairness

* `CasanSlave!FairSpec`: the application calls `loop()` again and again, and time
  advances between calls (weak fairness of the calls with `d > 0`). Nothing is
  assumed of the network or of the masters.
* `CMasterEngine!FairSpec`: the sender runs (weak fairness: nothing disables a
  step of the sender but the sender). The receiver and the HTTP threads get the
  mutex in the end although others take it as well (strong fairness: a mutex that
  starves a thread for ever is not what a scheduler provides). Time passes (strong
  fairness of `Tick`): traffic can delay a tick, but only a finite amount of work
  fits between two dates. Arrivals of frames and of HTTP requests are not fair.
* `Association!FairSpec`: `loop()` is called and time passes; the sender thread runs; a
  master that has crashed is started again; a frame that is in flight infinitely often
  is received in the end (strong fairness of the reception of a Discover, an Assoc, an
  answer). Hellos may all be lost.
* `PyEngine!FairSpec`: the loop runs each callback and coroutine that is ready (weak
  fairness), and time passes (strong fairness of `Tick`). Nothing is assumed of the
  network and of HTTP clients.
* `ZigMsg!FairSpec`: the program runs, and each transmission ends with its interrupt,
  whatever its outcome. Nothing is assumed of receptions.

## 4. Runs

| Run | Question | Bounds and why they are enough |
|---|---|---|
| `slave` | Are the master, the TTL and the timers right in every state, are Discovers sent once, and does the slave go on looking when it has no master? | two masters (Hello and Assoc of another one), two hello-ids (restart), TTLs 2 (the least, whose half is the minimal interval) and 7 (several RENEW intervals), MTUs 0 and above the default (`association` has one below), a resource with a deregistration handler and one without; the time between calls is the minimal renewal interval, the premise of `NoDiscoverBurst` |
| `association` | Do the slave and the master agree on the association, and find each other again? | two Assocs, each sent once or again while the other is in flight; one restart of either, with the same or another hello-id; frames live for one unit, a TTL is four, so that a renewal, a lost one and the end of the TTL all happen |
| `master_exchange` | Are messages and TTLs attended to in time? | one slave, two messages, one HTTP thread: an Assoc and a request, or an answer to the one while the other is sent |
| `master_faults` | Are transmissions bounded, frames attributed to one slave, and do requests and messages end, when sends fail and threads are late? | one message, two transmissions; two slaves and two addresses, which they may exchange |
| `master_reset` | What becomes of the messages of a slave that is reset? | violation, section 6 |
| `py_engine` | Do associations and requests end, and does each observer get its GET, at each interleaving of callbacks and coroutines? | two slaves and two addresses: the Discovers of one come from the first address, those of the other from both, so that they share an address, and answers come from one they were not asked at; two messages (an Assoc and a request or the GET of an observer); a TTL of one, so that it ends and is renewed while timers of before are due; every timer and `MAX_RETRANSMIT` is one, sends succeed, and an Observe has one value: the theorems are about the others. 521,428 states |
| `http_cache` | Are messages read as written, and answers of the right resource and fresh? | two threads (both miss, or one hits what the other added); five names, of 1, 1, 2, 3 and 5 bytes: with `Nib = 6` and an MTU of 7, the first three are written right, the length of the fourth is written wrong, the request for the fifth is too long, and the answer for the name of two bytes is too long with a Max-Age only; threads are symmetric; a thread that has its answer steps alone, since it shares nothing more. One method is enough for these properties: only a handler of the slave reads it. 112,955 states |
| `option_length` | Does the slave read what the C++ master writes? | violation, section 6 |
| `cache_method`, `py_cache` | Does the cache answer the request that was made? | violations, section 6 |
| `zigmsg` | Is the frame that is read left alone, is the buffer a queue, and does the radio go on receiving? | a buffer of four places, which fills and wraps; three frames |
| `xbee` | Does `recv` return exactly the packets of the line, and what ends it? | every line of twelve bytes of three values, in pieces of one to three; data have up to three bytes and the header two, so that there are packets that are too short, packets and other frames one after the other, frames inside a false start, bad lengths and checksums. 2,810,343 states |

What the properties say:

* `AddresseeKnown`, `LeaseHeld`, `TimerRunning`: a call in RUNNING with an
  expired TTL passes through RENEW to WAITING_UNKNOWN in one go. That no late
  call leaves the slave associated rests on an invariant that the code never
  states: in RUNNING, the next date is never after the limit.
* `NoDiscoverBurst`: a call that is made in time sends a Discover once, although three
  tests in a row may each send one. It says nothing of the calls that follow a late one:
  these do catch up with the dates that were missed, one Discover a call
  (`time.cpp:135`).
* `KeepsLooking`, `LeaseNeedsAssoc`: Hellos and requests neither silence a slave
  nor prolong its association.
* `AssociationIsLease` (of the composition): no Assoc that is late, repeated or out of
  order makes an association longer than the TTL from its reception. An old Assoc that
  comes again is accepted, and begins a whole term: the slave compares no dates or ids. `LeaseBacked`: as long
  as nobody restarts, the master does not believe in an association the slave has
  left, but for the latency of the answer. `Reassociation`: after losses and a
  restart of either, they are associated again, without the help of Hellos.
* `NoMessageForgotten`: the sender never waits while the list has a message it
  has not tried to send (the notification of `add_request` is not lost, thanks to
  the mutex). `WaitedMessageKept`: with punctual threads, a message is not
  removed under the HTTP thread that waits for it.
* `ExpiryOnTime`: the receiver sets the end of the TTL without waking the sender,
  which nevertheless notices in time, because it wakes up for each Hello.
* `BoundedTransmissions`: it holds although the counter is written without a lock.
* `RequestEnds`: a lost notification costs a request its whole timeout, but no more.
* `OldMessageExpires`: a message that was sent leaves the list, answered or not, unless the
  process ends. A message that can never be sent again does not leave it in another way:
  its next date stays due (`msg.cc:385`), the sender does not wait any more, and
  as soon as time passes `assert (delay >= 0)` fails (`casan.cc:456`).
* `RunningIsTimed` (Python): timers of former associations accumulate, and the one of
  the present association is always among them. `StopsAfterAnswer`: the race of a
  timer and an answer costs one frame. `ObserversAsked`: when sends succeed, a GET for an
  observer was put on the network since the slave came up, whenever the slave is RUNNING
  and announces the resource. Whether it arrived, the master does not know.
* `ReadAsWritten`: messages whose lengths are written right are read as they were written.
  `OwnValue` does not have this premise: a name whose length is written wrong makes the
  slave read past the end of the request, and is never taken for another name.
* `OwnValue`, `Fresh`, `OneEntryEach`: the cache serves values of the resource that
  was asked for, within their Max-Age, and does not grow with the expiry of answers.
* `NoPacketWaits`: a packet that came with another one is not left until more bytes come.
  `CrashIsShortPacket`: no cut of a line, bad length or false start makes `recv` copy a
  payload of a negative length, but for a packet of the line that is too short.

The type invariants of `Association` and `HttpCache` are stated there for the reader;
those of the other modules are checked. All but that of `HttpCache` are proved.

## 5. Proofs

`CasanSlave_proofs` proves, for every set of masters, TTLs of at least 2, timers of
at least 1, and any delay between two calls:

| Theorem | Statement |
|---|---|
| `TypeCorrect` | `Spec => []TypeOK` |
| `AddresseeAlwaysKnown` | `Spec => []AddresseeKnown` |
| `LeaseAlwaysHeld` | `Spec => []LeaseHeld` |
| `TimerAlwaysRunning` | `Spec => []TimerRunning` |
| `DiscoversOnce` | `Spec => []NoDiscoverBurst` |
| `SlaveImplementsLease` | with one master, `Spec => AssociationIsLease` |

The inductive invariant is `IInv == Sound(slave) /\ SentOK(out)`. `Sound` joins the
type, the existence of the master, the timers and, in RUNNING,
`trenew.next <= trenew.limit`. Without this conjunct the properties are not
inductive: a slave in RUNNING whose limit passed before its next date would stay
associated. Inside a call `Sound` does not hold, since time has elapsed: `Settling`
is the weaker fact that every stage of a call preserves (`ReceiveSettling`,
`NextSerialsSettling`, `EnterRenewSettling`, `RepeatRenewSettling`), and the last
test turns it back into `Sound` (`GiveUpSound`).

`DiscoversOnce` is about the three tests that end a call, each of which may send a
Discover. A date that is due in RUNNING was in the future after the last call
(`Sound`), so that it is overdue by less than `RenewMin` when the premise holds; leaving
RUNNING pushes it back by `RenewMin` at least (`RenewOnce`), so that the second test
fails; and the third test sends to everybody, not to the master (`EndDiscovers`).

`SlaveImplementsLease` is a refinement: a call maps to a grant (an Assoc was
accepted), to the passing of time, to a release or to a stutter. It assumes one
master, which is what the class documents (`casan.h:47-55`). With two, a Hello
of another master changes `master_` at once in RUNNING when no Hello had been heard
before, without an Assoc, so that the association changes hands without a release.

Assumptions: `TimersAssumption` (a TTL of 1 has a half of 0, and the TTL is in
seconds in the protocol; the timers are positive constants of `time.cpp`) and
`AddressAssumption`. TLC evaluates them on every run.

`CMasterEngine_proofs` proves, for any finite number of slaves and of messages,
any addresses and HTTP threads, every TTL, interval, lifetime and
`MAX_RETRANSMIT` of at least 1, whether sends fail or not and threads are
punctual or not:

| Theorem | Statement |
|---|---|
| `EngineTypeCorrect` | `Spec => []TypeOK` |
| `TransmissionsBounded` | `Spec => []BoundedTransmissions` |
| `AddressesAlwaysDistinct` | `Spec => []AddressesDistinct` |
| `NeverForgotten` | `Spec => []NoMessageForgotten` |
| `MessagesAlwaysKept` | `Spec => []WaitedMessageKept` |
| `ExpiryAlwaysOnTime` | `Spec => []ExpiryOnTime`, if `Punctual` and `FirstHello <= HelloInterval` |

The inductive invariant `EInv` adds to the type and to `AddressesDistinct`, which is
inductive by itself:

* `Sending`: the message that is being sent stays in the list until it is
  counted. Only the sender removes messages, and a new message never takes its slot.
* `Counting`: frames are never ahead of their count, except for the message that
  is being sent, where they are one ahead of the count the sender has read. It is
  what the bound rests on, because the increment may forget a stop
  (`ntrans` goes back from `MAX_RETRANSMIT`), but never a transmission.
* `Tried`: a message that has never been sent is on the way of the sender, or has
  put an end to its wait. `NoMessageForgotten` alone is not inductive: it says
  nothing of the iteration during which the message is added.

`MessagesAlwaysKept` needs a second invariant, `WInv`, over `EInv`:

* `Owning`: the message of an HTTP thread is no other thread's.
* `Waited`: it is out of the list and unsent until it is submitted; then it is in the
  list, and either unsent or with at least as much of its lifetime left as the thread
  has of its timeout. Both are `Lifetime`, and the timeout starts first.
* `Answering`: the receiver links an answer only to a message whose transmission has been
  counted. An answer linked before that would set the counter from which `msg::send`
  tells that the lifetime is not started yet, and the message would expire at once. What
  prevents it is the mutex around the search of `correlate`, since the sender holds it
  until the frame is counted.

`ExpiryAlwaysOnTime` is about threads that take no time between two dates
(`Punctual`, as in `master_exchange`) and rests on `PInv`, over the type: when the sender
starts to transmit, no Hello and no TTL is overdue; from then on its wait is at most an
interval between Hellos, and exceeds what is left of any lease by at most what an interval
exceeds a TTL, since a lease that begins while the sender waits is a whole TTL. The
second hypothesis is that the first Hello is not due later than the others would be, as
with the delays of the configuration files and the default ones: a longer first wait
would be late by the excess of that wait.

The proof that a step keeps `EInv` treats the other threads together
(`OthersLeaveSender`, `OthersStepMessage`: what they may do to the sender and to one
message) and the sender action by action (`SenderStep`). The type of `NextDate`
needs a minimum of finite sets of integers (`FiniteMin`): the elements below an
element are ordered by strict inclusion, which is well-founded on finite sets.

Assumption: `EngineAssumption` (positive timers, finite sets of slaves and messages,
a null pointer that is none of the objects). TLC evaluates it on every run.

`ZigMsg_proofs` proves, for a buffer of any size, any frames and any number of
transmissions:

| Theorem | Statement |
|---|---|
| `ZigTypeCorrect` | `Spec => []TypeOK` |
| `FrameAlwaysKept` | `Spec => []FrameKept` |
| `AlwaysListening` | `Spec => []Listening` |
| `BufferRefinesQueue` | `Spec => BufferIsQueue` |

`FrameKept` is not inductive: it needs `Apart` (the radio writes at `rbuflast`, the
program reads at `rbuffirst`, and these differ whenever it reads something, because
the interrupt does not make the buffer full) and `Phase` (which state the radio is in
at each step of `sendto`).

`BufferRefinesQueue` is a refinement. The queue is what lies between the two indexes, as a
sequence (`Between`): `AddedAtEnd` and `RemovedAtHead` say what becomes of it when an index
moves modulo `Size`, from which each step of the buffer is a step of `FrameQueue` or a
stutter.

`XBeeFrame_proofs` proves, for every base, start byte, length and size of the buffer
within `XBeeAssumption`, every line and every way to cut it:

| Theorem | Statement |
|---|---|
| `XBeeTypeCorrect` | `Spec => []TypeOK` |
| `AlwaysRoomToRead` | `Spec => []RoomToRead` |
| `PacketsNeverWait` | `Spec => []NoPacketWaits` |
| `PacketsAreThoseOfTheLine` | `Spec => []PacketsOfLine` |
| `OnlyShortPacketsCrash` | `Spec => []CrashIsShortPacket` |

The strengthening says what is known at `pc = "read"`: what is kept is shorter than
a minimal frame, or than a frame whose length has been accepted, and both are shorter
than the buffer; and a scan that has found a frame goes on to the extraction.

`PacketsAreThoseOfTheLine` compares `recv`, which sees a window of the line at a time, with
the frames of the whole line. `LineInv` says that the buffer is the end of the line; that
`recv` is done with what is before it (`Done`: no frame of the line goes across, and no
start byte there may still begin one); and that the frames up to there are, in order,
those that were returned and those of the list (`InOrder`, which gives each frame of the
list its position). A step of the scan moves the limit to a place where `Done` holds
again: after a frame, or after bytes that begin none. A read makes the line longer, and a
longer line holds the same frames up to the limit: they are defined by recursion on
positions, each held unless a frame before covers it, and two such definitions that agree
on the candidates are equal (`GreedyUnique`).

`OnlyShortPacketsCrash` uses the same limit: when the scan finds a frame that is too short,
the buffer begins at a place where `Done` holds, so that this frame is one of those
of the line and not a piece of another one.

`Association_proofs` proves, for any TTL of at least 2, any latency below it, any set of
ids and of hello-ids, and any number of restarts:

| Theorem | Statement |
|---|---|
| `AssociationTypeCorrect` | `Spec => []TypeOK` |
| `LeaseAlwaysBacked` | `Spec => []LeaseBacked` |
| `AssociationKeepsLease` | `Spec => AssociationIsLease` |

`LeaseBacked` relates the master to the slave, but the master learns from answers that are
in flight. `AInv` therefore says that, while nobody restarts, an answer which may still be
received for `d` units backs a term of `Ttl - Latency + d` (`AnswersBacked`): the slave
began that term when it sent the answer, or has begun another one since, and time takes
as much from the term as from the life of the frame. It also needs that the slave never
takes a Hello of its master for that of a restarted one (`HelloKnown`), since it would
leave the association, and what is known of the slave alone: `P!IInv`, from
`CasanSlave_proofs`, which is instantiated with one master and the parameters of the
composition. The `Same...` lemmas say that the slave proved about there and the slave of
`Association` are the same.

`AssociationKeepsLease` reuses the refinement of the slave alone: each call in the
composition is a step of the lease, and so is a restart, which releases it.

`PyEngine_proofs` proves, for any slaves, addresses and messages, every TTL, timeout,
lifetime and `MAX_RETRANSMIT` of at least 1, whether sends fail or not:

| Theorem | Statement |
|---|---|
| `PyTypeCorrect` | `Spec => []TypeOK` |
| `RunningAlwaysTimed` | `Spec => []RunningIsTimed` |
| `PyAddressesDistinct` | `Spec => []AddressesDistinct` |
| `AlwaysStopsAfterAnswer` | `Spec => []StopsAfterAnswer` |
| `ObserversAlwaysAsked` | `Spec => []ObserversAsked`, of which `~ SendFails` is a premise |

`PInv` joins the last four, of which `StopsAfterAnswer` is strengthened to `Sound`, a
property of each message: while a coroutine waits for it, its frames are at most one
ahead of the count of its retransmissions, none came after its answer, and an answer has
put that count at its end. A message therefore stays sound whether its timer or its
answer comes first.

`Coap_proofs` proves of the codec, for every `Nib` of at least 4 (16 in the code), and any
message, that is any sequence of options with any codes and values, and any payload:

| Theorem | Statement |
|---|---|
| `DecodeEncode` | `Decode(Encode(m, py))` is the message: its options, sorted, and its payload, if `Readable(m, py)` |
| `SlaveDecodeEncode` | `SlaveDecode(Encode(m, py), FALSE)` is the same, with one byte more in a payload, if `Readable(m, py)` |
| `LongOptionNotRead` | a message of the C++ master with one option, of 13 to 255 bytes, is not understood by the slave |
| `EncodedSizeExact` | `Len(Encode(m, py)) = EncodedSize(m)`, for every message |
| `BytesUintOfUintBytes` | `BytesUint(UintBytes(n)) = n`, for every natural number |

`Readable` is needed: the third theorem is the case where it fails. `DecodeEncode` needs
that the differences of codes in a sorted list are not negative (`PushSorted`,
`Sorting`), that the head of an option is never the marker (`HeadIsNotMarker`: the nibble
`Nib - 1` is never written), that a code or a length is read as it was written in each of
its three classes (`ReadLengthOfWritten`), and that the bytes of one option stand in
the message between those of the options before and after it (`OptionWritten`,
`OptionRead`); `Reading` and `OptionsRead` follow the loop of the decoder one option at a
time. The theorems are about codes and lengths as numbers; those that the code has
fit in the bytes that are written, codes below 269 + 65 536 and names of 255 bytes at most.

`HttpCache_proofs` proves, for any threads, slaves, names of at most 255 bytes,
methods, ages, MTU and lifetime:

| Theorem | Statement | Masters |
|---|---|---|
| `AlwaysReadAsWritten` | `Spec => []ReadAsWritten` | both |
| `SizeAlwaysExact` | `Spec => []SizeIsExact` | both |
| `AlwaysFresh` | `Spec => []Fresh` | both |
| `AlwaysOwnValue` | `Spec => []OwnValue` | C++ (`~ Python`) |
| `AlwaysOneEntryEach` | `Spec => []OneEntryEach` | C++ (`~ Python`) |

The last two are about `msg::cache_match` and the clean-up of `cache::get`; `py_cache`
shows that the first of them does not hold of the Python master. The inductive invariant
is `HInv`: each thread has a request for one name, an answer that is made of bytes and is
its own (`OwnReply`), and an age which, with the time that is left for the thread, is
within its lifetime; each entry that is alive has such an answer, and an age which, with
the time that is left for the entry, is within its Max-Age and that lifetime (`Young`).
`Fresh` needs the sums: ages and times left move together, and neither is bounded usefully
alone. That what the slave makes of a request is such an answer (`ReplyIs`) and that it
comes through (`ReceivedIs`) follow from `DecodeEncode`, `SlaveDecodeEncode` and
`LongOptionNotRead`, which leaves no answer to a request that is written wrong; the Max-Age that the Python master
reads, where it multiplies the bytes, is never more than the one that was written
(`PyBytesUintBelow`). `OneEntryEach` needs `NotMine`: no thread waits for an answer to a
request for which it already has an entry, since looking for a request in vain removes
every entry that is expired (`MissLeavesNone`).

Induction: the theorems of the library on induction and on recursive functions take an
operator as a parameter, which the provers cannot instantiate. These proofs replace them
by `NatSet`, which follows from the well-foundedness of `<` (a set that has 0 and the
successor of each of its elements has all natural numbers). That a function which
satisfies a recursive definition exists is proved with it, by induction on the domain
(`Greedy`, `Sorting`, `Encoding`, `Sizing`, `Reading`, `Digits`, `Keeping`); the function of
the definition, which is the chosen one, then satisfies it too.

Only model-checked:

* the liveness properties, since fairness and ENABLED are out of the prover's reach:
  `KeepsLooking`, `LeaseNeedsAssoc`, `Reassociation`, `RequestEnds` (of both masters),
  `OldMessageExpires`, `FrameProcessed`;
* the violation runs, which are counterexamples.

Every other property of the passing runs is a theorem.

## 6. Findings

Each is a violation run; its counterexample is a legal schedule.

1. `master_reset`: a message is still in the list when its slave's TTL ends; the
   sender resets the slave and then sends through its null network (`msg.cc:384`).
2. `option_length`: the C++ master writes a length of 13 to 268 without subtracting 13
   (`msg.cc:566`), and the slave adds 13 to it (`msg.cpp:203`): a request whose
   Uri-Path has a segment of 13 bytes or more is never understood. The slave writes
   lengths in the same way (`msg.cpp:403`).
3. `cache_method`: `cache_match` does not compare the methods (`msg.cc:696`), though its
   comment says so: a PUT is answered with the cached answer to a GET and never reaches
   the slave. It does not compare the peers either.
4. `py_cache`: `cache_match` of `msg.py:466` stops at the last option of each list without
   comparing it: any two requests with one option match.

### Other divergences the models state

No run of `PROJECT.json` checks these; each can be reproduced by naming the property in
the configuration given.

| Property | Module, configuration | What the source says, what its code does |
|---|---|---|
| `DeregMayBeNull` | `CasanSlave`, `CasanSlave.cfg` | the deregistration handler may be null (`resource.cpp:63`); it is called without a test (`resource.cpp:87`) |
| `DelayNotNegative` | `CMasterEngine`, `CMasterFaults.cfg` | `assert (delay >= 0)` (`casan.cc:456`); the clock is read twice, and a date may pass in between; and the date of a message that could not be sent again stays in the past (`msg.cc:385`) |
| `EmitterWoken` | `CMasterEngine`, `CMasterExchange.cfg` | the thread that waits is woken up (`casan.cc:545`); an answer that comes before its wait begins wakes nobody up (`waiter.cc:66`) |
| `WakeupSafe` | `CMasterEngine`, `CMasterExchange.cfg` | the receiver reads the pointer to the waiter twice (`casan.cc:553`), the HTTP thread clears it in between |
| `MtuKept` | `Association`, `Association.cfg` | `curmtu_` is the negotiated MTU (`casan.h:94`); an associated slave goes back to its default at the first Hello it hears (`casan.cpp:624`) |

Two more are in the models as the code has them, without a property:

* `engine.py:161` keeps the messages for which `m.expire < now`, the expired ones, though
  the comment says "Periodically remove expired messages from sentlist"
  (`engine.py:157`): `Kept`, in `PyEngine`. An answer that comes after a Hello is not
  correlated with its request, which ends by its timeouts.
* `l2-154.cc:618` copies a payload of a negative length when a packet is shorter than its
  header: `ScanCrashes`, in `XBeeFrame`.

Read in the code while modelling, and not in the models because no property of theirs
depends on it: `option::optval` of the slave combines bytes with `&` (`option.cpp:334`),
so that an integer option is read as 0; `bytes_to_int` of the Python master multiplies the
bytes (`option.py:200`; `PyBytesUint` in `Coap`); `msg.py:374` appends a `bytes` to a
`bytearray`, which raises; the last attribute of a resource without a value is lost
(`slave.cc:312`).

The premises of two properties have the same origin. `BoundedTransmissions`
counts transmissions and does not say that the answer stops them: the unprotected
`ntrans_++` (`msg.cc:432`) can undo `stop_retransmit`. `OldMessageExpires` is
stated for messages that were sent once: `expire_` is set by the first success
(`msg.cc:424`), and a message whose sends all fail has no end.

## 7. Not modelled, and what is left

* *Third-party or not the program*: DTLS, the makefiles, the radio driver's registers,
  the HTTP servers (derived from asio and aiohttp examples), the sketches, the test
  programs, the slides.
* *Functions of one input without state*: the parsers of the configuration and of
  resource lists, the printing of resources, the header and the token of messages. They
  would be transliterations.
* *Ethernet*: raw sockets and chip registers; the engines receive any frame or none.
* *Retransmissions of the slave*: `retrans.cpp` runs on a list that nothing fills.

Left, in this order:

1. `SlaveClock`: roll-over of `millis()` in `sync_time`, provable for every pace.
2. `EvLog`: the ring of events and its polls.
