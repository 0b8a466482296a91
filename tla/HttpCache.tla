----------------------------- MODULE HttpCache -----------------------------
(***************************************************************************)
(* What becomes of an HTTP request for a resource of a slave: a thread of  *)
(* the HTTP server (a coroutine in the Python master) looks in the cache   *)
(* and, failing that, sends a CoAP request and waits for the answer, which *)
(* it adds to the cache.  Threads only hold the mutex of the cache while   *)
(* they look in it or add to it.                                           *)
(*                                                                         *)
(* Messages are encoded, sent and decoded by module Coap.  An exchange is  *)
(* one step of the slave, or none: CMasterEngine and PyEngine say how      *)
(* requests are sent again and given up.  The names of the resources are   *)
(* paths of one segment, the only ones the slave knows.  The purge of the  *)
(* Python master, which only forgets what it would not use, is left out.   *)
(***************************************************************************)
EXTENDS Coap, SequencesExt

CONSTANTS
  Python,       \* this is the Python master, not the C++ one
  Threads,
  Slaves,
  Names,        \* names of the resources, sequences of bytes
  Methods,      \* "GET" and others
  Ages,         \* what the slave puts in Max-Age
  NoAge,        \* no Max-Age
  DefaultAge,   \* MAX_AGE_DEFAULT of the Python master
  Mtu,          \* what the slave receives and sends, besides header and token
  Lifetime      \* how long an HTTP thread waits

\* A path has at most 255 bytes, and the integers in options four.
ASSUME CacheAssumption ==
  /\ Python \in BOOLEAN
  /\ Names \subseteq Seq(0..Byte - 1) /\ \A n \in Names : Len(n) < Byte
  /\ Ages \subseteq Nat
  /\ NoAge \notin Nat
  /\ {DefaultAge, Mtu, Lifetime} \subseteq Nat
  /\ \A n \in Ages \cup {Mtu} : Len(UintBytes(n)) < T1

VARIABLES
  threads,      \* the HTTP requests that are being answered
  cache         \* cache::cache_, with the age of the answers and who added them

vars == <<threads, cache>>

---------------------------------------------------------------------------
(* Messages *)

Request(s, n, m) ==
  [peer |-> s, type |-> "CON", code |-> m, opts |-> <<Opt(UriPath, n)>>, payload |-> <<>>]

\* A payload that has a byte like the one that starts payloads.
Value(n) == <<Marker>> \o n

\* The slave answers, in the order of its code, that the request is too long, what its
\* handler says, with a Max-Age or not, or that it has no such resource.
Reply(truncated, req, age) ==
  IF truncated
  THEN [code |-> "TOO_LARGE", opts |-> <<Opt(Size1, UintBytes(Mtu))>>, payload |-> <<>>]
  ELSE IF OptionsOf(req, UriPath) # {} /\ SearchOption(req, UriPath).val \in Names
  THEN [code |-> "OK", payload |-> Value(SearchOption(req, UriPath).val),
        opts |-> PushOption(IF age = NoAge THEN <<>> ELSE <<Opt(MaxAge, UintBytes(age))>>,
                            Opt(ContentFormat, <<>>))]
  ELSE [code |-> "NOT_FOUND", opts |-> <<>>, payload |-> <<>>]

\* A request as its master writes it and as the slave reads it, and what the slave makes
\* of it.
TooLong(req) == Len(Encode(req, Python)) > Mtu

SlaveReads(req) == SlaveDecode(Encode(req, Python), TooLong(req))

SlaveReply(req, age) == Reply(TooLong(req), SlaveReads(req), age)

\* What the master makes of an answer.
Received(rep) ==
  LET d == Decode(Encode(rep, FALSE))
  IN  [code |-> rep.code, ok |-> d.ok, opts |-> d.opts, payload |-> d.payload]

---------------------------------------------------------------------------
(* The cache *)

\* option::nocachekey
NoCacheKey(o) == (o.code \div 2) % 16 = 14

\* What is left of s when only the positions I are kept
Keep(s, I) ==
  LET kept[k \in 0..Len(s)] ==
        IF k = 0 THEN <<>> ELSE IF k \in I THEN Append(kept[k-1], s[k]) ELSE kept[k-1]
  IN  kept[Len(s)]

CacheKey(m) ==
  LET s == SortOptions(m.opts)
  IN  Keep(s, {i \in DOMAIN s : ~ NoCacheKey(s[i])})

\* Mutant of CacheMatch: the values are not compared.
CacheMatchCodes(m1, m2) ==
  LET codes(m) == [i \in DOMAIN CacheKey(m) |-> CacheKey(m)[i].code]
  IN  m1.type = m2.type /\ codes(m1) = codes(m2)

\* msg::cache_match, which does not look at the peer nor at the method.
CacheMatch(m1, m2) == m1.type = m2.type /\ CacheKey(m1) = CacheKey(m2)

\* Msg.cache_match of the Python master stops at the last option, where it does not
\* compare it.  Requests have options, and none is left aside.
PyCacheMatch(m1, m2) ==
  /\ m1.type = m2.type
  /\ Front(SortOptions(m1.opts)) = Front(SortOptions(m2.opts))

Match(m1, m2) == IF Python THEN PyCacheMatch(m1, m2) ELSE CacheMatch(m1, m2)

Live(e) == e.left >= 0

Hits(m) == {i \in DOMAIN cache : Live(cache[i]) /\ Match(m, cache[i].req)}

\* msg::max_age and Msg.max_age
AgeOf(rep) ==
  IF OptionsOf(rep, MaxAge) = {} THEN IF Python THEN DefaultAge ELSE NoAge
  ELSE LET val == SearchOption(rep, MaxAge).val
       IN  IF Python THEN PyBytesUint(val) ELSE BytesUint(val)

LiveEntries == Keep(cache, {i \in DOMAIN cache : Live(cache[i])})

\* Mutants of AfterGet: expired entries are only removed before one that is found; one
\* that is found lives again for its Max-Age.
AfterGetFound(m) ==
  IF \E i \in DOMAIN cache : ~ Live(cache[i]) /\ \E h \in Hits(m) : i < h
  THEN LiveEntries
  ELSE cache

AfterGetRenewed(m) ==
  IF Hits(m) = {} THEN LiveEntries
  ELSE [cache EXCEPT ![Min(Hits(m))].left = AgeOf(cache[Min(Hits(m))].rep)]

\* cache::get forgets the expired entries if it sees one before what it looks for.
AfterGet(m) ==
  IF ~ Python /\ \E i \in DOMAIN cache : ~ Live(cache[i]) /\ \A h \in Hits(m) : i < h
  THEN LiveEntries
  ELSE cache

Cacheable(rep) == AgeOf(rep) # IF Python THEN 0 ELSE NoAge

---------------------------------------------------------------------------
(* HTTP requests *)

Idle == [at |-> "idle"]

Served(req, rep, asked, age) ==
  [at |-> "served", req |-> req, rep |-> rep, asked |-> asked, age |-> age]

\* A thread that has its answer shares nothing with the others until it is idle again:
\* the next step is its own.
NobodyServed == \A t \in Threads : threads[t].at # "served"

\* A request is looked for in the cache.  If it is there, its answer is served;
\* if not, it is sent.
Ask(t, req) ==
  /\ NobodyServed /\ threads[t] = Idle
  /\ LET e == cache[Min(Hits(req))]
     IN  threads' = [threads EXCEPT ![t] =
           IF Hits(req) # {} THEN Served(req, e.rep, e.req, e.age)
           ELSE [at |-> "sent", req |-> req, left |-> Lifetime]]
  /\ cache' = AfterGet(req)

\* The slave answers, unless it does not understand the request or its answer is too long
\* for it to send.
Answer(t, age) ==
  /\ NobodyServed /\ threads[t].at = "sent" /\ SlaveReads(threads[t].req).ok
  /\ LET rep == SlaveReply(threads[t].req, age)
     IN  /\ EncodedSize(rep) <= Mtu
         /\ threads' = [threads EXCEPT ![t] =
              [at |-> "answered", req |-> @.req, left |-> @.left, rep |-> rep, age |-> 0]]
  /\ UNCHANGED cache

\* The thread wakes up and serves the answer, which it puts in the cache.
Wake(t) ==
  /\ NobodyServed /\ threads[t].at = "answered"
  /\ LET rep == Received(threads[t].rep)
         e   == [req |-> threads[t].req, rep |-> rep, by |-> t,
                 left |-> AgeOf(rep), age |-> threads[t].age]
     IN  /\ rep.ok
         /\ cache' = IF Cacheable(rep) THEN Append(cache, e) ELSE cache
         /\ threads' = [threads EXCEPT ![t] = Served(e.req, rep, e.req, e.age)]

\* No answer has come.
GiveUp(t) ==
  /\ NobodyServed /\ threads[t].at = "sent" /\ threads[t].left = 0
  /\ threads' = [threads EXCEPT ![t] = Idle]
  /\ UNCHANGED cache

Return(t) ==
  /\ threads[t].at = "served"
  /\ threads' = [threads EXCEPT ![t] = Idle]
  /\ UNCHANGED cache

Waiting == {t \in Threads : threads[t].at \in {"sent", "answered"}}

\* What is remembered of an entry that is expired, until it is removed.
Expired(e) == [e EXCEPT !.left = -1, !.age = 0, !.rep = {}]

\* Time passes, but a thread does not wait longer than it should.
Tick ==
  /\ NobodyServed /\ \A t \in Waiting : threads[t].left > 0
  /\ threads' = [t \in Threads |->
       IF threads[t].at = "sent" THEN [threads[t] EXCEPT !.left = @ - 1]
       ELSE IF threads[t].at = "answered" THEN [threads[t] EXCEPT !.left = @ - 1, !.age = @ + 1]
       ELSE threads[t]]
  /\ cache' = [i \in DOMAIN cache |->
       IF cache[i].left <= 0 THEN Expired(cache[i])
       ELSE [cache[i] EXCEPT !.left = @ - 1, !.age = @ + 1]]

---------------------------------------------------------------------------
Init == threads = [t \in Threads |-> Idle] /\ cache = <<>>

Next ==
  \/ \E t \in Threads :
       \/ \E s \in Slaves, n \in Names, m \in Methods : Ask(t, Request(s, n, m))
       \/ \E age \in Ages \cup {NoAge} : Answer(t, age)
       \/ Wake(t) \/ GiveUp(t) \/ Return(t)
  \/ Tick

Spec == Init /\ [][Next]_vars

---------------------------------------------------------------------------
(* What HTTP clients and slaves are promised *)

\* Type invariant.
TypeOK ==
  /\ \A t \in Threads :
       /\ threads[t].at \in {"idle", "sent", "answered", "served"}
       /\ t \in Waiting => threads[t].left \in 0..Lifetime
       /\ threads[t].at = "served" => threads[t].rep.code \in {"OK", "TOO_LARGE", "NOT_FOUND"}
  /\ \A i \in DOMAIN cache :
       /\ cache[i].left \in -1..Max(Ages \cup {DefaultAge})
       /\ cache[i].by \in Threads

Sent == {t \in Threads : threads[t].at = "sent"}
Answered == {t \in Threads : threads[t].at = "answered"}

ReadBySlave(req) ==
  LET d == SlaveReads(req)
  IN  d.ok /\ d.opts = SortOptions(req.opts) /\ d.payload = req.payload

\* Every answer is read as it was written, and every request that is not too long for the
\* slave: those of the Python master, and of the C++ master those for a name of fewer
\* than 13 bytes.
ReadAsWritten ==
  /\ \A t \in Sent :
       ~ TooLong(threads[t].req) /\ Readable(threads[t].req, Python) => ReadBySlave(threads[t].req)
  /\ \A t \in Answered :
       LET rep == threads[t].rep
       IN  Received(rep) = [code |-> rep.code, ok |-> TRUE, opts |-> SortOptions(rep.opts),
                            payload |-> rep.payload]

\* A message is exactly as long as what is allocated for it.
SizeIsExact ==
  /\ \A t \in Sent : Len(Encode(threads[t].req, Python)) = EncodedSize(threads[t].req)
  /\ \A t \in Answered : Len(Encode(threads[t].rep, FALSE)) = EncodedSize(threads[t].rep)

\* Through the encoders, the decoders, the slave and the cache, the value that is served
\* is one of the resource that was asked for: a request that is not read as it was written
\* is not answered with the value of another resource.
OwnValue ==
  \A t \in Threads :
    threads[t].at = "served" /\ threads[t].rep.code = "OK" =>
      threads[t].rep.payload = Value(threads[t].req.opts[1].val)

\* A value that is served was the one of the resource not longer ago than its Max-Age
\* and the time its answer took to come.
Fresh ==
  \A t \in Threads :
    threads[t].at = "served" /\ OptionsOf(threads[t].rep, MaxAge) # {} =>
      threads[t].age <= BytesUint(SearchOption(threads[t].rep, MaxAge).val) + Lifetime

\* The cache does not grow with time: threads that miss together may each add an answer
\* to the same request, but none adds a second one as long as the first is there.
OneEntryEach ==
  \A i, j \in DOMAIN cache :
    i # j /\ CacheMatch(cache[i].req, cache[j].req) => cache[i].by # cache[j].by

---------------------------------------------------------------------------
(* What comments say and the code does not *)

\* msg.cc:457: messages are encoded "according to the CoAP specification", and so are read
\* as they were written.
EveryRequestRead ==
  \A t \in Sent : ~ TooLong(threads[t].req) => ReadBySlave(threads[t].req)

\* msg.cc:687: requests match for caching when "request method match".
SameMethod ==
  \A t \in Threads : threads[t].at = "served" => threads[t].asked.code = threads[t].req.code
============================================================================
