---------------------------- MODULE Association ----------------------------
(***************************************************************************)
(* The association of one slave with the C++ master of its network: the    *)
(* slave of CasanSlave, the part of the master that associates it, and a   *)
(* network between them that loses, duplicates, delays and reorders        *)
(* frames.  Both may crash and start again without any memory.             *)
(*                                                                         *)
(* A frame that is sent is in flight for some time, during which it may be *)
(* received any number of times, or never.  Dates are kept as what is left *)
(* until them.  The sender thread and the receiver thread of the master    *)
(* are punctual here, and the sender works when it has something to do;    *)
(* CMasterEngine says what becomes of this when they interleave or are     *)
(* late.  The dates of Hellos and of retransmissions are left out: a Hello *)
(* is sent at any time, an Assoc is sent again within MAX_TRANSMIT_SPAN.   *)
(***************************************************************************)
EXTENDS Integers

CONSTANTS
  Master, Nobody,          \* L2 addresses
  HelloIds,                \* values of the hello-id, the start date modulo 1000
  Ttl,                     \* init_ttl_ of the slave in the configuration
  SlaveMtu, MasterMtu,     \* defmtu_ of the slave, and the one the master has for it
  Ids,                     \* message ids of the Assocs
  MaxRetransmit,           \* MAX_RETRANSMIT
  Span,                    \* MAX_TRANSMIT_SPAN
  Processing,              \* PROCESSING_DELAY
  Latency,                 \* maxlatency() of the network
  MaxRestarts,             \* bound: restarts, the crashes of the master left aside
  WaitStart, WaitInc, WaitIncMax, WaitMax, RenewMin, MaxGap   \* see CasanSlave

ASSUME AssociationAssumption ==
  /\ {Ttl, SlaveMtu, MasterMtu, MaxRetransmit, Span, Processing, Latency} \subseteq Nat \ {0}
  /\ MaxRestarts \in Nat \ {0}
  /\ Latency < Ttl

\* What CasanSlave assumes: TTLs of at least 2 follow from the above.
ASSUME SlaveAssumption ==
  /\ {WaitStart, WaitInc, WaitIncMax, WaitMax, RenewMin, MaxGap} \subseteq Nat \ {0}
  /\ Nobody # Master
  /\ HelloIds \subseteq Nat

VARIABLES
  slave, out,  \* as in CasanSlave
  since,       \* time since the last call of loop()
  master,      \* the C++ master
  assocs,      \* the Assocs, of which mlist_ holds those listed
  net,         \* for each frame, for how long it still is in flight
  restarts     \* number of restarts of the slave or of the master, up to the bound

vars == <<slave, out, since, master, assocs, net, restarts>>

Slave ==
  INSTANCE CasanSlave WITH
    Masters <- {Master}, Ttls <- {Ttl}, Mtus <- 1..MasterMtu, DefMtu <- SlaveMtu,
    Observables <- {}, NoDereg <- {}, Tokens <- {"none"}, MaxSerial <- 0

---------------------------------------------------------------------------
(* The network *)

Discover  == [kind |-> "discover"]
Hello(h)  == [kind |-> "hello", hlid |-> h]
Assoc(i)  == [kind |-> "assoc", id |-> i]
Answer(i) == [kind |-> "answer", id |-> i]

Frames ==
  {Discover} \cup {Hello(h) : h \in HelloIds} \cup {Assoc(i) : i \in Ids}
    \cup {Answer(i) : i \in Ids}

InFlight(f) == net[f] > 0
Emit(frames) == [f \in Frames |-> IF f \in frames THEN Latency ELSE net[f]]

---------------------------------------------------------------------------
(* The slave *)

\* find_peer: the MTU of the slave for the master, which an Assoc carries.  The
\* master learns it with the address, from a Discover, which announces SlaveMtu.
Negotiated == IF SlaveMtu > MasterMtu THEN MasterMtu ELSE SlaveMtu

\* What loop() makes of a frame; the master's own frames are nothing to it.
AssocInput(i) == [frame |-> Assoc(i), in |-> Slave!Assoc(Master, Ttl, Negotiated)]
HelloInput(h) == [frame |-> Hello(h), in |-> Slave!Hello(Master, h)]

Inputs == {AssocInput(i) : i \in Ids} \cup {HelloInput(h) : h \in HelloIds}

DiscoverSent == IF out'.discovers = << >> THEN {} ELSE {Discover}

\* A call of loop() that receives nothing.
SlaveIdles ==
  /\ Slave!Loop(since, Slave!Nothing)
  /\ net' = Emit(DiscoverSent)
  /\ since' = 0
  /\ UNCHANGED <<master, assocs, restarts>>

\* A call of loop() that receives a frame; an Assoc Answer has the id of the Assoc.
SlaveReceives(r) ==
  /\ InFlight(r.frame)
  /\ Slave!Loop(since, r.in)
  /\ net' = Emit(DiscoverSent \cup IF out'.answers = {} THEN {} ELSE {Answer(r.frame.id)})
  /\ since' = 0
  /\ UNCHANGED <<master, assocs, restarts>>

SlaveRestarts ==
  /\ restarts < MaxRestarts
  /\ restarts' = restarts + 1
  /\ slave' = Slave!ColdSlave
  /\ out' = Slave!Quiet
  /\ since' = 0
  /\ UNCHANGED <<master, assocs, net>>

---------------------------------------------------------------------------
(* The master.  known: the address of the slave is not null *)

Inactive(h) == [up |-> TRUE, hlid |-> h, status |-> "INACTIVE", known |-> FALSE, left |-> 0]

\* EXCHANGE_LIFETIME
Lifetime == Span + 2 * Latency + Processing

NoAssoc == [listed |-> FALSE, ntrans |-> 0, expire |-> 0, answered |-> FALSE]

\* slave::process_casan for an Assoc Answer.
Associated == [master EXCEPT !.status = "RUNNING", !.left = Ttl]

Sendable(m) ==
  /\ m.listed /\ ~ m.answered /\ m.ntrans < MaxRetransmit
  /\ m.ntrans > 0 => m.expire >= Lifetime - Span

SendHello ==
  /\ master.up
  /\ net' = Emit({Hello(master.hlid)})
  /\ UNCHANGED <<slave, out, since, master, assocs, restarts>>

\* The sender resets the slave whose TTL is over: slave::reset.
Lapsed == master.status = "RUNNING" /\ master.left <= 0

Lapse ==
  /\ master.up /\ Lapsed
  /\ master' = Inactive(master.hlid)
  /\ UNCHANGED <<slave, out, since, assocs, net, restarts>>

\* msg::send for an Assoc, which ends the process when the slave has been reset.
Transmit(i) ==
  /\ master.up /\ ~ Lapsed /\ Sendable(assocs[i])
  /\ IF master.known
     THEN /\ assocs' = [assocs EXCEPT ![i].ntrans = @ + 1,
                                      ![i].expire = IF assocs[i].ntrans = 0 THEN Lifetime ELSE @]
          /\ net' = Emit({Assoc(i)})
          /\ UNCHANGED master
     ELSE /\ master' = [master EXCEPT !.up = FALSE]
          /\ UNCHANGED <<assocs, net>>
  /\ UNCHANGED <<slave, out, since, restarts>>

\* The sender removes an expired Assoc from mlist_, at its next iteration.
Purge(i) ==
  /\ master.up /\ assocs[i].listed
  /\ assocs[i].ntrans > 0 /\ assocs[i].expire < 0
  /\ assocs' = [assocs EXCEPT ![i] = NoAssoc]
  /\ UNCHANGED <<slave, out, since, master, net, restarts>>

\* find_peer and process_casan for a Discover, which sets the address if there is
\* none, and adds an Assoc to mlist_.  Bound: a Discover that comes when all the ids
\* are in use is lost.
ReceiveDiscover ==
  /\ master.up /\ InFlight(Discover)
  /\ \E i \in Ids :
       /\ ~ assocs[i].listed
       /\ assocs' = [assocs EXCEPT ![i] = [NoAssoc EXCEPT !.listed = TRUE]]
  /\ master' = [master EXCEPT !.known = TRUE]
  /\ UNCHANGED <<slave, out, since, net, restarts>>

\* correlate, link_reqrep, stop_retransmit and process_casan for an Assoc Answer:
\* it counts if it comes from a known address, and if it is the first one.  An Assoc
\* has an id once it is encoded, when it is sent for the first time.
ReceiveAnswer(i) ==
  /\ master.up /\ master.known /\ InFlight(Answer(i))
  /\ assocs[i].listed /\ assocs[i].ntrans > 0 /\ ~ assocs[i].answered
  /\ assocs' = [assocs EXCEPT ![i].answered = TRUE]
  /\ master' = Associated
  /\ UNCHANGED <<slave, out, since, net, restarts>>

\* The master starts, with a new hello-id unless it is unlucky with its start date,
\* and with message ids that begin again with the first one, whatever is in flight.
Start ==
  /\ \E h \in HelloIds : master' = Inactive(h)
  /\ assocs' = [i \in Ids |-> NoAssoc]
  /\ UNCHANGED <<slave, out, since>>

StartAfterCrash ==
  /\ ~ master.up
  /\ restarts' = IF restarts < MaxRestarts THEN restarts + 1 ELSE restarts
  /\ Start
  /\ UNCHANGED net

MasterRestarts ==
  /\ master.up
  /\ restarts < MaxRestarts
  /\ restarts' = restarts + 1
  /\ Start
  /\ UNCHANGED net

---------------------------------------------------------------------------

\* Time passes when the master has reset a slave whose TTL is over and sent the new
\* Assocs, and when loop() is called often enough.
Tick ==
  /\ since < MaxGap
  /\ master.up => ~ Lapsed /\ \A i \in Ids : assocs[i].listed => assocs[i].ntrans > 0
  /\ since' = since + 1
  /\ master' = [master EXCEPT !.left = IF @ > 0 THEN @ - 1 ELSE 0]
  /\ assocs' = [i \in Ids |->
       IF assocs[i].listed /\ assocs[i].expire >= 0
       THEN [assocs[i] EXCEPT !.expire = @ - 1] ELSE assocs[i]]
  /\ net' = [f \in Frames |-> IF net[f] > 0 THEN net[f] - 1 ELSE 0]
  /\ UNCHANGED <<slave, out, restarts>>

Init ==
  /\ Slave!Init
  /\ since = 0
  /\ \E h \in HelloIds : master = Inactive(h)
  /\ assocs = [i \in Ids |-> NoAssoc]
  /\ net = [f \in Frames |-> 0]
  /\ restarts = 0

Sender == Lapse \/ \E i \in Ids : Transmit(i) \/ Purge(i)

Next ==
  \/ SlaveIdles \/ (\E r \in Inputs : SlaveReceives(r)) \/ SlaveRestarts
  \/ SendHello \/ Sender
  \/ ReceiveDiscover \/ (\E i \in Ids : ReceiveAnswer(i))
  \/ StartAfterCrash \/ MasterRestarts
  \/ Tick

Spec == Init /\ [][Next]_vars

SlaveLoops == SlaveIdles \/ \E r \in Inputs : SlaveReceives(r)

\* Time passes, the slave and the sender thread run, a master that has crashed is
\* started again, and a frame that is sent again and again is received in the end;
\* nothing is assumed of Hellos, which may all be lost.
FairSpec ==
  /\ Spec
  /\ SF_vars(Tick) /\ WF_vars(SlaveLoops) /\ WF_vars(StartAfterCrash)
  /\ WF_vars(Lapse) /\ SF_vars(ReceiveDiscover)
  /\ \A i \in Ids :
       /\ WF_vars(Transmit(i)) /\ WF_vars(Purge(i))
       /\ SF_vars(SlaveReceives(AssocInput(i))) /\ SF_vars(ReceiveAnswer(i))

---------------------------------------------------------------------------
(* What the association promises *)

\* Type invariant.
TypeOK ==
  /\ slave \in Slave!SlaveType
  /\ since \in 0..MaxGap
  /\ master \in [up : BOOLEAN, hlid : HelloIds, status : {"INACTIVE", "RUNNING"},
                 known : BOOLEAN, left : 0..Ttl]
  /\ assocs \in [Ids -> [listed : BOOLEAN, ntrans : 0..MaxRetransmit, expire : -1..Lifetime,
                         answered : BOOLEAN]]
  /\ net \in [Frames -> 0..Latency]
  /\ restarts \in 0..MaxRestarts

\* Whatever the network does with Assocs, and whoever restarts, the slave holds its
\* association as a lease, which no old, repeated or reordered Assoc makes longer
\* than the TTL of the master.
AssociationIsLease == Slave!AssociationIsLease

\* As long as nobody restarts, the slave is associated whenever the master believes
\* it is, and what is left of its TTL is what the master believes, but for the
\* latency of the answer: renewals, Assocs sent again and Hellos do not separate them.
LeaseBacked ==
  restarts = 0 /\ master.status = "RUNNING" /\ master.left > Latency =>
    /\ slave.status \in Slave!Associated
    /\ slave.trenew.limit - since >= master.left - Latency

\* Whatever is lost and whoever restarts, the slave and the master find each other
\* again, as long as they restart, or crash, a finite number of times.
Reassociation ==
  \/ []<>(master.status = "RUNNING" /\ slave.status \in Slave!Associated)
  \/ []<>(~ master.up)

---------------------------------------------------------------------------
(* What a comment says and the code does not *)

\* casan.h:94: curmtu_ is the "current (negociated) MTU".  An associated slave forgets
\* it at the first Hello it hears, and then sends more than the master receives.
MtuKept == slave.status \in Slave!Associated => slave.curmtu <= MasterMtu
===========================================================================
