------------------------------- MODULE Lease -------------------------------
(***************************************************************************)
(* What an association between a slave and a master promises, whoever      *)
(* keeps it and however its end is detected: a holder has it for the term  *)
(* of the last grant at most, a grant to the holder starts a new term, and *)
(* it goes from a holder to another one only by being given up.            *)
(***************************************************************************)
EXTENDS Integers

CONSTANTS Holders, None, Terms

VARIABLES
  holder,   \* who has the lease, or None
  left      \* what is left of its term

leaseVars == <<holder, left>>

LeaseInit == holder = None /\ left = 0

Grant(h, term) ==
  /\ holder \in {None, h}
  /\ holder' = h
  /\ left' = term

Hold ==
  /\ holder # None
  /\ holder' = holder
  /\ left' \in 1..left

Release ==
  /\ holder' = None
  /\ left' = 0

LeaseNext == Hold \/ Release \/ \E h \in Holders, term \in Terms : Grant(h, term)

Spec == LeaseInit /\ [][LeaseNext]_leaseVars
===========================================================================
