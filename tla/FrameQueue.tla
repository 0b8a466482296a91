----------------------------- MODULE FrameQueue -----------------------------
(***************************************************************************)
(* What a receive buffer promises to the code that reads it: a queue of    *)
(* frames, read in the order of their arrival, each once, and a frame is   *)
(* refused only when the queue is full.  The frame at the head stays there *)
(* while it is being read.                                                 *)
(***************************************************************************)
EXTENDS Sequences, Naturals

CONSTANTS Frames, None, Capacity

VARIABLES
  queue,   \* the frames that were accepted and have not been removed
  reading, \* the frame that is being read, or None
  refused  \* the last arrival was refused

queueVars == <<queue, reading, refused>>

QueueInit == queue = << >> /\ reading = None /\ refused = FALSE

Accept(f) ==
  /\ Len(queue) < Capacity
  /\ queue' = Append(queue, f)
  /\ refused' = FALSE
  /\ UNCHANGED reading

Refuse ==
  /\ Len(queue) = Capacity
  /\ refused' = TRUE
  /\ UNCHANGED <<queue, reading>>

\* The head is read where it is...
Read ==
  /\ queue # << >> /\ reading = None
  /\ reading' = Head(queue)
  /\ UNCHANGED <<queue, refused>>

\* ... and removed once this is done.
Remove ==
  /\ queue # << >> /\ reading = Head(queue)
  /\ queue' = Tail(queue)
  /\ reading' = None
  /\ UNCHANGED refused

\* An arrival that is damaged is not one.
Damaged == refused' = FALSE /\ UNCHANGED <<queue, reading>>

Spec == QueueInit /\ [][Refuse \/ Read \/ Remove \/ Damaged \/ \E f \in Frames : Accept(f)]_queueVars
===========================================================================
