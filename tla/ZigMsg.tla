------------------------------- MODULE ZigMsg -------------------------------
(***************************************************************************)
(* The 802.15.4 radio of a slave: the interrupt routines of the radio, the *)
(* circular buffer they share with the class ZigMsg, and the program that  *)
(* uses it (l2net_154, from one call of Casan::loop to the next).          *)
(*                                                                         *)
(* An interrupt routine is not interrupted, and comes between any two      *)
(* steps of the program but inside of noInterrupts.  The program reads a   *)
(* frame in place, in the buffer, until its next call of recv: what it     *)
(* sees is what the buffer holds all along.                                *)
(***************************************************************************)
EXTENDS Integers, Sequences

CONSTANTS
  Size,      \* msgbufsize_
  Frames,    \* frames received, or what a frame with a bad CRC leaves
  None,      \* NULL
  MaxSends   \* bound: frames sent between two calls of recv

ASSUME ZigAssumption ==
  /\ Size \in Nat \ {0}
  /\ None \notin Frames \cup Nat
  /\ MaxSends \in Nat

VARIABLES
  rbuffer,    \* the frames of rbuffer_
  rbuffirst,  \* rbuffirst_
  rbuflast,   \* rbuflast_
  rxframe,    \* radiostatus.rxframe: where the radio puts the next frame
  overrun,    \* the last frame was counted in rx_overrun
  radio,      \* radiostatus.state, and what the radio is doing
  writing,    \* writing_
  pc,         \* the program
  curframe,   \* curframe_: where in rbuffer_ is the frame it reads
  held,       \* what get_received found there
  sends       \* what the program still has to send before its next recv

ring == <<rbuffer, rbuffirst, rbuflast, rxframe, overrun>>
program == <<pc, curframe, held, sends>>
vars == <<ring, radio, writing, program>>

Indices == 0..(Size - 1)

---------------------------------------------------------------------------
(* Interrupts *)

\* Mutant of Succ: the position is not brought back to the beginning.
SuccUnbounded(i) == i + 1

Succ(i) == (i + 1) % Size

\* There is no room for another frame.
Overrun == Succ(rbuflast) = rbuffirst

\* TRX24_RX_END: radio_receive_frame copies the frame, then it_receive_frame makes
\* room for the next one, unless there is none or the CRC is bad.
ItReceiveFrame(f, crcFail) ==
  /\ radio = "RXAUTO"
  /\ rbuffer' = [rbuffer EXCEPT ![rxframe] = f]
  /\ \/ /\ crcFail \/ Overrun
        /\ UNCHANGED <<rbuflast, rxframe>>
     \/ /\ ~ crcFail /\ ~ Overrun
        /\ rbuflast' = Succ(rbuflast)
        /\ rxframe' = Succ(rbuflast)
  /\ overrun' = (~ crcFail /\ Overrun)
  /\ UNCHANGED <<rbuffirst, radio, writing, program>>

\* TRX24_TX_END, whatever the outcome: it_tx_done, then the idle state.
ItTxDone ==
  /\ radio = "TRANSMITTING"
  /\ writing' = FALSE
  /\ radio' = "OFF"
  /\ UNCHANGED <<ring, program>>

---------------------------------------------------------------------------
(* l2net_154::recv *)

\* Mutant of SkipReceived: the previous call may have found nothing.
SkipAny ==
  /\ pc = "recv"
  /\ pc' = "get"
  /\ rbuffirst' = IF rbuffirst # rbuflast THEN Succ(rbuffirst) ELSE rbuffirst
  /\ curframe' = None
  /\ held' = None
  /\ UNCHANGED <<rbuffer, rbuflast, rxframe, overrun, radio, writing, sends>>

\* skip_received, if the previous call found a frame
SkipReceived ==
  /\ pc = "recv"
  /\ pc' = "get"
  /\ rbuffirst' = IF curframe # None /\ rbuffirst # rbuflast THEN Succ(rbuffirst) ELSE rbuffirst
  /\ curframe' = None
  /\ held' = None
  /\ UNCHANGED <<rbuffer, rbuflast, rxframe, overrun, radio, writing, sends>>

\* Mutants of GetReceived: a frame of an unknown type is not given to the program,
\* which will not release it; the place of the frame is released at once.
GetKnown ==
  /\ pc = "get"
  /\ \/ UNCHANGED <<curframe, held>>
     \/ /\ rbuffirst # rbuflast
        /\ curframe' = rbuffirst
        /\ held' = rbuffer[rbuffirst]
  /\ sends' \in 0..MaxSends
  /\ pc' = "process"
  /\ UNCHANGED <<ring, radio, writing>>

GetAndRelease ==
  /\ pc = "get"
  /\ \/ /\ rbuffirst = rbuflast
        /\ UNCHANGED <<rbuffirst, curframe, held>>
     \/ /\ rbuffirst # rbuflast
        /\ curframe' = rbuffirst
        /\ held' = rbuffer[rbuffirst]
        /\ rbuffirst' = Succ(rbuffirst)
  /\ sends' \in 0..MaxSends
  /\ pc' = "process"
  /\ UNCHANGED <<rbuffer, rbuflast, rxframe, overrun, radio, writing>>

\* get_received: a frame is decoded where it is.
GetReceived ==
  /\ pc = "get"
  /\ \/ /\ rbuffirst = rbuflast
        /\ UNCHANGED <<curframe, held>>
     \/ /\ rbuffirst # rbuflast
        /\ curframe' = rbuffirst
        /\ held' = rbuffer[rbuffirst]
  /\ sends' \in 0..MaxSends
  /\ pc' = "process"
  /\ UNCHANGED <<ring, radio, writing>>

\* The engine is done with the frame.
Processed ==
  /\ pc = "process" /\ sends = 0
  /\ pc' = "recv"
  /\ UNCHANGED <<ring, radio, writing, curframe, held, sends>>

---------------------------------------------------------------------------
(* ZigMsg::sendto.  Assumption: radio_set_state returns in the state it was    *)
(* asked for.  It tries 140 times, "enough to await an ongoing frame           *)
(* reception" (radio_rfa.c:286), then reports to an empty usr_radio_error and  *)
(* returns as if the radio had changed: that path is not in the model.         *)

SetTxAuto ==
  /\ pc = "process" /\ sends > 0
  /\ sends' = sends - 1
  /\ radio' = "TXAUTO"
  /\ pc' = "prepare"
  /\ UNCHANGED <<ring, writing, curframe, held>>

StartWriting ==
  /\ pc = "prepare"
  /\ writing' = TRUE
  /\ pc' = "send"
  /\ UNCHANGED <<ring, radio, curframe, held, sends>>

RadioSendFrame ==
  /\ pc = "send"
  /\ radio' = "TRANSMITTING"
  /\ pc' = "wait"
  /\ UNCHANGED <<ring, writing, curframe, held, sends>>

\* Mutant of SetRxAuto: the idle state of the radio is left as it is.
NoRxAuto ==
  /\ pc = "wait" /\ writing = FALSE
  /\ pc' = "process"
  /\ UNCHANGED <<ring, radio, writing, curframe, held, sends>>

\* The busy wait ends, and frames are received again.
SetRxAuto ==
  /\ pc = "wait" /\ writing = FALSE
  /\ radio' = "RXAUTO"
  /\ pc' = "process"
  /\ UNCHANGED <<ring, writing, curframe, held, sends>>

---------------------------------------------------------------------------

\* start
Init ==
  /\ rbuffer \in [Indices -> Frames]
  /\ rbuffirst = 0 /\ rbuflast = 0 /\ rxframe = 0
  /\ overrun = FALSE
  /\ radio = "RXAUTO"
  /\ writing = FALSE
  /\ pc = "recv"
  /\ curframe = None /\ held = None
  /\ sends = 0

Program ==
  \/ SkipReceived \/ GetReceived \/ Processed
  \/ SetTxAuto \/ StartWriting \/ RadioSendFrame \/ SetRxAuto

Next ==
  \/ \E f \in Frames, crcFail \in BOOLEAN : ItReceiveFrame(f, crcFail)
  \/ ItTxDone
  \/ Program

Spec == Init /\ [][Next]_vars

\* The program runs (interrupts do not keep it from running for ever), and each
\* transmission ends.
FairSpec == Spec /\ WF_vars(Program) /\ WF_vars(ItTxDone)

---------------------------------------------------------------------------
(* What the radio promises *)

\* Type invariant.
TypeOK ==
  /\ rbuffer \in [Indices -> Frames]
  /\ {rbuffirst, rbuflast, rxframe} \subseteq Indices
  /\ overrun \in BOOLEAN
  /\ radio \in {"RXAUTO", "TXAUTO", "TRANSMITTING", "OFF"}
  /\ writing \in BOOLEAN
  /\ pc \in {"recv", "get", "process", "prepare", "send", "wait"}
  /\ curframe \in Indices \cup {None}
  /\ held \in Frames \cup {None}
  /\ sends \in 0..MaxSends

\* "such that a newly received message does not overwrite the frame": whatever
\* arrives, with a good or a bad CRC, and however full the buffer is, the frame that
\* the program reads in place is the one it was given, until it asks for another.
FrameKept == curframe # None => rbuffer[curframe] = held

\* Between two transmissions the radio receives: neither the wait for the end of a
\* transmission nor the interrupt that ends it leaves the slave deaf.
Listening == pc \in {"recv", "get", "process"} => radio = "RXAUTO" /\ writing = FALSE

\* The frames in the buffer, in order.
Waiting == (rbuflast - rbuffirst) % Size

Queue == [k \in 1..Waiting |-> rbuffer[(rbuffirst + k - 1) % Size]]

Fifo == INSTANCE FrameQueue WITH
  Capacity <- Size - 1, queue <- Queue, reading <- held, refused <- overrun

\* The buffer is a queue of Size - 1 frames: each frame is read before its place is
\* released, in order and once, and none is refused while there is room.
BufferIsQueue == Fifo!Spec

\* Each frame in the buffer is handed over in the end, and the program never waits
\* for ever in sendto.
FrameProcessed ==
  \A i \in Indices : rbuffirst = i /\ rbuffirst # rbuflast ~> rbuffirst # i
===========================================================================
