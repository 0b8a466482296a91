----------------------------- MODULE XBeeFrame -----------------------------
(***************************************************************************)
(* The serial line between the C++ master and its XBee module (l2-154.cc): *)
(* bytes come in pieces that have nothing to do with frames, after some    *)
(* that belong to no frame; l2net_154::recv finds the frames, checks them, *)
(* and returns the packets that are among them.                            *)
(*                                                                         *)
(* A frame is a start byte, a length on two bytes, that many bytes of data *)
(* (the first is its type) and a checksum.  The data of a packet begin     *)
(* with a header of five bytes, and the length is not compared with it.    *)
(* Bytes are smaller than Base instead of 256, so that TLC can try every   *)
(* line.                                                                   *)
(***************************************************************************)
EXTENDS Integers, Sequences, FiniteSets

CONSTANTS
  Base,      \* 256
  Start,     \* XBEE_START
  MinFrame,  \* XBEE_MIN_FRAME_SIZE, with all its fields
  MaxFrame,  \* XBEE_MAX_FRAME_SIZE, the data only
  RxShort,   \* RX_SHORT, type of the frames that hold a packet
  Header,    \* 5, the data of a packet before its payload
  BufLen,    \* BUFLEN
  MaxRead,   \* bound: bytes that a read returns
  MaxLine    \* bound: bytes on the line

ASSUME XBeeAssumption ==
  /\ {Base, MinFrame, MaxFrame, MaxRead} \subseteq Nat \ {0}
  /\ {Start, RxShort} \subseteq 0..(Base - 1)
  /\ MinFrame > 3
  /\ BufLen \in Nat /\ BufLen > MinFrame /\ BufLen > MaxFrame + 4
  /\ {Header, MaxLine} \subseteq Nat

VARIABLES
  buffer,     \* buffer_, up to pbuffer_
  framelist,  \* framelist_
  found,      \* found_at_least_one
  pc,         \* what recv is doing
  line,       \* all the bytes that came on the line
  packets     \* the packets that recv has returned

vars == <<buffer, framelist, found, pc, line, packets>>

Byte == 0..(Base - 1)

---------------------------------------------------------------------------
(* Frames at the beginning of a sequence of bytes *)

Length(b) == b[2] * Base + b[3]

PktLen(b) == Length(b) + 4

\* Mutant of FrameOf: the type is read on two bytes.
FrameOfWide(b) == [type |-> b[4] * Base + b[5], data |-> SubSeq(b, 4, Length(b) + 3)]

\* What is kept of a frame.  The type is the first byte of data, or the checksum if there
\* is no data.  Data are the header and the payload of a packet; those of other frames are
\* only looked at, if at all.
FrameOf(b) == [type |-> b[4], data |-> SubSeq(b, 4, Length(b) + 3)]

\* The sum of the bytes of data
Sum(data) ==
  LET sum[i \in 0..Len(data)] == IF i = 0 THEN 0 ELSE (sum[i - 1] + data[i]) % Base
  IN  sum[Len(data)]

ComputeChecksum(b) == (Base - 1) - Sum(FrameOf(b).data)

\* A packet whose payload, the data after the header, has a negative length
Short(b) == FrameOf(b).type = RxShort /\ Length(b) < Header

DropFirst(b, n) == SubSeq(b, n + 1, Len(b))

---------------------------------------------------------------------------
(* The loop of is_frame_complete, one iteration at a time, which has skipped  *)
(* bytes before a start byte and is left with b.                              *)

\* The first start byte of the buffer, if there is one
FirstStart(i) == buffer[i] = Start /\ \A j \in 1..(i - 1) : buffer[j] # Start

\* What the buffer becomes when it begins there: one sequence, or none.
Aligned == {DropFirst(buffer, i - 1) : i \in {i \in DOMAIN buffer : FirstStart(i)}}

\* Mutant of Unlikely: any length is accepted.
UnlikelyNever(b) == FALSE

Unlikely(b) == Length(b) > MaxFrame

\* There are enough bytes to tell whether b begins with a frame.
Enough(b) == Len(b) >= MinFrame /\ (PktLen(b) <= Len(b) \/ Unlikely(b))

Wrong(b) == ComputeChecksum(b) # b[PktLen(b)]

Valid(b) == ~ Unlikely(b) /\ ~ Wrong(b)

\* No start byte: the buffer is emptied.
ScanJunk ==
  /\ pc = "scan" /\ Aligned = {}
  /\ buffer' = << >>
  /\ pc' = IF found THEN "extract" ELSE "read"
  /\ UNCHANGED <<framelist, found, line, packets>>

\* Some bytes are needed.
ScanIncomplete ==
  /\ pc = "scan"
  /\ \E b \in Aligned : ~ Enough(b) /\ buffer' = b
  /\ pc' = IF found THEN "extract" ELSE "read"
  /\ UNCHANGED <<framelist, found, line, packets>>

\* Mutant of ScanSkips: all the bytes that made no frame are skipped.
ScanSkipsAll ==
  /\ pc = "scan"
  /\ \E b \in Aligned :
        /\ Enough(b) /\ ~ Valid(b)
        /\ buffer' = DropFirst(b, IF Unlikely(b) THEN MinFrame ELSE PktLen(b))
  /\ UNCHANGED <<framelist, found, pc, line, packets>>

\* It was not the start of a frame: only this byte is skipped.
ScanSkips ==
  /\ pc = "scan"
  /\ \E b \in Aligned : Enough(b) /\ ~ Valid(b) /\ buffer' = DropFirst(b, 1)
  /\ UNCHANGED <<framelist, found, pc, line, packets>>

\* Mutant of ScanExtracts: as many bytes are removed as there are data.
ScanExtractsData ==
  /\ pc = "scan"
  /\ \E b \in Aligned :
        /\ Enough(b) /\ Valid(b) /\ ~ Short(b)
        /\ framelist' = Append(framelist, FrameOf(b))
        /\ buffer' = DropFirst(b, Length(b))
  /\ found' = TRUE
  /\ UNCHANGED <<pc, line, packets>>

\* A frame is complete: extract_frame_to_list.
ScanExtracts ==
  /\ pc = "scan"
  /\ \E b \in Aligned :
        /\ Enough(b) /\ Valid(b) /\ ~ Short(b)
        /\ framelist' = Append(framelist, FrameOf(b))
        /\ buffer' = DropFirst(b, PktLen(b))
  /\ found' = TRUE
  /\ UNCHANGED <<pc, line, packets>>

\* The payload is copied before anything else is done: memcpy takes its negative length
\* for a huge one.
ScanCrashes ==
  /\ pc = "scan"
  /\ \E b \in Aligned : Enough(b) /\ Valid(b) /\ Short(b)
  /\ pc' = "crashed"
  /\ UNCHANGED <<buffer, framelist, found, line, packets>>

---------------------------------------------------------------------------
(* recv and read_complete_frame *)

\* read, which waits for bytes, then returns some of them
ReadBytes ==
  /\ pc = "read"
  /\ \E n \in 1..MaxRead : n <= BufLen - Len(buffer) /\ n <= MaxLine - Len(line) /\
       \E bytes \in [1..n -> Byte] :
         /\ buffer' = buffer \o bytes
         /\ line' = line \o bytes
  /\ pc' = "scan"
  /\ UNCHANGED <<framelist, found, packets>>

IsPacket(f) == f.type = RxShort

PacketAt(i) == IsPacket(framelist[i]) /\ \A j \in 1..(i - 1) : ~ IsPacket(framelist[j])

\* extract_received_packet: the first packet of the list is returned by recv, which
\* is called again; the frames that are none stay in the list.
ExtractPacket ==
  /\ pc = "extract"
  /\ \E i \in DOMAIN framelist :
       /\ PacketAt(i)
       /\ packets' = Append(packets, framelist[i])
       /\ framelist' = SubSeq(framelist, 1, i - 1) \o DropFirst(framelist, i)
  /\ UNCHANGED <<buffer, found, pc, line>>

\* Mutant of NoPacket: recv reads before it has returned all the packets.
NoPacketFirst ==
  /\ pc = "extract"
  /\ \A i \in DOMAIN framelist : IsPacket(framelist[i]) => i > 1
  /\ found' = FALSE
  /\ pc' = "read"
  /\ UNCHANGED <<buffer, framelist, line, packets>>

\* There is none: read_complete_frame.
NoPacket ==
  /\ pc = "extract"
  /\ \A i \in DOMAIN framelist : ~ IsPacket(framelist[i])
  /\ found' = FALSE
  /\ pc' = "read"
  /\ UNCHANGED <<buffer, framelist, line, packets>>

Init ==
  /\ buffer = << >> /\ framelist = << >>
  /\ found = FALSE
  /\ pc = "extract"
  /\ line = << >> /\ packets = << >>

\* recv, but for the arrival of bytes
Work == ScanJunk \/ ScanIncomplete \/ ScanSkips \/ ScanExtracts \/ ScanCrashes
        \/ ExtractPacket \/ NoPacket

Next == Work \/ ReadBytes

Spec == Init /\ [][Next]_vars

---------------------------------------------------------------------------
(* What recv promises *)

Frame == [type : Byte, data : Seq(Byte)]

\* Type invariant.
TypeOK ==
  /\ buffer \in Seq(Byte)
  /\ framelist \in Seq(Frame) /\ packets \in Seq(Frame)
  /\ found \in BOOLEAN
  /\ pc \in {"read", "scan", "extract", "crashed"}
  /\ line \in Seq(Byte)

\* "We should never reach the end of this buffer": what is kept between two reads is
\* the beginning of one frame that looks right, so that there is always room to
\* read, without which read would return nothing for ever.
RoomToRead == pc = "read" => Len(buffer) < BufLen

\* recv does not wait for bytes while it has a packet to return.
NoPacketWaits == pc = "read" => \A i \in DOMAIN framelist : ~ IsPacket(framelist[i])

\* What the whole line holds, whatever the pieces it came in: a position holds a
\* frame if it starts like one, ends on the line, has the right checksum, and is not
\* inside a frame that holds an earlier position.  Positions that some open frame
\* comes before are not known yet.
From(p) == DropFirst(line, p - 1)

Open(p) == line[p] = Start /\ ~ Enough(From(p))

Holds ==
  LET valid(p) == line[p] = Start /\ Enough(From(p)) /\ Valid(From(p))
      holds[p \in DOMAIN line] ==
        valid(p) /\ \A q \in 1..(p - 1) : holds[q] => p >= q + PktLen(From(q))
  IN  {p \in DOMAIN line : holds[p]}

Inside(p) == \E q \in Holds : q < p /\ p < q + PktLen(From(q))

Known == {p \in Holds : \A q \in 1..(p - 1) : Open(q) => Inside(q)}

PacketPositions == {p \in Known : line[p + 3] = RxShort}

\* No frame is lost, invented or repeated: between two reads, recv has returned the
\* packets of the line, in their order, and nothing else.
PacketsOfLine ==
  pc = "read" =>
    /\ Len(packets) = Cardinality(PacketPositions)
    /\ \A p \in PacketPositions :
         packets[Cardinality({q \in PacketPositions : q <= p})] = FrameOf(From(p))

\* Only a packet of the line that is shorter than its header ends the master: no other
\* line, and nothing that is not a frame, makes it copy a payload of a negative length.
CrashIsShortPacket ==
  pc = "crashed" =>
    \E p \in Known : line[p + 3] = RxShort /\ Length(From(p)) < Header
===========================================================================
