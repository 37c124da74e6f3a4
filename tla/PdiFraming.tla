------------------------------ MODULE PdiFraming ------------------------------
(***************************************************************************)
(* PDI packets on a byte stream.  PdiReq puts a payload in a frame          *)
(* (pdi/pdi_req.py): SOP, the payload with every special byte preceded by   *)
(* a stuff byte, a checksum, EOP.  The PdiListener thread (pdi_listener.py) *)
(* cuts the bytes it is offered back into frames, and PdiReq takes the     *)
(* stuff bytes out again.                                                  *)
(*                                                                         *)
(* The stream may be joined in the middle of a frame.  The two ends run at  *)
(* their own pace: bytes arrive one by one, between any two scans of the    *)
(* listener, which is the finest cutting of the stream into packets.        *)
(***************************************************************************)
EXTENDS Integers, Sequences, SequencesExt

CONSTANTS
  SOP, STF, EOP, \* the special bytes (0xD1, 0xDE, 0xDF)
  Payloads,      \* the payloads sent
  MaxFrames      \* bound on the frames sent

Byte == 0 .. 255
Special == {SOP, STF, EOP}

ASSUME FramingAssumption ==
  /\ Special \subseteq Byte /\ SOP # STF /\ STF # EOP /\ SOP # EOP
  /\ Payloads \subseteq (Seq(Byte) \ {<<>>})
  /\ MaxFrames \in Nat

\* What one more stuff byte does to the checksum: 0xD1, 0xDE and 0xDF are chosen so that
\* a checksum that would be special is not any more (_calculate_checksum looks once).
ASSUME FillerAssumption == \A b \in Special : (b - STF) % 256 \notin Special

-----------------------------------------------------------------------------
(* Packing and unpacking *)

\* Each is computed byte by byte: f[n] is what it is after n of them.
Sums(s) == LET f[n \in 0 .. Len(s)] == IF n = 0 THEN 0 ELSE f[n - 1] + s[n] IN f
Sum(s) == Sums(s)[Len(s)]
Complement(n) == (0 - n) % 256

\* A checksum that would be a special byte is avoided with one more stuff byte.
Filler(s) == IF Complement(Sum(s)) \in Special THEN <<STF>> ELSE <<>>

Packed(b) == IF b \in Special THEN <<STF, b>> ELSE <<b>>
Stuffing(payload) ==
  LET f[n \in 0 .. Len(payload)] == IF n = 0 THEN <<>> ELSE f[n - 1] \o Packed(payload[n])
  IN  f
Stuff(payload) == Stuffing(payload)[Len(payload)]

Frame(payload) ==
  LET stuffed == Stuff(payload)
      body == stuffed \o Filler(stuffed)
  IN  <<SOP>> \o body \o <<Complement(Sum(body)), EOP>>

\* A received stuff byte is dropped, unless the byte before it was one too.
Unpacked(acc, b) ==
  IF b = STF /\ acc.last # STF
  THEN [out |-> acc.out, last |-> b]
  ELSE [out |-> Append(acc.out, b), last |-> b]
Unstuffing(body) ==
  LET f[n \in 0 .. Len(body)] ==
        IF n = 0 THEN [out |-> <<>>, last |-> -1] ELSE Unpacked(f[n - 1], body[n])
  IN  f
Unstuff(body) == Unstuffing(body)[Len(body)].out

\* Frame(payload) for each.
Frames == [p \in Payloads |-> Frame(p)]

Body(frame) == SubSeq(frame, 2, Len(frame) - 2)

ChecksumOk(frame) ==
  LET body == Body(frame)
  IN  frame[Len(frame) - 1] = Complement(Sum(body \o Filler(body)))

-----------------------------------------------------------------------------
(* The stream and the listener *)

VARIABLES
  sent,    \* the payloads sent, in order
  wire,    \* bytes sent that have not arrived
  bytes,   \* _deque
  eopPos,  \* eop_pos, counted from 1: 0 when no stuffed EOP has been passed
  framesOffered  \* frames given to PdiReq.from_bytes, in order

frameVars == <<sent, wire, bytes, eopPos, framesOffered>>

\* The connection is made before, after or in the middle of a frame.
FrameInit ==
  /\ sent = <<>> /\ bytes = <<>> /\ eopPos = 0 /\ framesOffered = <<>>
  /\ wire \in UNION {Suffixes(Frames[p]) : p \in Payloads}

FrameSend ==
  /\ Len(sent) < MaxFrames
  /\ \E p \in Payloads :
       /\ sent' = Append(sent, p)
       /\ wire' = wire \o Frames[p]
  /\ UNCHANGED <<bytes, eopPos, framesOffered>>

FrameArrive ==
  /\ wire # <<>>
  /\ bytes' = Append(bytes, Head(wire))
  /\ wire' = Tail(wire)
  /\ UNCHANGED <<sent, eopPos, framesOffered>>

\* deque.index(PDI_EOP, eop_pos + 1), or 0 when there is none yet.
NextEop == SelectInSubSeq(bytes, eopPos + 1, Len(bytes), LAMBDA b : b = EOP)

AtSop == bytes # <<>> /\ Head(bytes) = SOP

MutStuffed(p) == FALSE
Stuffed(p) == p > 2 /\ bytes[p - 1] = STF

\* An EOP that is part of the data: look further.
PassStuffedEop ==
  /\ AtSop /\ NextEop # 0 /\ Stuffed(NextEop)
  /\ eopPos' = NextEop
  /\ UNCHANGED <<sent, wire, bytes, framesOffered>>

\* A whole frame, taken off the stream and parsed.
OfferFrame ==
  /\ AtSop /\ NextEop > 2 /\ ~ Stuffed(NextEop)
  /\ framesOffered' = Append(framesOffered, SubSeq(bytes, 1, NextEop))
  /\ bytes' = SubSeq(bytes, NextEop + 1, Len(bytes))
  /\ eopPos' = 0
  /\ UNCHANGED <<sent, wire>>

\* The tail of a frame whose beginning was missed, or SOP EOP with nothing inside.
SkipByte ==
  /\ bytes # <<>>
  /\ AtSop => NextEop = 2
  /\ bytes' = Tail(bytes)
  /\ eopPos' = 0
  /\ UNCHANGED <<sent, wire, framesOffered>>

Scan == PassStuffedEop \/ OfferFrame \/ SkipByte
FrameNext == FrameSend \/ FrameArrive \/ Scan
FrameSpec == FrameInit /\ [][FrameNext]_frameVars

-----------------------------------------------------------------------------
(* Properties *)

FrameTypeOK ==
  /\ sent \in Seq(Payloads)
  /\ wire \in Seq(Byte) /\ bytes \in Seq(Byte) /\ framesOffered \in Seq(Seq(Byte))
  /\ eopPos \in 0 .. Len(bytes)
  /\ eopPos > 0 => AtSop /\ bytes[eopPos] = EOP /\ bytes[eopPos - 1] = STF

Sent == [i \in 1 .. Len(sent) |-> Frames[sent[i]]]

\* What the listener offers is what was sent: the frames, whole and in order,
\* after at most one fragment left by joining the stream in the middle.  No stuffed
\* SOP or EOP cuts a frame, no two frames are joined, wherever the stream is cut.
FramesIntact ==
  \/ IsPrefix(framesOffered, Sent)
  \/ framesOffered # <<>> /\ IsPrefix(Tail(framesOffered), Sent)

\* The listener has nothing left to do but wait for more bytes.
ListenerWaits == bytes = <<>> \/ (AtSop /\ NextEop = 0)

\* Nothing stays behind: when all bytes have arrived and the listener waits, every
\* frame sent has been offered and the deque is empty.
\* A stale eop_pos that hides the end of a frame would leave one there.
AllFramesOffered ==
  wire = <<>> /\ ListenerWaits =>
    /\ bytes = <<>>
    /\ Len(framesOffered) \in {Len(sent), Len(sent) + 1}

\* Every frame as packed passes the checksum of the receiving side, with and
\* without the extra stuff byte, so that only the fragment can be refused.
ChecksumsMatch ==
  sent # <<>> => LET f == Last(Sent) IN ChecksumOk(f) /\ f[Len(f) - 1] \notin Special

\* Two stuff bytes that belong to different pairs meet when an STF in the payload is
\* followed by another special byte or by the filler.
Ambiguous(payload) ==
  LET s == Stuff(payload)
      next(i) == IF i = Len(payload) THEN Filler(s) # <<>> ELSE payload[i + 1] \in Special
  IN  \E i \in 1 .. Len(payload) : payload[i] = STF /\ next(i)

\* A payload in which that does not happen is unpacked as it was packed.
LoneStuffBytesRoundTrip ==
  sent # <<>> /\ ~ Ambiguous(Last(sent)) => Unstuff(Body(Last(Sent))) = Last(sent)

\* Unpacking strips the stuff bytes of what packing put in: the docstring of
\* _calculate_checksum, pdi_req.py:112-113.
RoundTrips ==
  \A i \in 1 .. Len(sent) : Unstuff(Body(Sent[i])) = sent[i]

\* What PdiReq packs comes out of the listener as it went in, but for the payloads
\* that RoundTrips is about.
FrameSafety ==
  FramesIntact /\ AllFramesOffered /\ ChecksumsMatch /\ LoneStuffBytesRoundTrip
=============================================================================
