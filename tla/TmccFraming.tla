----------------------------- MODULE TmccFraming -----------------------------
(***************************************************************************)
(* comm/command_listener.py, CommandListener.run: the bytes of the SER2,   *)
(* of the server or of the Base are cut into commands of 3, 7, 9, 21 or    *)
(* 3 * (5 + n) bytes by looking ahead in a deque.  A reader thread appends *)
(* chunks (comm/serial_reader.py); the listener takes commands off.        *)
(*                                                                         *)
(* A byte is what the listener can tell about it: "F" starts a Legacy      *)
(* command (0xF8, 0xF9), "T" a TMCC1 command (0xFE), "M" is the multibyte  *)
(* prefix 0xFB, "V" the index of a command of variable length (0x6F), "0"  *)
(* is 0x00 or 0x01, "1" a count of one data word, "." is any other byte.   *)
(***************************************************************************)
EXTENDS Naturals, Sequences, SequencesExt

CONSTANTS TmccKinds,  \* the kinds of commands that are sent
          SplitKinds, \* kinds whose bytes may arrive in two chunks
          TmccSends   \* bound: commands sent

ASSUME TmccConstants == SplitKinds \subseteq TmccKinds /\ TmccSends \in Nat

VARIABLES
  tSent,    \* commands whose first bytes have arrived, in order
  tRest,    \* bytes of the last one still to arrive
  tDeque,   \* _deque
  tIs4,     \* is_tmcc4, a variable of run that outlives the command
  tOffered, \* commands given to the dispatcher
  tPlace    \* "run", or "wait": the listener waits to be notified

tmccVars == << tSent, tRest, tDeque, tIs4, tOffered, tPlace >>

Dots(n) == [i \in 1 .. n |-> "."]
Word == << "M", ".", "." >>

\* the byte strings of the protocol; a TMCC1 command for an engine 1, 2 or 3 has a
\* second byte of 0x00 or 0x01, like a Legacy command with a four-digit address
BytesOf(kind) ==
  CASE kind = "legacy" -> << "F", ".", "." >>
    [] kind = "tmcc1" -> << "T", ".", "." >>
    [] kind = "tmcc1 low" -> << "T", "0", "." >>
    [] kind = "legacy4" -> << "F", "0", "." >> \o Dots(4)
    [] kind = "multi" -> << "F", ".", "." >> \o Word \o Word
    [] kind = "multi4" -> << "F", "0", "." >> \o Dots(4) \o Word \o Dots(4) \o Word \o Dots(4)
    [] kind = "variable" -> << "F", ".", "V", "M", ".", "1" >> \o Word \o Word \o Word \o Word

TmccTypeOK ==
  /\ tSent \in Seq(TmccKinds) /\ Len(tSent) <= TmccSends
  /\ tDeque \in Seq({"F", "T", "M", "V", "0", "1", "."}) /\ tIs4 \in BOOLEAN
  /\ tPlace \in {"run", "wait"} /\ (tPlace = "wait" => tDeque = << >>)

\* the stream is joined in the middle: bytes of an earlier command may be left
TmccInit ==
  /\ tSent = << >> /\ tRest = << >> /\ tIs4 = FALSE
  /\ \E n \in 0 .. 2 : tDeque = Dots(n)
  /\ tOffered = << >> /\ tPlace = "run"

-----------------------------------------------------------------------------
\* CommandListener.offer, with _cv: a chunk is appended and the listener notified
Arrive(kind) ==
  /\ Len(tSent) < TmccSends /\ tRest = << >>
  /\ tSent' = Append(tSent, kind) /\ tPlace' = "run"
  /\ \E n \in IF kind \in SplitKinds THEN DOMAIN BytesOf(kind) ELSE {Len(BytesOf(kind))} :
       /\ tDeque' = tDeque \o SubSeq(BytesOf(kind), 1, n)
       /\ tRest' = SubSeq(BytesOf(kind), n + 1, Len(BytesOf(kind)))
  /\ UNCHANGED << tIs4, tOffered >>

ArriveRest ==
  /\ tRest # << >>
  /\ tDeque' = tDeque \o tRest /\ tRest' = << >> /\ tPlace' = "run"
  /\ UNCHANGED << tSent, tIs4, tOffered >>

-----------------------------------------------------------------------------
\* One pass of run.  Positions count from 0 in the code and from 1 here
Has(n) == Len(tDeque) >= n
FirstByte == Has(1) /\ tDeque[1] \in {"F", "T"}
Multi == Has(9) /\ tDeque[4] = "M" /\ tDeque[7] = "M"
Multi4 == Has(21) /\ tDeque[8] = "M" /\ tDeque[15] = "M"
Variable == Has(9) /\ tDeque[3] = "V"

\* the count of data words; any other byte stands for a large one (a printable digit)
DataWords == IF tDeque[6] = "1" THEN 1 ELSE 48

MaybeMulti == Has(4) /\ tDeque[4] = "M"

\* as if four-digit addresses were not looked for
MutFourDigits == FALSE

\* after the three bytes: the second says that four digits follow, and they are here
FourDigits == Has(7) /\ tDeque[2] = "0"

\* how many bytes the pass takes off; 0 when it waits for more
CommandLength ==
  IF Multi \/ Multi4
    THEN IF Variable THEN IF Has((5 + DataWords) * 3) THEN (5 + DataWords) * 3 ELSE 0
         ELSE IF Multi THEN 9 ELSE 21
  ELSE IF MaybeMulti THEN 0
  ELSE IF FourDigits THEN 7 ELSE 3

\* is_tmcc4 once these bytes have been taken
Sets4 == (Multi4 /\ ~Multi /\ ~Variable) \/ (~Multi /\ ~Multi4 /\ FourDigits)

\* CommandReq.from_bytes: a four-digit command must start with a Legacy prefix
Understood(is4) == tDeque[1] = "F" \/ ~is4

\* as if is_tmcc4 stayed set when a command has been built
MutAfterOffer(is4) == is4

\* reset only when from_bytes did not raise
AfterOffer(is4) == IF Understood(is4) THEN FALSE ELSE is4

Cut ==
  /\ tPlace = "run" /\ Has(3) /\ FirstByte /\ CommandLength > 0
  /\ LET is4 == tIs4 \/ Sets4
     IN /\ tOffered' = IF Understood(is4)
                         THEN Append(tOffered, SubSeq(tDeque, 1, CommandLength)) ELSE tOffered
        /\ tIs4' = AfterOffer(is4)
  /\ tDeque' = SubSeq(tDeque, CommandLength + 1, Len(tDeque))
  /\ UNCHANGED << tSent, tRest, tPlace >>

\* a byte that starts no command is dropped
IgnoreByte ==
  /\ tPlace = "run" /\ Has(3) /\ ~FirstByte
  /\ tDeque' = Tail(tDeque)
  /\ UNCHANGED << tSent, tRest, tIs4, tOffered, tPlace >>

\* an empty deque: wait until a chunk is offered.  With too few bytes the loop spins
AwaitBytes ==
  /\ tPlace = "run" /\ tDeque = << >> /\ tPlace' = "wait"
  /\ UNCHANGED << tSent, tRest, tDeque, tIs4, tOffered >>

ListenerStep == Cut \/ IgnoreByte \/ AwaitBytes

TmccNext == (\E kind \in TmccKinds : Arrive(kind)) \/ ArriveRest \/ ListenerStep

\* the listener's thread runs, and bytes that are on the line arrive
TmccSpec == TmccInit /\ [][TmccNext]_tmccVars
                     /\ WF_tmccVars(ListenerStep) /\ WF_tmccVars(ArriveRest)

-----------------------------------------------------------------------------
\* properties
SentBytes == [i \in DOMAIN tSent |-> BytesOf(tSent[i])]

\* The listener gives the dispatcher the commands that were sent: none is cut short,
\* joined with its neighbour or dropped, whatever stands behind it in the deque.
CommandsComeOutWhole == IsPrefix(tOffered, SentBytes)

\* No command stays in the deque once its last byte is there.
CommandsComeOut == Len(tOffered) < Len(tSent) ~> Len(tOffered) = Len(tSent)

\* What CommandsComeOut rests on: a command that has arrived and was not offered keeps the
\* listener running, and the next pass takes something off the deque.
CommandsCanBeCut ==
  tRest = << >> /\ Len(tOffered) < Len(tSent) =>
    tPlace = "run" /\ Has(3) /\ (FirstByte => CommandLength > 0)
=============================================================================
