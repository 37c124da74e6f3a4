------------------------------ MODULE Base3Link ------------------------------
(***************************************************************************)
(* pdi/base3_buffer.py: the thread that owns the connection to the Base 3. *)
(* Senders put packets into a bounded queue; the thread waits for the      *)
(* queue or the socket to be readable, splits a multibyte command into     *)
(* parts that it puts back into its own queue, writes everything else, and *)
(* asks the data base of the Base to follow (sync_state).  A broken pipe   *)
(* puts the packet back and reconnects; other errors of the socket only    *)
(* reconnect.  A keep-alive packet is queued every two seconds.            *)
(***************************************************************************)
EXTENDS Naturals, Sequences, SequencesExt

CONSTANTS LinkPlain,    \* commands of one packet
          LinkMulti,    \* multibyte commands, sent as LinkParts packets
          LinkParts,
          LinkCap,      \* size of the send queue (4096 in the code)
          LinkTries,    \* keep_trying (10 in the code)
          LinkHangUps   \* bound: how often the Base hangs up

ASSUME LinkConstants == /\ LinkParts \in Nat \ {0, 1} /\ LinkCap \in Nat \ {0}
                        /\ LinkTries \in Nat \ {0} /\ LinkHangUps \in Nat
                        /\ LinkPlain \cap LinkMulti = {}
                        /\ {"keep alive", "none"} \cap (LinkPlain \cup LinkMulti) = {}

VARIABLES
  lQueue,     \* _send_queue, a sequence of packets
  lPc,        \* run: "connect", "test", "select", "took", "split", "sync", "done", "raised", "dead"
  lSending,   \* the packet in the thread's hands, or NoPacket
  lNext,      \* the next part of a multibyte command to queue
  lTries,     \* keep_trying
  lRunning,   \* _is_running
  lUp,        \* the Base accepts connections
  lConnected, \* the Base still serves this connection
  lHangUps,   \* hang-ups so far
  lSent,      \* what has reached the Base, in order, without keep-alives
  lLost,      \* packets given up after an error other than a broken pipe
  lAsked,     \* commands that senders have handed over
  lPiped      \* a packet has been put back after a broken pipe

linkVars == << lQueue, lPc, lSending, lNext, lTries, lRunning, lUp, lConnected,
               lHangUps, lSent, lLost, lAsked, lPiped >>

LinkCommands == LinkPlain \cup LinkMulti
Whole(c) == [cmd |-> c, part |-> 0]
Part(c, i) == [cmd |-> c, part |-> i]
KeepAlive == [cmd |-> "keep alive", part |-> 0]
NoPacket == [cmd |-> "none", part |-> 0]
Packets == [cmd : LinkCommands \cup {"keep alive"}, part : 0 .. LinkParts]

LinkTypeOK ==
  /\ lQueue \in Seq(Packets) /\ Len(lQueue) <= LinkCap
  /\ lPc \in {"connect", "test", "select", "took", "split", "sync", "done", "raised", "dead"}
  /\ lSending \in Packets \cup {NoPacket} /\ lNext \in 1 .. LinkParts + 1
  /\ lTries \in 0 .. LinkTries /\ lHangUps \in 0 .. LinkHangUps
  /\ lRunning \in BOOLEAN /\ lUp \in BOOLEAN /\ lConnected \in BOOLEAN /\ lPiped \in BOOLEAN
  /\ lSent \in Seq(Packets) /\ lLost \subseteq Packets
  /\ lAsked \subseteq LinkCommands

LinkInit ==
  /\ lQueue = << >> /\ lPc = "connect" /\ lSending = NoPacket /\ lNext = 1
  /\ lTries = LinkTries /\ lRunning = TRUE /\ lUp = TRUE /\ lConnected = FALSE
  /\ lHangUps = 0 /\ lSent = << >> /\ lLost = {} /\ lAsked = {} /\ lPiped = FALSE

senders == << lAsked >>
world == << lUp, lConnected, lHangUps >>
record == << lSent, lLost, lPiped >>

-----------------------------------------------------------------------------
\* Senders.  put blocks, with _send_cv held, while the queue is full: nothing changes
LinkRoom == Len(lQueue) < LinkCap

LinkSend(c) ==
  /\ c \notin lAsked /\ LinkRoom
  /\ lQueue' = Append(lQueue, Whole(c)) /\ lAsked' = lAsked \cup {c}
  /\ UNCHANGED << lPc, lSending, lNext, lTries, lRunning, world, record >>

\* KeepAlive.run never stops; one keep-alive at most waits in the queue (a bound)
SendKeepAlive ==
  /\ ~Contains(lQueue, KeepAlive) /\ LinkRoom
  /\ lQueue' = Append(lQueue, KeepAlive)
  /\ UNCHANGED << lPc, lSending, lNext, lTries, lRunning, senders, world, record >>

LinkShutdown ==
  /\ lRunning /\ lRunning' = FALSE
  /\ UNCHANGED << lQueue, lPc, lSending, lNext, lTries, senders, world, record >>

-----------------------------------------------------------------------------
\* The Base
HangUp ==
  /\ lUp /\ lHangUps < LinkHangUps
  /\ lUp' = FALSE /\ lConnected' = FALSE /\ lHangUps' = lHangUps + 1
  /\ UNCHANGED << lQueue, lPc, lSending, lNext, lTries, lRunning, senders, record >>

ComeBack ==
  /\ ~lUp /\ lUp' = TRUE
  /\ UNCHANGED << lQueue, lPc, lSending, lNext, lTries, lRunning, lConnected, lHangUps,
                  senders, record >>

-----------------------------------------------------------------------------
\* Base3Buffer.run
Retrying == lTries > 0

\* an OSError: one try less, and at the last one the exception ends the thread
Failed == /\ lTries' = lTries - 1
          /\ lPc' = IF lTries = 1 THEN "raised" ELSE "connect"

Connect ==
  /\ lPc = "connect"
  /\ IF ~lRunning \/ ~Retrying THEN lPc' = "done" /\ UNCHANGED << lTries, lConnected >>
     ELSE IF lUp THEN lPc' = "test" /\ lConnected' = TRUE /\ UNCHANGED lTries
     ELSE Failed /\ UNCHANGED lConnected
  /\ UNCHANGED << lQueue, lSending, lNext, lRunning, lUp, lHangUps, senders, record >>

\* the inner loop's test; then select sleeps until the queue or the socket is readable
LinkTest ==
  /\ lPc = "test" /\ lPc' = IF lRunning THEN "select" ELSE "done"
  /\ UNCHANGED << lQueue, lSending, lNext, lTries, lRunning, senders, world, record >>

\* the queue is readable.  A packet of nine bytes or more may be a command to split
LinkTake ==
  /\ lPc = "select" /\ lQueue # << >>
  /\ lQueue' = Tail(lQueue) /\ lSending' = Head(lQueue) /\ lNext' = 1
  /\ lPc' = IF \E c \in LinkMulti : Head(lQueue) = Whole(c) THEN "split" ELSE "took"
  /\ UNCHANGED << lTries, lRunning, senders, world, record >>

\* as if the last part were left out
MutSplitShort ==
  /\ lPc = "split"
  /\ IF lNext < LinkParts
       THEN /\ LinkRoom /\ lQueue' = Append(lQueue, Part(lSending.cmd, lNext))
            /\ lNext' = lNext + 1 /\ UNCHANGED lPc
       ELSE lPc' = "sync" /\ UNCHANGED << lQueue, lNext >>
  /\ UNCHANGED << lSending, lTries, lRunning, senders, world, record >>
\* _packetize_multibyte_cmds: the parts go through the same queue, then sync_state
Split ==
  /\ lPc = "split"
  /\ IF lNext <= LinkParts
       THEN /\ LinkRoom /\ lQueue' = Append(lQueue, Part(lSending.cmd, lNext))
            /\ lNext' = lNext + 1 /\ UNCHANGED lPc
       ELSE lPc' = "sync" /\ UNCHANGED << lQueue, lNext >>
  /\ UNCHANGED << lSending, lTries, lRunning, senders, world, record >>

\* sendall succeeds while the Base serves the connection
Write ==
  /\ lPc = "took" /\ lConnected
  /\ lSent' = IF lSending = KeepAlive THEN lSent ELSE Append(lSent, lSending)
  /\ lPc' = "sync"
  /\ UNCHANGED << lQueue, lSending, lNext, lTries, lRunning, senders, world, lLost, lPiped >>

\* as if the packet were only logged
MutBrokenPipe ==
  /\ lPc = "took" /\ ~lConnected
  /\ lPiped' = TRUE
  /\ lTries' = lTries - 1 /\ lPc' = "connect" /\ lSending' = NoPacket
  /\ UNCHANGED << lQueue, lNext, lRunning, senders, world, lSent, lLost >>
\* BrokenPipeError: put the packet back, then leave the inner loop
BrokenPipe ==
  /\ lPc = "took" /\ ~lConnected /\ LinkRoom
  /\ lQueue' = Append(lQueue, lSending) /\ lPiped' = TRUE
  /\ lTries' = lTries - 1 /\ lPc' = "connect" /\ lSending' = NoPacket
  /\ UNCHANGED << lNext, lRunning, senders, world, lSent, lLost >>

\* another OSError (a reset): the packet is gone, the outer handler counts the failure
Reset ==
  /\ lPc = "took" /\ ~lConnected
  /\ lLost' = lLost \cup ({lSending} \ {KeepAlive}) /\ lSending' = NoPacket /\ Failed
  /\ UNCHANGED << lQueue, lNext, lRunning, senders, world, lSent, lPiped >>

\* sync_state of the command, and keep_trying = 10 after a pass without an error.
\* A part of a multibyte command is no command: its ValueError is ignored
Sync ==
  /\ lPc = "sync"
  /\ lSending' = NoPacket /\ lTries' = LinkTries /\ lPc' = "test"
  /\ UNCHANGED << lQueue, lNext, lRunning, senders, world, record >>

\* the socket is readable because the Base has hung up: recv returns nothing
EndOfStream ==
  /\ lPc = "select" /\ ~lConnected
  /\ lTries' = LinkTries /\ lPc' = "test"
  /\ UNCHANGED << lQueue, lSending, lNext, lRunning, senders, world, record >>

\* recv returns a packet: log.is_enabled_for is no method of a Logger, and nothing
\* catches the AttributeError
Receive ==
  /\ lPc = "select" /\ lConnected
  /\ lPc' = "dead"
  /\ UNCHANGED << lQueue, lSending, lNext, lTries, lRunning, senders, world, record >>

LinkStep == \/ Connect \/ LinkTest \/ LinkTake \/ Split \/ Write \/ BrokenPipe \/ Reset
            \/ Sync \/ EndOfStream

LinkNext == \/ \E c \in LinkCommands : LinkSend(c)
            \/ SendKeepAlive \/ LinkShutdown \/ HangUp \/ ComeBack \/ LinkStep \/ Receive

\* the threads run; the Base comes back; nothing else has to happen.  The queue is
\* served again and again although an ended stream is always readable
LinkSpec == /\ LinkInit /\ [][LinkNext]_linkVars
            /\ WF_linkVars(LinkStep) /\ SF_linkVars(LinkTake)
            /\ WF_linkVars(SendKeepAlive) /\ WF_linkVars(ComeBack)

-----------------------------------------------------------------------------
\* properties
LinkEnded == lPc \in {"done", "raised", "dead"}
Sendable(p) == Contains(lQueue, p) \/ lSending = p
OnItsWay(p) == Sendable(p) \/ Contains(lSent, p) \/ p \in lLost

\* A packet that could not be written because the pipe broke is sent again, not
\* dropped: what senders handed over is queued, in hand, sent, or lost by a reset.
NothingDropped ==
  \A c \in lAsked :
    \/ c \in LinkPlain /\ OnItsWay(Whole(c))
    \/ c \in LinkMulti /\ \/ Sendable(Whole(c))
                          \/ \A i \in 1 .. LinkParts : OnItsWay(Part(c, i))

\* As long as no packet had to be put back, the parts of a multibyte command reach
\* the Base in their order, and no part of another multibyte command in between.
NextPart(p, q) == q = IF p.part < LinkParts THEN Part(p.cmd, p.part + 1) ELSE Part(q.cmd, 1)

PartsStayTogether ==
  ~lPiped /\ lLost = {} =>
    \A i, j \in 1 .. Len(lSent) :
      i < j /\ lSent[i].part > 0 /\ lSent[j].part > 0
        /\ (\A k \in i + 1 .. j - 1 : lSent[k].part = 0) => NextPart(lSent[i], lSent[j])

\* A command handed over reaches the Base, unless the thread has ended or been told
\* to, or a reset took a packet of it.
CommandsReachTheBase ==
  lAsked # {} ~> \/ LinkEnded \/ ~lRunning
                 \/ \A c \in lAsked : \/ Contains(lSent, Whole(c))
                                     \/ Contains(lSent, Part(c, LinkParts))
                                     \/ \E p \in lLost : p.cmd = c

\* shutdown only clears a flag; the next keep-alive makes the thread look at it.
ShutdownEndsLink == ~lRunning ~> LinkEnded

\* "Send and receive PDI command packets to/from a Lionel Base 3": a packet received
\* does not end the thread.  The code does not keep this.
ReceivingGoesOn == lPc # "dead"

\* The packets between the senders and the Base (Base3Buffer.send, run): none is
\* dropped and those of one command stay together.
PacketsAreKept == NothingDropped /\ PartsStayTogether

\* The thread of the link never stops serving, until it is told to and then soon.
LinkServes == CommandsReachTheBase /\ ShutdownEndsLink
=============================================================================
