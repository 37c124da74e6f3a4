-------------------------- MODULE ServerLinkProofs ---------------------------
(*****************************************************************************)
(* Theorems about the server's ways out: Base3Link, for any commands and any *)
(* number of parts; ClientRegistry, for any sessions, repetitions and        *)
(* restarts; CommandQueue, for any commands and any size of the queue, with  *)
(* and without a SER2.                                                       *)
(*****************************************************************************)
EXTENDS CommandQueue, Base3Link, ClientRegistry, FiniteSetTheorems, TLAPS

-----------------------------------------------------------------------------
(* The packets of a Base 3 (Base3Link)                                       *)

Wholes == {Whole(c) : c \in LinkMulti}
Working == {"took", "split", "sync"}

\* The packet in the thread's hands.
HandHeld ==
  /\ lPc \notin Working => lSending = NoPacket
  /\ lPc = "took" => lSending \in Packets \ Wholes
  /\ lPc = "split" => /\ lSending \in Wholes
                      /\ \A i \in 1 .. lNext - 1 : Contains(lQueue, Part(lSending.cmd, i))
  /\ lPc = "sync" =>
       \/ lSending = KeepAlive
       \/ lSending \in Packets \ Wholes /\ Contains(lSent, lSending)
       \/ lSending \in Wholes /\ \A i \in 1 .. LinkParts : Contains(lQueue, Part(lSending.cmd, i))
  /\ lPc \in Working \cup {"test", "select"} => lTries > 0

\* Everything between the Base and the end of the queue, in the order it is sent in.
BeingSent == IF lPc = "took" THEN << lSending >> ELSE << >>
Line == lSent \o BeingSent \o lQueue

Together(s) ==
  \A i, j \in 1 .. Len(s) :
    i < j /\ s[i].part > 0 /\ s[j].part > 0
      /\ (\A k \in i + 1 .. j - 1 : s[k].part = 0) => NextPart(s[i], s[j])
LastPart(s, i) == s[i].part > 0 /\ \A k \in i + 1 .. Len(s) : s[k].part = 0

\* The last part of the line is the last of its command, or the thread is splitting it.
Splitting == lPc = "split" /\ lNext > 1
Closed(p) == IF Splitting THEN p = Part(lSending.cmd, lNext - 1) ELSE p.part = LinkParts
PartsInLine == Together(Line) /\ \A i \in 1 .. Len(Line) : LastPart(Line, i) => Closed(Line[i])

LinkInvariant ==
  /\ LinkTypeOK /\ HandHeld /\ NothingDropped
  /\ ~lPiped /\ lLost = {} => PartsInLine

-----------------------------------------------------------------------------
(* Packets and queues                                                       *)

LEMMA LinkNumbers ==
  /\ LinkParts \in Nat /\ LinkParts > 1 /\ LinkCap \in Nat /\ LinkTries \in Nat /\ LinkTries > 0
  /\ LinkHangUps \in Nat
  /\ 0 \in 0 .. LinkParts /\ \A i \in 1 .. LinkParts : i \in 0 .. LinkParts /\ i # 0 /\ i > 0
<1>1. LinkParts \in Nat /\ LinkCap \in Nat /\ LinkTries \in Nat /\ LinkHangUps \in Nat
  BY LinkConstants
<1>2. LinkParts # 0 /\ LinkParts # 1 /\ LinkTries # 0
  BY LinkConstants
<1> QED
  BY <1>1, <1>2

LEMMA LinkNames ==
  LinkPlain \cap LinkMulti = {} /\ "keep alive" \notin LinkCommands /\ "none" \notin LinkCommands
BY LinkConstants DEF LinkCommands

LEMMA WholeFacts ==
  ASSUME NEW c \in LinkCommands
  PROVE  /\ Whole(c) \in Packets /\ Whole(c).part = 0 /\ Whole(c).cmd = c /\ Whole(c) # KeepAlive
         /\ Whole(c) \in Wholes <=> c \in LinkMulti
<1>1. Whole(c) \in Packets
  BY LinkNumbers DEF Whole, Packets
<1>2. Whole(c).cmd = c /\ Whole(c).part = 0 /\ KeepAlive.cmd = "keep alive"
  BY DEF Whole, KeepAlive
<1>3. Whole(c) # KeepAlive
  BY <1>2, LinkNames
<1>4. \A d : Whole(d).cmd = d
  BY DEF Whole
<1>5. Whole(c) \in Wholes <=> c \in LinkMulti
  BY <1>4 DEF Wholes
<1> QED
  BY <1>1, <1>2, <1>3, <1>5

LEMMA PartFacts ==
  ASSUME NEW c \in LinkCommands, NEW i \in 1 .. LinkParts
  PROVE  /\ Part(c, i) \in Packets \ Wholes /\ Part(c, i).part = i /\ Part(c, i).cmd = c
         /\ Part(c, i) # KeepAlive
<1>1. Part(c, i) \in Packets
  BY LinkNumbers DEF Part, Packets
<1>2. Part(c, i).part = i /\ Part(c, i).cmd = c /\ i # 0 /\ KeepAlive.part = 0
  BY LinkNumbers DEF Part, KeepAlive
<1>3. Part(c, i) \notin Wholes
  BY <1>2 DEF Wholes, Whole
<1> QED
  BY <1>1, <1>2, <1>3

LEMMA PacketFacts ==
  /\ KeepAlive \in Packets \ Wholes /\ KeepAlive.part = 0
  /\ NoPacket \notin Packets /\ NoPacket.part = 0
  /\ Wholes \subseteq Packets
  /\ \A p \in Packets : p.part \in 0 .. LinkParts
  /\ \A p \in Wholes : /\ p.part = 0 /\ p = Whole(p.cmd) /\ p # KeepAlive
                       /\ p.cmd \in LinkMulti /\ p.cmd \in LinkCommands
<1>1. KeepAlive \in Packets /\ KeepAlive.part = 0 /\ KeepAlive.cmd = "keep alive"
  BY LinkNumbers DEF KeepAlive, Packets
<1>2. \A c : Whole(c).cmd = c /\ Whole(c).part = 0
  BY DEF Whole
<1>3. LinkMulti \subseteq LinkCommands
  BY DEF LinkCommands
<1>4. \A p \in Wholes : /\ p.part = 0 /\ p = Whole(p.cmd) /\ p.cmd \in LinkMulti
                        /\ p.cmd \in LinkCommands
  BY <1>2, <1>3 DEF Wholes
<1>5. KeepAlive \notin Wholes
  BY <1>1, <1>4, LinkNames
<1>6. Wholes \subseteq Packets
  BY <1>3, WholeFacts DEF Wholes
<1>7. NoPacket \notin Packets /\ NoPacket.part = 0
  BY LinkNames DEF NoPacket, Packets
<1>8. \A p \in Packets : p.part \in 0 .. LinkParts
  BY DEF Packets
<1> QED
  BY <1>1, <1>4, <1>5, <1>6, <1>7, <1>8

LEMMA PutFacts ==
  ASSUME NEW s \in Seq(Packets), NEW p \in Packets
  PROVE  /\ Append(s, p) \in Seq(Packets) /\ Len(Append(s, p)) = Len(s) + 1 /\ Len(s) \in Nat
         /\ \A i \in 1 .. Len(s) : Append(s, p)[i] = s[i]
         /\ Append(s, p)[Len(s) + 1] = p
OBVIOUS

LEMMA Drop ==
  ASSUME NEW s \in Seq(Packets), s # << >>
  PROVE  /\ Tail(s) \in Seq(Packets) /\ Len(Tail(s)) = Len(s) - 1 /\ Len(s) \in Nat \ {0}
         /\ Head(s) = s[1] /\ Head(s) \in Packets
         /\ \A i \in 1 .. Len(Tail(s)) : Tail(s)[i] = s[i + 1]
OBVIOUS

LEMMA ContainsPut ==
  ASSUME NEW s \in Seq(Packets), NEW p \in Packets, NEW q
  PROVE  Contains(s, q) \/ q = p => Contains(Append(s, p), q)
<1>1. Len(s) + 1 \in 1 .. Len(s) + 1 /\ \A i \in 1 .. Len(s) : i \in 1 .. Len(s) + 1
  BY PutFacts
<1> QED
  BY <1>1, PutFacts DEF Contains

LEMMA ContainsDrop ==
  ASSUME NEW s \in Seq(Packets), s # << >>, NEW q, Contains(s, q)
  PROVE  q = Head(s) \/ Contains(Tail(s), q)
<1>1. PICK i \in 1 .. Len(s) : s[i] = q
  BY DEF Contains
<1>2. CASE i = 1
  BY <1>1, <1>2, Drop
<1>3. CASE i # 1
  <2>1. i - 1 \in 1 .. Len(Tail(s)) /\ Tail(s)[i - 1] = s[i]
    BY <1>1, <1>3, Drop
  <2> QED
    BY <1>1, <2>1 DEF Contains
<1> QED
  BY <1>2, <1>3

-----------------------------------------------------------------------------
(* Types, and what the thread has in its hands                              *)

LEMMA LinkTypeStep ==
  ASSUME LinkTypeOK, HandHeld, [LinkNext]_linkVars
  PROVE  LinkTypeOK' /\ HandHeld'
<1> USE LinkNumbers DEF LinkTypeOK, HandHeld, Working
<1>1. ASSUME NEW p \in Packets, lQueue' = Append(lQueue, p)
      PROVE  /\ lQueue' \in Seq(Packets) /\ Len(lQueue') = Len(lQueue) + 1
             /\ LinkRoom => Len(lQueue') <= LinkCap
             /\ \A q : Contains(lQueue, q) \/ q = p => Contains(lQueue', q)
  BY <1>1, PutFacts, ContainsPut DEF LinkRoom
<1>2. ASSUME NEW c \in LinkCommands, LinkSend(c) PROVE LinkTypeOK' /\ HandHeld'
  <2>1. Whole(c) \in Packets
    BY WholeFacts
  <2>2. /\ lQueue' \in Seq(Packets) /\ Len(lQueue') <= LinkCap
        /\ \A q : Contains(lQueue, q) => Contains(lQueue', q)
    BY <1>1, <1>2, <2>1 DEF LinkSend
  <2>3. UNCHANGED << lPc, lSending, lNext, lTries, lRunning, lUp, lConnected, lHangUps, lSent, lLost, lPiped >>
    BY <1>2 DEF LinkSend, world, record
  <2>4. lAsked' \subseteq LinkCommands
    BY <1>2 DEF LinkSend
  <2>5. LinkTypeOK'
    BY <2>2, <2>3, <2>4
  <2>6. HandHeld'
    BY <2>2, <2>3
  <2> QED
    BY <2>5, <2>6
<1>3. CASE SendKeepAlive
  <2>1. /\ lQueue' \in Seq(Packets) /\ Len(lQueue') <= LinkCap
        /\ \A q : Contains(lQueue, q) => Contains(lQueue', q)
    BY <1>1, <1>3, PacketFacts DEF SendKeepAlive
  <2>2. UNCHANGED << lPc, lSending, lNext, lTries, lRunning, lUp, lConnected, lHangUps, lSent,
                     lLost, lPiped, lAsked >>
    BY <1>3 DEF SendKeepAlive, world, record, senders
  <2>3. LinkTypeOK'
    BY <2>1, <2>2
  <2>4. HandHeld'
    BY <2>1, <2>2
  <2> QED
    BY <2>3, <2>4
<1>4. CASE LinkShutdown \/ HangUp \/ ComeBack
  <2>1. UNCHANGED << lQueue, lPc, lSending, lNext, lTries, lSent, lLost, lPiped, lAsked >>
    BY <1>4 DEF LinkShutdown, HangUp, ComeBack, world, record, senders
  <2>2. lRunning' \in BOOLEAN /\ lUp' \in BOOLEAN /\ lConnected' \in BOOLEAN
    BY <1>4 DEF LinkShutdown, HangUp, ComeBack, world
  <2>3. lHangUps' \in 0 .. LinkHangUps
    BY <1>4 DEF LinkShutdown, HangUp, ComeBack, world
  <2>4. LinkTypeOK'
    BY <2>1, <2>2, <2>3
  <2>5. HandHeld'
    BY <2>1
  <2> QED
    BY <2>4, <2>5
<1>5. CASE Connect
  <2>1. UNCHANGED << lQueue, lSending, lNext, lRunning, lUp, lHangUps, lSent, lLost, lPiped, lAsked >>
        /\ lSending = NoPacket
    BY <1>5 DEF Connect, record, senders
  <2>2. lConnected' \in BOOLEAN
    BY <1>5 DEF Connect
  <2>3. /\ lTries' \in 0 .. LinkTries /\ lPc' \in {"connect", "test", "done", "raised"}
        /\ lPc' = "test" => lTries' > 0
    BY <1>5 DEF Connect, Failed, Retrying
  <2>4. LinkTypeOK'
    BY <2>1, <2>2, <2>3
  <2>5. HandHeld'
    BY <2>1, <2>3
  <2> QED
    BY <2>4, <2>5
<1>6. CASE LinkTest \/ EndOfStream \/ Receive
  <2>1. UNCHANGED << lQueue, lSending, lNext, lRunning, lUp, lConnected, lHangUps, lSent, lLost,
                     lPiped, lAsked >> /\ lSending = NoPacket
    BY <1>6 DEF LinkTest, EndOfStream, Receive, world, record, senders
  <2>2. /\ lPc' \in {"select", "done", "test", "dead"} /\ lTries' \in {lTries, LinkTries}
        /\ lPc \in {"test", "select"}
    BY <1>6 DEF LinkTest, EndOfStream, Receive
  <2>3. LinkTypeOK'
    BY <2>1, <2>2
  <2>4. HandHeld'
    BY <2>1, <2>2
  <2> QED
    BY <2>3, <2>4
<1>7. CASE LinkTake
  <2>1. /\ lQueue # << >> /\ lQueue' = Tail(lQueue) /\ lSending' = Head(lQueue) /\ lNext' = 1
        /\ lPc' = IF \E c \in LinkMulti : Head(lQueue) = Whole(c) THEN "split" ELSE "took"
        /\ lPc = "select"
    BY <1>7 DEF LinkTake
  <2>2. UNCHANGED << lTries, lRunning, lUp, lConnected, lHangUps, lSent, lLost, lPiped, lAsked >>
    BY <1>7 DEF LinkTake, world, record, senders
  <2>3. /\ lQueue' \in Seq(Packets) /\ Len(lQueue') <= LinkCap /\ lSending' \in Packets
    BY <2>1, Drop
  <2>4. lPc' = IF lSending' \in Wholes THEN "split" ELSE "took"
    BY <2>1 DEF Wholes
  <2>5. LinkTypeOK'
    BY <2>1, <2>2, <2>3, <2>4
  <2>6. HandHeld'
    BY <2>1, <2>2, <2>3, <2>4
  <2> QED
    BY <2>5, <2>6
<1>8. CASE Split
  <2>1. /\ lPc = "split" /\ lSending \in Wholes /\ lSending.cmd \in LinkCommands
        /\ UNCHANGED << lSending, lTries, lRunning, lUp, lConnected, lHangUps, lSent, lLost, lPiped, lAsked >>
    BY <1>8, PacketFacts DEF Split, world, record, senders, LinkCommands
  <2>2. CASE lNext <= LinkParts
    <3>1. lNext \in 1 .. LinkParts /\ Part(lSending.cmd, lNext) \in Packets
      BY <2>1, <2>2, PartFacts
    <3>2. /\ lQueue' \in Seq(Packets) /\ Len(lQueue') <= LinkCap
          /\ \A q : Contains(lQueue, q) \/ q = Part(lSending.cmd, lNext) => Contains(lQueue', q)
          /\ lNext' = lNext + 1 /\ lPc' = lPc
      BY <1>1, <1>8, <2>2, <3>1 DEF Split
    <3>3. LinkTypeOK'
      BY <2>1, <2>2, <3>2
    <3>4. \A i \in 1 .. lNext' - 1 : i \in 1 .. lNext - 1 \/ i = lNext
      BY <3>1, <3>2
    <3>5. \A i \in 1 .. lNext' - 1 : Contains(lQueue', Part(lSending.cmd, i))
      BY <2>1, <3>2, <3>4
    <3> QED
      BY <2>1, <3>2, <3>3, <3>5
  <2>3. CASE ~(lNext <= LinkParts)
    <3>1. lPc' = "sync" /\ UNCHANGED << lQueue, lNext >>
      BY <1>8, <2>3 DEF Split
    <3>2. LinkTypeOK'
      BY <2>1, <3>1
    <3>3. \A i \in 1 .. LinkParts : i \in 1 .. lNext - 1
      BY <2>3
    <3> QED
      BY <2>1, <3>1, <3>2, <3>3
  <2> QED
    BY <2>2, <2>3
<1>9. CASE Write
  <2>1. /\ lPc = "took" /\ lPc' = "sync" /\ lSending \in Packets \ Wholes
        /\ lSent' = IF lSending = KeepAlive THEN lSent ELSE Append(lSent, lSending)
        /\ UNCHANGED << lQueue, lSending, lNext, lTries, lRunning, lUp, lConnected, lHangUps, lLost,
                        lPiped, lAsked >>
    BY <1>9 DEF Write, world, senders
  <2>2. lSent' \in Seq(Packets)
    BY <2>1, PutFacts
  <2>3. lSending = KeepAlive \/ Contains(lSent', lSending)
    BY <2>1, ContainsPut
  <2>4. LinkTypeOK'
    BY <2>1, <2>2
  <2>5. HandHeld'
    BY <2>1, <2>3
  <2> QED
    BY <2>4, <2>5
<1>10. CASE BrokenPipe
  <2>1. /\ lPc = "took" /\ lPc' = "connect" /\ lSending' = NoPacket /\ lSending \in Packets
        /\ lTries' = lTries - 1 /\ lTries > 0
        /\ UNCHANGED << lNext, lRunning, lUp, lConnected, lHangUps, lSent, lLost, lAsked >>
    BY <1>10 DEF BrokenPipe, world, senders
  <2>2. lQueue' \in Seq(Packets) /\ Len(lQueue') <= LinkCap
    BY <1>1, <1>10, <2>1 DEF BrokenPipe
  <2>3. lPiped' \in BOOLEAN
    BY <1>10 DEF BrokenPipe
  <2>4. LinkTypeOK'
    BY <2>1, <2>2, <2>3
  <2>5. HandHeld'
    BY <2>1
  <2> QED
    BY <2>4, <2>5
<1>11. CASE Reset
  <2>1. /\ lPc = "took" /\ lPc' \in {"raised", "connect"} /\ lSending' = NoPacket /\ lSending \in Packets
        /\ lTries' = lTries - 1 /\ lTries > 0
        /\ UNCHANGED << lQueue, lNext, lRunning, lUp, lConnected, lHangUps, lSent, lPiped, lAsked >>
    BY <1>11 DEF Reset, Failed, world, senders
  <2>2. lLost' \subseteq Packets
    BY <1>11, <2>1 DEF Reset
  <2>3. LinkTypeOK'
    BY <2>1, <2>2
  <2>4. HandHeld'
    BY <2>1
  <2> QED
    BY <2>3, <2>4
<1>12. CASE Sync
  <2>1. /\ lPc' = "test" /\ lSending' = NoPacket /\ lTries' = LinkTries
        /\ UNCHANGED << lQueue, lNext, lRunning, lUp, lConnected, lHangUps, lSent, lLost, lPiped, lAsked >>
    BY <1>12 DEF Sync, world, record, senders
  <2>2. LinkTypeOK'
    BY <2>1
  <2>3. HandHeld'
    BY <2>1
  <2> QED
    BY <2>2, <2>3
<1>13. CASE UNCHANGED linkVars
  BY <1>13 DEF linkVars
<1> QED
  BY <1>2, <1>3, <1>4, <1>5, <1>6, <1>7, <1>8, <1>9, <1>10, <1>11, <1>12, <1>13
     DEF LinkNext, LinkStep

-----------------------------------------------------------------------------
(* Nothing is dropped                                                       *)

\* What a step may not do to a packet on its way.
Kept == /\ \A p \in Packets \ Wholes : p # KeepAlive /\ OnItsWay(p) => OnItsWay(p)'
        /\ \A p \in Wholes : Sendable(p) =>
              Sendable(p)' \/ \A i \in 1 .. LinkParts : Contains(lQueue', Part(p.cmd, i))
        /\ \A c \in lAsked' : c \in lAsked \/ Contains(lQueue', Whole(c))

LEMMA KeptKeeps ==
  ASSUME LinkTypeOK, LinkTypeOK', NothingDropped, Kept
  PROVE  NothingDropped'
<1> SUFFICES ASSUME NEW c \in lAsked'
             PROVE  \/ c \in LinkPlain /\ OnItsWay(Whole(c))'
                    \/ c \in LinkMulti /\ \/ Sendable(Whole(c))'
                                          \/ \A i \in 1 .. LinkParts : OnItsWay(Part(c, i))'
  BY DEF NothingDropped, OnItsWay, Sendable
<1>1. c \in LinkCommands
  BY DEF LinkTypeOK
<1>2. CASE Contains(lQueue', Whole(c))
  BY <1>1, <1>2 DEF LinkCommands, OnItsWay, Sendable
<1>3. CASE c \in lAsked /\ c \in LinkPlain /\ OnItsWay(Whole(c))
  <2>1. Whole(c) \in Packets \ Wholes /\ Whole(c) # KeepAlive
    BY <1>1, <1>3, WholeFacts, LinkNames
  <2> QED
    BY <1>3, <2>1 DEF Kept
<1>4. CASE c \in lAsked /\ c \in LinkMulti /\ Sendable(Whole(c))
  <2>1. Whole(c) \in Wholes /\ Whole(c).cmd = c
    BY <1>1, <1>4, WholeFacts
  <2>2. Sendable(Whole(c))' \/ \A i \in 1 .. LinkParts : Contains(lQueue', Part(c, i))
    BY <1>4, <2>1 DEF Kept
  <2> QED
    BY <1>4, <2>2 DEF OnItsWay, Sendable
<1>5. CASE c \in lAsked /\ c \in LinkMulti /\ \A i \in 1 .. LinkParts : OnItsWay(Part(c, i))
  <2>1. \A i \in 1 .. LinkParts : Part(c, i) \in Packets \ Wholes /\ Part(c, i) # KeepAlive
    BY <1>1, PartFacts
  <2> QED
    BY <1>5, <2>1 DEF Kept
<1> QED
  BY <1>2, <1>3, <1>4, <1>5 DEF Kept, NothingDropped

LEMMA NothingDroppedStep ==
  ASSUME LinkTypeOK, HandHeld, LinkTypeOK', NothingDropped, [LinkNext]_linkVars
  PROVE  NothingDropped'
<1> SUFFICES Kept
  BY KeptKeeps
<1>1. /\ lQueue \in Seq(Packets) /\ lSent \in Seq(Packets) /\ Wholes \subseteq Packets
      /\ KeepAlive \in Packets \ Wholes /\ NoPacket \notin Packets
  BY PacketFacts DEF LinkTypeOK
<1>2. ASSUME NEW c \in LinkCommands, LinkSend(c) PROVE Kept
  <2>1. \A q : Contains(lQueue, q) \/ q = Whole(c) => Contains(lQueue', q)
    BY <1>1, <1>2, WholeFacts, ContainsPut DEF LinkSend
  <2>2. lAsked' = lAsked \cup {c} /\ UNCHANGED << lSending, lSent, lLost >>
    BY <1>2 DEF LinkSend, record
  <2> QED
    BY <2>1, <2>2 DEF Kept, OnItsWay, Sendable
<1>3. CASE SendKeepAlive
  <2>1. \A q : Contains(lQueue, q) => Contains(lQueue', q)
    BY <1>1, <1>3, ContainsPut DEF SendKeepAlive
  <2>2. UNCHANGED << lSending, lSent, lLost, lAsked >>
    BY <1>3 DEF SendKeepAlive, record, senders
  <2> QED
    BY <2>1, <2>2 DEF Kept, OnItsWay, Sendable
<1>4. CASE LinkShutdown \/ HangUp \/ ComeBack \/ Connect \/ LinkTest \/ EndOfStream \/ Receive
           \/ UNCHANGED linkVars
  <2>1. UNCHANGED << lQueue, lSending, lSent, lLost, lAsked >>
    BY <1>4 DEF LinkShutdown, HangUp, ComeBack, Connect, LinkTest, EndOfStream, Receive, linkVars,
                record, senders
  <2> QED
    BY <2>1 DEF Kept, OnItsWay, Sendable
<1>5. CASE LinkTake
  <2>1. /\ lPc = "select" /\ lQueue # << >> /\ lQueue' = Tail(lQueue) /\ lSending' = Head(lQueue)
        /\ UNCHANGED << lSent, lLost, lAsked >>
    BY <1>5 DEF LinkTake, record, senders
  <2>2. lSending = NoPacket
    BY <2>1 DEF HandHeld, Working
  <2>3. \A q \in Packets : Sendable(q) => Sendable(q)'
    BY <1>1, <2>1, <2>2, ContainsDrop DEF Sendable
  <2> QED
    BY <1>1, <2>1, <2>3 DEF Kept, OnItsWay
<1>6. CASE Split
  <2>1. UNCHANGED << lSending, lSent, lLost, lAsked >> /\ lPc = "split"
    BY <1>6 DEF Split, record, senders
  <2>2. \A q : Contains(lQueue, q) => Contains(lQueue', q)
    <3>1. CASE lNext <= LinkParts
      <4>1. lNext \in 1 .. LinkParts
        BY <3>1, LinkNumbers DEF LinkTypeOK
      <4>2. Part(lSending.cmd, lNext) \in Packets
        BY <2>1, <4>1, PacketFacts, PartFacts DEF HandHeld
      <4>3. lQueue' = Append(lQueue, Part(lSending.cmd, lNext))
        BY <1>6, <3>1 DEF Split
      <4> QED
        BY <1>1, <4>2, <4>3, ContainsPut
    <3>2. CASE ~(lNext <= LinkParts)
      BY <1>6, <3>2 DEF Split
    <3> QED
      BY <3>1, <3>2
  <2> QED
    BY <2>1, <2>2 DEF Kept, OnItsWay, Sendable
<1>7. CASE Write
  <2>1. /\ lSent' = IF lSending = KeepAlive THEN lSent ELSE Append(lSent, lSending)
        /\ UNCHANGED << lQueue, lSending, lLost, lAsked >> /\ lPc = "took"
    BY <1>7 DEF Write, senders
  <2>2. \A q : Contains(lSent, q) => Contains(lSent', q)
    BY <1>1, <2>1, ContainsPut DEF HandHeld
  <2> QED
    BY <2>1, <2>2 DEF Kept, OnItsWay, Sendable
<1>8. CASE BrokenPipe
  <2>1. /\ lQueue' = Append(lQueue, lSending) /\ lPc = "took"
        /\ UNCHANGED << lSent, lLost, lAsked >>
    BY <1>8 DEF BrokenPipe, senders
  <2>2. \A q : Sendable(q) => Contains(lQueue', q)
    BY <1>1, <2>1, ContainsPut DEF HandHeld, Sendable
  <2> QED
    BY <2>1, <2>2 DEF Kept, OnItsWay, Sendable
<1>9. CASE Reset
  <2>1. /\ lLost' = lLost \cup ({lSending} \ {KeepAlive}) /\ lPc = "took"
        /\ UNCHANGED << lQueue, lSent, lAsked >>
    BY <1>9 DEF Reset, senders
  <2>2. lSending \notin Wholes
    BY <2>1 DEF HandHeld
  <2> QED
    BY <2>1, <2>2 DEF Kept, OnItsWay, Sendable
<1>10. CASE Sync
  <2>1. lPc = "sync" /\ UNCHANGED << lQueue, lSent, lLost, lAsked >>
    BY <1>10 DEF Sync, record, senders
  <2>2. \/ lSending = KeepAlive
        \/ lSending \in Packets \ Wholes /\ Contains(lSent, lSending)
        \/ lSending \in Wholes /\ \A i \in 1 .. LinkParts : Contains(lQueue, Part(lSending.cmd, i))
    BY <2>1 DEF HandHeld
  <2>3. \A p \in Packets \ Wholes : p # KeepAlive /\ OnItsWay(p) => OnItsWay(p)'
    BY <2>1, <2>2 DEF OnItsWay, Sendable
  <2>4. \A p \in Wholes : Sendable(p) =>
           Sendable(p)' \/ \A i \in 1 .. LinkParts : Contains(lQueue', Part(p.cmd, i))
    BY <1>1, <2>1, <2>2 DEF Sendable
  <2> QED
    BY <2>1, <2>3, <2>4 DEF Kept
<1> QED
  BY <1>2, <1>3, <1>4, <1>5, <1>6, <1>7, <1>8, <1>9, <1>10 DEF LinkNext, LinkStep

-----------------------------------------------------------------------------
(* Parts stay together                                                      *)

LEMMA Joined ==
  ASSUME NEW s \in Seq(Packets), NEW t \in Seq(Packets)
  PROVE  /\ s \o t \in Seq(Packets) /\ Len(s \o t) = Len(s) + Len(t)
         /\ Len(s) \in Nat /\ Len(t) \in Nat
         /\ \A i \in 1 .. Len(s) : (s \o t)[i] = s[i]
         /\ \A i \in 1 .. Len(t) : (s \o t)[Len(s) + i] = t[i]
OBVIOUS

\* A packet at the end of the line.
LEMMA LineGrows ==
  ASSUME NEW s \in Seq(Packets), NEW p \in Packets, Together(s),
         p.part > 0 => \A i \in 1 .. Len(s) : LastPart(s, i) => NextPart(s[i], p)
  PROVE  /\ Together(Append(s, p))
         /\ \A i \in 1 .. Len(Append(s, p)) : LastPart(Append(s, p), i) =>
              IF p.part > 0 THEN Append(s, p)[i] = p
              ELSE i \in 1 .. Len(s) /\ LastPart(s, i) /\ Append(s, p)[i] = s[i]
<1> DEFINE t == Append(s, p)
<1>1. /\ Len(t) = Len(s) + 1 /\ Len(s) \in Nat
      /\ \A i \in 1 .. Len(s) : t[i] = s[i]
      /\ t[Len(s) + 1] = p
  BY PutFacts
<1> HIDE DEF t
<1>2. ASSUME NEW i \in 1 .. Len(t), NEW j \in 1 .. Len(t), i < j, t[i].part > 0, t[j].part > 0,
             \A k \in i + 1 .. j - 1 : t[k].part = 0
      PROVE  NextPart(t[i], t[j])
  <2>1. i \in 1 .. Len(s) /\ t[i] = s[i]
    BY <1>1, <1>2
  <2>2. \A k \in i + 1 .. j - 1 : k \in 1 .. Len(s) /\ s[k].part = 0
    BY <1>1, <1>2, <2>1
  <2>3. CASE j \in 1 .. Len(s)
    BY <1>1, <1>2, <2>1, <2>2, <2>3 DEF Together
  <2>4. CASE j = Len(s) + 1
    <3>1. t[j] = p /\ i + 1 .. Len(s) = i + 1 .. j - 1
      BY <1>1, <2>4
    <3>2. LastPart(s, i)
      BY <1>2, <2>1, <2>2, <3>1 DEF LastPart
    <3> QED
      BY <1>2, <2>1, <3>1, <3>2
  <2> QED
    BY <1>1, <2>3, <2>4
<1>3. ASSUME NEW i \in 1 .. Len(t), LastPart(t, i)
      PROVE  IF p.part > 0 THEN t[i] = p ELSE i \in 1 .. Len(s) /\ LastPart(s, i) /\ t[i] = s[i]
  <2>1. t[i].part > 0 /\ \A k \in i + 1 .. Len(t) : t[k].part = 0
    BY <1>3 DEF LastPart
  <2>2. CASE i = Len(s) + 1
    BY <1>1, <2>1, <2>2
  <2>3. CASE i \in 1 .. Len(s)
    <3>1. p.part = 0 /\ t[i] = s[i]
      BY <1>1, <2>1, <2>3
    <3>2. \A k \in i + 1 .. Len(s) : s[k].part = 0
      BY <1>1, <2>1, <2>3
    <3> QED
      BY <2>1, <2>3, <3>1, <3>2 DEF LastPart
  <2> QED
    BY <1>1, <2>2, <2>3
<1>4. Together(t)
  BY <1>2 DEF Together
<1> QED
  BY <1>3, <1>4 DEF t

\* A packet that is no part leaves the line.
LEMMA LineShrinks ==
  ASSUME NEW s \in Seq(Packets), NEW q \in Seq(Packets), NEW z \in Packets, z.part = 0,
         Together(s \o << z >> \o q)
  PROVE  /\ Together(s \o q)
         /\ \A i \in 1 .. Len(s \o q) : LastPart(s \o q, i) =>
              \E j \in 1 .. Len(s \o << z >> \o q) :
                LastPart(s \o << z >> \o q, j) /\ (s \o << z >> \o q)[j] = (s \o q)[i]
<1> DEFINE t == s \o << z >> \o q
           u == s \o q
           At(i) == IF i <= Len(s) THEN i ELSE i + 1
<1>1. /\ Len(t) = Len(s) + 1 + Len(q) /\ Len(u) = Len(s) + Len(q) /\ Len(s) \in Nat /\ Len(q) \in Nat
      /\ \A i \in 1 .. Len(s) : t[i] = s[i] /\ u[i] = s[i]
      /\ t[Len(s) + 1] = z
      /\ \A i \in 1 .. Len(q) : t[Len(s) + 1 + i] = q[i] /\ u[Len(s) + i] = q[i]
  OBVIOUS
<1> HIDE DEF t, u
<1>2. \A i \in 1 .. Len(u) : At(i) \in 1 .. Len(t) /\ t[At(i)] = u[i]
  <2> SUFFICES ASSUME NEW i \in 1 .. Len(u) PROVE At(i) \in 1 .. Len(t) /\ t[At(i)] = u[i]
    OBVIOUS
  <2>1. CASE i <= Len(s)
    BY <1>1, <2>1
  <2>2. CASE ~(i <= Len(s))
    <3>1. i - Len(s) \in 1 .. Len(q) /\ Len(s) + (i - Len(s)) = i /\ Len(s) + 1 + (i - Len(s)) = i + 1
      BY <1>1, <2>2
    <3> QED
      BY <1>1, <2>2, <3>1
  <2> QED
    BY <2>1, <2>2
<1>3. \A k \in 1 .. Len(t) : k # Len(s) + 1 => \E i \in 1 .. Len(u) : k = At(i)
  <2> SUFFICES ASSUME NEW k \in 1 .. Len(t), k # Len(s) + 1
               PROVE  \E i \in 1 .. Len(u) : k = At(i)
    OBVIOUS
  <2>1. CASE k <= Len(s)
    BY <1>1, <2>1
  <2>2. CASE ~(k <= Len(s))
    <3>1. k - 1 \in 1 .. Len(u) /\ At(k - 1) = k
      BY <1>1, <2>2
    <3> QED
      BY <3>1
  <2> QED
    BY <2>1, <2>2
<1>4. \A i, j \in 1 .. Len(u) : i < j <=> At(i) < At(j)
  BY <1>1
<1> HIDE DEF At
<1>5. ASSUME NEW i \in 1 .. Len(u), NEW j \in 1 .. Len(u), i < j, u[i].part > 0, u[j].part > 0,
             \A k \in i + 1 .. j - 1 : u[k].part = 0
      PROVE  NextPart(u[i], u[j])
  <2>1. ASSUME NEW k \in At(i) + 1 .. At(j) - 1 PROVE t[k].part = 0
    <3>1. k \in 1 .. Len(t) /\ At(i) < k /\ k < At(j)
      BY <1>2
    <3>2. CASE k = Len(s) + 1
      BY <1>1, <3>2
    <3>3. CASE k # Len(s) + 1
      <4>1. PICK m \in 1 .. Len(u) : k = At(m)
        BY <1>3, <3>1, <3>3
      <4>2. m \in i + 1 .. j - 1
        BY <1>1, <1>4, <3>1, <4>1
      <4> QED
        BY <1>2, <1>5, <4>1, <4>2
    <3> QED
      BY <3>2, <3>3
  <2> QED
    BY <1>2, <1>4, <1>5, <2>1 DEF Together, t
<1>6. ASSUME NEW i \in 1 .. Len(u), LastPart(u, i) PROVE LastPart(t, At(i))
  <2>1. ASSUME NEW k \in At(i) + 1 .. Len(t) PROVE t[k].part = 0
    <3>1. k \in 1 .. Len(t) /\ At(i) < k
      BY <1>1, <1>2
    <3>2. CASE k = Len(s) + 1
      BY <1>1, <3>2
    <3>3. CASE k # Len(s) + 1
      <4>1. PICK m \in 1 .. Len(u) : k = At(m)
        BY <1>3, <3>1, <3>3
      <4>2. m \in i + 1 .. Len(u)
        BY <1>1, <1>4, <3>1, <4>1
      <4> QED
        BY <1>2, <1>6, <4>1, <4>2 DEF LastPart
    <3> QED
      BY <3>2, <3>3
  <2> QED
    BY <1>2, <1>6, <2>1 DEF LastPart
<1>7. Together(u)
  BY <1>5 DEF Together
<1> QED
  BY <1>2, <1>6, <1>7 DEF t, u

LEMMA StartTogether ==
  ASSUME NEW s \in Seq(Packets), NEW t \in Seq(Packets), Together(s \o t)
  PROVE  Together(s)
<1>1. ASSUME NEW i \in 1 .. Len(s), NEW j \in 1 .. Len(s), i < j, s[i].part > 0, s[j].part > 0,
             \A k \in i + 1 .. j - 1 : s[k].part = 0
      PROVE  NextPart(s[i], s[j])
  <2> DEFINE u == s \o t
  <2>1. Len(u) = Len(s) + Len(t) /\ Len(s) \in Nat /\ Len(t) \in Nat /\ \A k \in 1 .. Len(s) : u[k] = s[k]
    BY Joined
  <2> HIDE DEF u
  <2>2. i \in 1 .. Len(u) /\ j \in 1 .. Len(u) /\ \A k \in i + 1 .. j - 1 : k \in 1 .. Len(s)
    BY <2>1
  <2>3. u[i] = s[i] /\ u[j] = s[j] /\ \A k \in i + 1 .. j - 1 : u[k].part = 0
    BY <1>1, <2>1, <2>2
  <2>4. Together(u)
    BY DEF u
  <2> QED
    BY <1>1, <2>2, <2>3, <2>4 DEF Together
<1> QED
  BY <1>1 DEF Together

LEMMA LineForms ==
  ASSUME NEW s \in Seq(Packets), NEW q \in Seq(Packets), NEW h \in Seq(Packets), NEW p \in Packets
  PROVE  /\ s \o << >> \o q = s \o q
         /\ s \o h \o Append(q, p) = Append(s \o h \o q, p)
         /\ Append(s, p) \o << >> \o q = s \o << p >> \o q
         /\ q # << >> => s \o << >> \o q = s \o << Head(q) >> \o Tail(q)
         /\ << p >> \in Seq(Packets) /\ << >> \in Seq(Packets) /\ s \o h \o q \in Seq(Packets)
<1>1. s \o << >> \o q = s \o q
  OBVIOUS
<1>2. s \o h \o Append(q, p) = Append(s \o h \o q, p)
  OBVIOUS
<1>3. Append(s, p) \o << >> \o q = s \o << p >> \o q
  OBVIOUS
<1>4. q # << >> => s \o << >> \o q = s \o << Head(q) >> \o Tail(q)
  OBVIOUS
<1>5. << p >> \in Seq(Packets) /\ << >> \in Seq(Packets)
  OBVIOUS
<1>6. s \o h \o q \in Seq(Packets)
  OBVIOUS
<1> QED
  BY <1>1, <1>2, <1>3, <1>4, <1>5, <1>6

LEMMA PartsStep ==
  ASSUME LinkTypeOK, HandHeld, LinkTypeOK', ~lPiped /\ lLost = {} => PartsInLine, [LinkNext]_linkVars
  PROVE  (~lPiped /\ lLost = {} => PartsInLine)'
<1> SUFFICES ASSUME ~lPiped', lLost' = {} PROVE PartsInLine'
  OBVIOUS
<1>1. /\ lQueue \in Seq(Packets) /\ lSent \in Seq(Packets) /\ BeingSent \in Seq(Packets)
      /\ Line \in Seq(Packets) /\ lNext \in 1 .. LinkParts + 1
  BY PacketFacts, LineForms DEF LinkTypeOK, HandHeld, BeingSent, Line
<1>2. ASSUME NEW p \in Packets, p.part = 0, lQueue' = Append(lQueue, p), PartsInLine,
             UNCHANGED << lPc, lSending, lNext, lSent >>
      PROVE  PartsInLine'
  <2> BeingSent' = BeingSent
    BY <1>2 DEF BeingSent
  <2>1. Line' = Append(Line, p)
    BY <1>1, <1>2, LineForms DEF Line
  <2>2. \A q : Closed(q)' <=> Closed(q)
    BY <1>2 DEF Closed, Splitting
  <2>3. ~(p.part > 0)
    BY <1>2
  <2> QED
    BY <1>1, <1>2, <2>1, <2>2, <2>3, LineGrows DEF PartsInLine
<1>3. ASSUME NEW p \in Packets, p.part = 0, Line = lSent \o << p >> \o lQueue',
             Line' = lSent \o lQueue', PartsInLine, ~Splitting, ~Splitting'
      PROVE  PartsInLine'
  <2>1. lQueue' \in Seq(Packets)
    BY DEF LinkTypeOK
  <2>2. /\ Together(Line')
        /\ \A i \in 1 .. Len(Line') : LastPart(Line', i) =>
             \E j \in 1 .. Len(Line) : LastPart(Line, j) /\ Line[j] = Line'[i]
    <3>1. lSent \in Seq(Packets) /\ Together(lSent \o << p >> \o lQueue')
      BY <1>1, <1>3 DEF PartsInLine, LinkTypeOK
    <3>2. /\ Together(lSent \o lQueue')
          /\ \A i \in 1 .. Len(lSent \o lQueue') : LastPart(lSent \o lQueue', i) =>
               \E j \in 1 .. Len(lSent \o << p >> \o lQueue') :
                 /\ LastPart(lSent \o << p >> \o lQueue', j)
                 /\ (lSent \o << p >> \o lQueue')[j] = (lSent \o lQueue')[i]
      BY <1>3, <2>1, <3>1, LineShrinks
    <3> QED
      BY <1>3, <3>2
  <2>3. \A q : Closed(q)' <=> Closed(q)
    BY <1>3 DEF Closed
  <2> QED
    BY <1>3, <2>2, <2>3 DEF PartsInLine
<1>4. ASSUME Line' = Line, PartsInLine, ~Splitting, ~Splitting'
      PROVE  PartsInLine'
  BY <1>4 DEF PartsInLine, Closed
<1>5. ASSUME NEW c \in LinkCommands, LinkSend(c) PROVE PartsInLine'
  BY <1>2, <1>5, WholeFacts DEF LinkSend, record
<1>6. CASE SendKeepAlive
  BY <1>2, <1>6, PacketFacts DEF SendKeepAlive, record
<1>7. CASE LinkShutdown \/ HangUp \/ ComeBack \/ UNCHANGED linkVars
  <2>1. UNCHANGED << lQueue, lPc, lSending, lNext, lSent, lPiped, lLost >>
    BY <1>7 DEF LinkShutdown, HangUp, ComeBack, linkVars, record
  <2> QED
    BY <2>1 DEF PartsInLine, Line, BeingSent, Closed, Splitting
<1>8. CASE Connect \/ LinkTest \/ EndOfStream \/ Receive \/ Sync
  <2>1. UNCHANGED << lQueue, lSent, lPiped, lLost >> /\ lPc \notin {"took", "split"} /\ lPc' \notin {"took", "split"}
    BY <1>8 DEF Connect, Failed, LinkTest, EndOfStream, Receive, Sync, record
  <2>2. Line' = Line /\ ~Splitting /\ ~Splitting'
    BY <2>1 DEF Line, BeingSent, Splitting
  <2> QED
    BY <1>4, <2>1, <2>2
<1>9. CASE LinkTake
  <2>1. /\ lPc = "select" /\ lQueue # << >> /\ lQueue' = Tail(lQueue) /\ lSending' = Head(lQueue) /\ lNext' = 1
        /\ lPc' = IF \E c \in LinkMulti : Head(lQueue) = Whole(c) THEN "split" ELSE "took"
        /\ UNCHANGED << lSent, lLost, lPiped >>
    BY <1>9 DEF LinkTake, record
  <2>2. ~Splitting /\ ~Splitting' /\ BeingSent = << >> /\ Head(lQueue) \in Packets /\ Tail(lQueue) \in Seq(Packets)
    BY <1>1, <2>1, Drop DEF Splitting, BeingSent
  <2>3. Line = lSent \o << Head(lQueue) >> \o Tail(lQueue)
    BY <1>1, <2>1, <2>2, LineForms DEF Line
  <2>4. CASE \E c \in LinkMulti : Head(lQueue) = Whole(c)
    <3>1. Head(lQueue).part = 0
      BY <2>4, WholeFacts DEF LinkCommands
    <3>2. Line' = lSent \o Tail(lQueue)
      BY <1>1, <2>1, <2>2, <2>4, LineForms DEF Line, BeingSent
    <3> QED
      BY <1>3, <2>1, <2>2, <2>3, <3>1, <3>2
  <2>5. CASE ~ \E c \in LinkMulti : Head(lQueue) = Whole(c)
    <3>1. Line' = Line
      BY <2>1, <2>3, <2>5 DEF Line, BeingSent
    <3> QED
      BY <1>4, <2>1, <2>2, <3>1
  <2> QED
    BY <2>4, <2>5
<1>10. CASE Split
  <2>1. /\ lPc = "split" /\ UNCHANGED << lSending, lSent, lLost, lPiped >> /\ lPc' \in {"split", "sync"}
    BY <1>10 DEF Split, record
  <2>2. /\ lSending.cmd \in LinkCommands /\ BeingSent = << >> /\ BeingSent' = << >> /\ PartsInLine
        /\ Splitting <=> lNext > 1
    BY <2>1, PacketFacts DEF HandHeld, BeingSent, Splitting
  <2>3. CASE lNext <= LinkParts
    <3> DEFINE p == Part(lSending.cmd, lNext)
    <3>1. lNext \in 1 .. LinkParts /\ lQueue' = Append(lQueue, p) /\ lNext' = lNext + 1 /\ lPc' = "split"
      BY <1>1, <1>10, <2>1, <2>3, LinkNumbers DEF Split
    <3>2. p \in Packets /\ p.part = lNext /\ p.cmd = lSending.cmd
      BY <2>2, <3>1, PartFacts
    <3>3. Line' = Append(Line, p)
      BY <1>1, <2>1, <2>2, <3>1, <3>2, LineForms DEF Line
    <3>4. p.part > 0 /\ Splitting' /\ lNext' - 1 = lNext
      BY <1>1, <3>1, <3>2, LinkNumbers DEF Splitting
    <3>5. \A q : q = p => Closed(q)'
      BY <2>1, <3>4 DEF Closed
    <3> HIDE DEF p
    <3>6. ASSUME NEW i \in 1 .. Len(Line), LastPart(Line, i) PROVE NextPart(Line[i], p)
      <4>1. Closed(Line[i])
        BY <2>2, <3>6 DEF PartsInLine
      <4>2. CASE lNext > 1
        <5>1. Line[i] = Part(lSending.cmd, lNext - 1)
          BY <2>2, <4>1, <4>2 DEF Closed
        <5>2. lNext - 1 \in 1 .. LinkParts /\ lNext - 1 < LinkParts /\ (lNext - 1) + 1 = lNext
          BY <3>1, <4>2, LinkNumbers
        <5>3. Line[i].part = lNext - 1 /\ Line[i].cmd = lSending.cmd
          BY <2>2, <5>1, <5>2, PartFacts
        <5> QED
          BY <5>2, <5>3 DEF NextPart, p
      <4>3. CASE ~(lNext > 1)
        <5>1. lNext = 1 /\ Line[i].part = LinkParts
          BY <2>2, <3>1, <4>1, <4>3, LinkNumbers DEF Closed
        <5> QED
          BY <3>2, <5>1, LinkNumbers DEF NextPart, p
      <4> QED
        BY <4>2, <4>3
    <3> QED
      BY <1>1, <2>2, <3>2, <3>3, <3>4, <3>5, <3>6, LineGrows DEF PartsInLine
  <2>4. CASE ~(lNext <= LinkParts)
    <3>1. lPc' = "sync" /\ lQueue' = lQueue
      BY <1>10, <2>4 DEF Split
    <3>2. lNext = LinkParts + 1 /\ Splitting /\ ~Splitting' /\ lNext - 1 \in 1 .. LinkParts /\ lNext - 1 = LinkParts
      BY <1>1, <2>2, <2>4, <3>1, LinkNumbers DEF Splitting
    <3>3. Line' = Line
      BY <2>1, <2>2, <3>1 DEF Line
    <3>4. \A q : Closed(q) => Closed(q)'
      BY <2>2, <3>2, PartFacts DEF Closed
    <3> QED
      BY <2>2, <3>3, <3>4 DEF PartsInLine
  <2> QED
    BY <2>3, <2>4
<1>11. CASE Write
  <2>1. /\ lPc = "took" /\ lPc' = "sync" /\ lSending \in Packets
        /\ lSent' = IF lSending = KeepAlive THEN lSent ELSE Append(lSent, lSending)
        /\ UNCHANGED << lQueue, lSending, lNext, lLost, lPiped >>
    BY <1>11 DEF Write, HandHeld
  <2>2. ~Splitting /\ ~Splitting' /\ BeingSent = << lSending >> /\ BeingSent' = << >>
    BY <2>1 DEF Splitting, BeingSent
  <2>3. CASE lSending = KeepAlive
    <3>1. lSending.part = 0 /\ Line' = lSent \o lQueue' /\ Line = lSent \o << lSending >> \o lQueue'
      BY <1>1, <2>1, <2>2, <2>3, PacketFacts, LineForms DEF Line
    <3> QED
      BY <1>3, <2>1, <2>2, <3>1
  <2>4. CASE lSending # KeepAlive
    <3>1. Line' = Line
      BY <1>1, <2>1, <2>2, <2>4, LineForms DEF Line
    <3> QED
      BY <1>4, <2>1, <2>2, <3>1
  <2> QED
    BY <2>3, <2>4
<1>12. CASE BrokenPipe
  BY <1>12 DEF BrokenPipe
<1>13. CASE Reset
  <2>1. /\ lPc = "took" /\ lPc' \in {"raised", "connect"} /\ lSending \in Packets
        /\ lLost' = lLost \cup ({lSending} \ {KeepAlive})
        /\ UNCHANGED << lQueue, lSent, lPiped >>
    BY <1>13 DEF Reset, Failed, HandHeld
  <2>2. lSending = KeepAlive /\ lLost = {}
    BY <2>1
  <2>3. ~Splitting /\ ~Splitting' /\ BeingSent = << lSending >> /\ BeingSent' = << >>
    BY <2>1 DEF Splitting, BeingSent
  <2>4. lSending.part = 0 /\ Line' = lSent \o lQueue' /\ Line = lSent \o << lSending >> \o lQueue'
    BY <1>1, <2>1, <2>2, <2>3, PacketFacts, LineForms DEF Line
  <2> QED
    BY <1>3, <2>1, <2>2, <2>3, <2>4
<1> QED
  BY <1>5, <1>6, <1>7, <1>8, <1>9, <1>10, <1>11, <1>12, <1>13 DEF LinkNext, LinkStep

-----------------------------------------------------------------------------

LEMMA PartsFollow ==
  ASSUME LinkInvariant
  PROVE  PartsStayTogether
<1> SUFFICES ASSUME ~lPiped, lLost = {} PROVE Together(lSent)
  BY DEF PartsStayTogether, Together
<1>1. lQueue \in Seq(Packets) /\ lSent \in Seq(Packets) /\ BeingSent \in Seq(Packets)
  BY PacketFacts, LineForms DEF LinkInvariant, LinkTypeOK, HandHeld, BeingSent
<1>2. BeingSent \o lQueue \in Seq(Packets) /\ Line = lSent \o (BeingSent \o lQueue)
  BY <1>1 DEF Line
<1>3. Together(Line)
  BY DEF LinkInvariant, PartsInLine
<1> QED
  BY <1>1, <1>2, <1>3, StartTogether

LEMMA LinkInvariantHolds == LinkSpec => []LinkInvariant
<1>1. LinkInit => LinkInvariant
  <2> SUFFICES ASSUME LinkInit PROVE LinkInvariant
    OBVIOUS
  <2> USE LinkNumbers DEF LinkInit
  <2>1. /\ lQueue \in Seq(Packets) /\ Len(lQueue) <= LinkCap /\ lSent \in Seq(Packets)
        /\ lLost \subseteq Packets /\ lAsked \subseteq LinkCommands
    OBVIOUS
  <2>2. lNext \in 1 .. LinkParts + 1 /\ lTries \in 0 .. LinkTries /\ lHangUps \in 0 .. LinkHangUps
    OBVIOUS
  <2>3. lRunning \in BOOLEAN /\ lUp \in BOOLEAN /\ lConnected \in BOOLEAN /\ lPiped \in BOOLEAN
    OBVIOUS
  <2>4. LinkTypeOK
    BY <2>1, <2>2, <2>3 DEF LinkTypeOK
  <2>5. HandHeld /\ NothingDropped
    BY LinkNumbers DEF LinkInit, HandHeld, Working, NothingDropped
  <2>6. Len(Line) = 0
    BY DEF LinkInit, Line, BeingSent
  <2>7. PartsInLine
    BY <2>6 DEF PartsInLine, Together
  <2> QED
    BY <2>4, <2>5, <2>7 DEF LinkInvariant
<1>2. LinkInvariant /\ [LinkNext]_linkVars => LinkInvariant'
  BY LinkTypeStep, NothingDroppedStep, PartsStep DEF LinkInvariant
<1> QED
  BY <1>1, <1>2, PTL DEF LinkSpec

\* The fields of the Base 3 thread keep their types, and what it holds fits where it is.
THEOREM LinkTypeCorrect == LinkSpec => []LinkTypeOK
<1>1. LinkInvariant => LinkTypeOK
  BY DEF LinkInvariant
<1> QED
  BY <1>1, LinkInvariantHolds, PTL

\* A packet that is handed over is queued, in hand, sent or lost by a reset, never dropped;
\* and while none had to be put back, the parts of a command reach the Base in their order
\* and without another's between them, whoever fills the queue meanwhile (Base3Buffer.run).
THEOREM NoPacketIsLost == LinkSpec => []PacketsAreKept
<1>1. LinkInvariant => PacketsAreKept
  BY PartsFollow DEF LinkInvariant, PacketsAreKept
<1> QED
  BY <1>1, LinkInvariantHolds, PTL

-----------------------------------------------------------------------------
(* The sessions of a client (ClientRegistry)                                 *)

\* All sessions have the address and the port of the one node.
OneClient == \A s, t \in gClients : s = t

LEMMA RegistryStep ==
  ASSUME RegistryTypeOK, OneClient, [RegistryNext]_registryVars
  PROVE  RegistryTypeOK' /\ OneClient'
<1> USE RegistryConstants DEF RegistryTypeOK, OneClient, Sessions, Requests
<1>1. ASSUME NEW kind \in {"register", "sync", "alive", "disconnect"}, Deliver(kind)
      PROVE  gWire' \subseteq Requests
  BY <1>1 DEF Deliver
<1>2. ASSUME NEW kind \in {"register", "sync", "alive", "disconnect"}, SendAgain(kind)
      PROVE  RegistryTypeOK' /\ OneClient'
  BY <1>1, <1>2 DEF SendAgain
<1>3. CASE Register
  BY <1>1, <1>2, <1>3 DEF Register
<1>4. CASE SyncState
  BY <1>1, <1>4 DEF SyncState
<1>5. CASE SendAlive
  BY <1>1, <1>2, <1>5 DEF SendAlive
<1>6. CASE Disconnect
  BY <1>1, <1>2, <1>6 DEF Disconnect
<1>7. CASE HeartBeats \/ HeartGivesUp \/ LeaveLayout \/ Crash
  BY <1>7 DEF HeartBeats, HeartGivesUp, LeaveLayout, Crash
<1>8. CASE Relaunch
  BY <1>8 DEF Relaunch
<1>9. ASSUME NEW s \in Sessions, Connected(s) PROVE RegistryTypeOK' /\ OneClient'
  BY <1>9 DEF Connected, Handle, Purged
<1>10. ASSUME NEW s \in Sessions, Disconnected(s) PROVE RegistryTypeOK' /\ OneClient'
  BY <1>10 DEF Disconnected, Handle
<1>11. ASSUME NEW s \in Sessions, Synced(s) PROVE RegistryTypeOK' /\ OneClient'
  BY <1>11 DEF Synced, Handle
<1>12. ASSUME NEW s \in Sessions, Alive(s) PROVE RegistryTypeOK' /\ OneClient'
  <2>1. gPhase' \in {gPhase, "disconnect"} /\ gHeart' \in {gHeart, "off"}
    BY <1>12 DEF Alive
  <2> QED
    BY <1>12, <2>1 DEF Alive, Handle
<1>13. CASE ServerStops \/ ServerStarts
  <2>1. gUp' \in BOOLEAN
    BY <1>13 DEF ServerStops, ServerStarts
  <2>2. /\ gWire' \subseteq gWire /\ gClients' \subseteq gClients
        /\ gRestarts' \in 0 .. RegRestarts
        /\ gSession' = gSession /\ gPhase' = gPhase /\ gHeart' = gHeart /\ gRetried' = gRetried
    BY <1>13 DEF ServerStops, ServerStarts
  <2> QED
    BY <2>1, <2>2
<1>14. CASE UNCHANGED registryVars
  BY <1>14 DEF registryVars
<1> QED
  BY <1>3, <1>4, <1>5, <1>6, <1>7, <1>8, <1>9, <1>10, <1>11, <1>12, <1>13, <1>14
     DEF RegistryNext, ClientSends, Heart, Handler

LEMMA RegistryInvariantHolds == RegistrySpec => [](RegistryTypeOK /\ OneClient)
<1>1. RegistryInit => RegistryTypeOK /\ OneClient
  BY RegistryConstants DEF RegistryInit, RegistryTypeOK, OneClient, Sessions, Requests
<1> QED
  BY <1>1, RegistryStep, PTL DEF RegistrySpec

\* Types, for any number of sessions, repetitions and restarts of the server.
THEOREM RegistryTypeCorrect == RegistrySpec => []RegistryTypeOK
BY RegistryInvariantHolds, PTL

\* However late and however often the requests of old sessions are handled, one session
\* at most is registered: client_connect drops the others at its address and port.
THEOREM OneSessionIsRegistered == RegistrySpec => []OneSessionPerPort
<1>1. OneClient => OneSessionPerPort
  <2> SUFFICES ASSUME OneClient PROVE Cardinality(gClients) <= 1
    BY DEF OneSessionPerPort
  <2>1. CASE gClients = {}
    BY <2>1, FS_EmptySet
  <2>2. ASSUME NEW s \in gClients PROVE Cardinality(gClients) <= 1
    <3>1. gClients = {s}
      BY DEF OneClient
    <3>2. Cardinality({s}) = 1
      BY FS_Singleton
    <3> QED
      BY <3>1, <3>2
  <2> QED
    BY <2>1, <2>2
<1> QED
  BY <1>1, RegistryInvariantHolds, PTL

\* Only a disconnect of the session that is registered empties the registry of a server
\* that runs (client_disconnect).
THEOREM OthersStayRegistered == RegistrySpec => OnlyOwnDisconnectRemoves
<1> DEFINE Own == gClients # {} /\ gClients' = {} /\ gUp' =>
                    \E s \in gClients : << "disconnect", s >> \in gWire
<1>1. ASSUME OneClient, [RegistryNext]_registryVars PROVE [Own]_registryVars
  <2>1. ASSUME NEW s \in Sessions, Disconnected(s) PROVE Own
    BY <1>1, <2>1 DEF Disconnected, Handle, OneClient
  <2>2. ASSUME NEW s \in Sessions, Connected(s) PROVE Own
    BY <2>2 DEF Connected
  <2>3. CASE ServerStops
    BY <2>3 DEF ServerStops
  <2>4. CASE \/ ClientSends \/ Heart \/ HeartGivesUp \/ LeaveLayout \/ Crash \/ Relaunch
             \/ ServerStarts \/ \E s \in Sessions : Synced(s) \/ Alive(s)
    <3>1. gClients' = gClients
      BY <2>4 DEF ClientSends, Heart, Register, SyncState, Disconnect, SendAgain, HeartBeats,
                  SendAlive, HeartGivesUp, LeaveLayout, Crash, Relaunch, ServerStarts, Synced, Alive
    <3> QED
      BY <3>1
  <2> QED
    BY <1>1, <2>1, <2>2, <2>3, <2>4 DEF RegistryNext, Handler
<1> QED
  BY <1>1, RegistryInvariantHolds, PTL DEF RegistrySpec, OnlyOwnDisconnectRemoves

LEMMA BeatStep ==
  ASSUME RegistryTypeOK, RunningClientsBeat, [RegistryNext]_registryVars
  PROVE  RunningClientsBeat'
<1> USE DEF RunningClientsBeat
<1>1. ASSUME UNCHANGED <<gPhase, gHeart>> PROVE RunningClientsBeat'
  BY <1>1
<1>2. CASE Register \/ SyncState \/ Disconnect
  BY <1>2 DEF Register, SyncState, Disconnect, SendAgain
<1>3. CASE HeartBeats \/ SendAlive \/ HeartGivesUp
  BY <1>3 DEF HeartBeats, SendAlive, HeartGivesUp, SendAgain
<1>4. CASE LeaveLayout \/ Crash \/ Relaunch
  BY <1>4 DEF LeaveLayout, Crash, Relaunch
<1>5. ASSUME NEW s \in Sessions, Connected(s) \/ Disconnected(s) \/ Synced(s)
      PROVE  RunningClientsBeat'
  BY <1>1, <1>5 DEF Connected, Disconnected, Synced
<1>6. ASSUME NEW s \in Sessions, Alive(s) PROVE RunningClientsBeat'
  BY <1>6 DEF Alive
<1>7. CASE ServerStops \/ ServerStarts
  BY <1>1, <1>7 DEF ServerStops, ServerStarts
<1>8. CASE UNCHANGED registryVars
  BY <1>1, <1>8 DEF registryVars
<1> QED
  BY <1>2, <1>3, <1>4, <1>5, <1>6, <1>7, <1>8 DEF RegistryNext, ClientSends, Heart, Handler

\* A client that runs has a heart beat, by which a server that forgot it will tell it, or had one
\* that gave up on a server that was down; and a heart beat that waits belongs to a client that
\* runs, whoever restarts and whatever request is late (ClientHeartBeat).
THEOREM RunningClientsHaveAHeartBeat == RegistrySpec => []RunningClientsBeat
<1>1. RegistryInit => RunningClientsBeat
  BY DEF RegistryInit, RunningClientsBeat
<1> QED
  BY <1>1, BeatStep, RegistryTypeCorrect, PTL DEF RegistrySpec

-----------------------------------------------------------------------------
(* The TMCC commands (CommandQueue)                                          *)

USE DEF put

-----------------------------------------------------------------------------
(* Types                                                                    *)

\* The thread has a command in its hands from get to task_done.
HasCommand == qPc \in {"send", "offer"} => qData \in QueuedCommands

LEMMA TypeInit == QueueInit => QueueTypeOK /\ HasCommand
<1> SUFFICES ASSUME QueueInit PROVE QueueTypeOK /\ HasCommand
  OBVIOUS
<1>1. qQueue \in Seq(QueuedCommands) /\ Len(qQueue) <= QueueCap
  BY QueueConstants DEF QueueInit
<1>2. qPut \in Seq(QueuedCommands) /\ qBase \in Seq(QueuedCommands)
  BY DEF QueueInit
<1> QED
  BY <1>1, <1>2 DEF QueueInit, QueueTypeOK, HasCommand

LEMMA TypeStep ==
  QueueTypeOK /\ HasCommand /\ [QueueNext]_queueVars => QueueTypeOK' /\ HasCommand'
<1> USE QueueConstants DEF HasCommand
<1> SUFFICES ASSUME QueueTypeOK, HasCommand, [QueueNext]_queueVars
             PROVE  QueueTypeOK' /\ HasCommand'
  OBVIOUS
<1>1. ASSUME NEW c \in QueuedCommands, Enqueue(c)
      PROVE  QueueTypeOK' /\ HasCommand'
  <2>1. CASE Len(qQueue) < QueueCap
    <3>1. Put(c) /\ UNCHANGED <<qBlocked, qPc, qData, qSignalled, qDropped, qBase, qOffered>>
      BY <1>1, <2>1 DEF Enqueue
    <3>2. qQueue' \in Seq(QueuedCommands) /\ Len(qQueue') = Len(qQueue) + 1
      BY <3>1 DEF Put, QueueTypeOK
    <3>3. qPut' \in Seq(QueuedCommands) /\ qUnfinished' \in Nat
      BY <3>1 DEF Put, QueueTypeOK
    <3>4. qEarly' \subseteq QueuedCommands
      BY <3>1 DEF Put, QueueTypeOK
    <3>5. Len(qQueue') <= QueueCap
      BY <2>1, <3>2 DEF QueueTypeOK
    <3> QED
      BY <3>1, <3>2, <3>3, <3>4, <3>5 DEF QueueTypeOK
  <2>2. CASE ~(Len(qQueue) < QueueCap)
    BY <1>1, <2>2 DEF Enqueue, QueueTypeOK
  <2> QED
    BY <2>1, <2>2
<1>2. CASE QueueShutdown
  BY <1>2 DEF QueueShutdown, QueueTypeOK
<1>3. CASE ImmediateShutdown
  BY <1>3 DEF ImmediateShutdown, QueueTypeOK
<1>4. CASE QueueTest \/ QueueTimeout
  BY <1>4 DEF QueueTest, QueueTimeout, QueueTypeOK
<1>5. CASE QueueGet
  <2>1. /\ Head(qQueue) \in QueuedCommands /\ Tail(qQueue) \in Seq(QueuedCommands)
        /\ Len(Tail(qQueue)) = Len(qQueue) - 1 /\ Len(qQueue) \in Nat
    BY <1>5 DEF QueueGet, QueueTypeOK
  <2>2. qData' \in QueuedCommands /\ qPc' = "send"
        /\ UNCHANGED <<qSignalled, qDropped, qBase, qOffered>>
    BY <1>5, <2>1 DEF QueueGet
  <2>3. CASE qBlocked = {}
    <3>1. qQueue' = Tail(qQueue) /\ UNCHANGED <<qUnfinished, put>>
      BY <1>5, <2>3 DEF QueueGet
    <3>2. Len(qQueue') <= QueueCap
      BY <2>1, <3>1 DEF QueueTypeOK
    <3> QED
      BY <2>1, <2>2, <3>1, <3>2 DEF QueueTypeOK
  <2>4. CASE qBlocked # {}
    <3>1. PICK c \in qBlocked :
            /\ qQueue' = Append(Tail(qQueue), c) /\ qUnfinished' = qUnfinished + 1
            /\ qPut' = Append(qPut, c) /\ qBlocked' = qBlocked \ {c}
            /\ qEarly' = IF qSignalled THEN qEarly ELSE qEarly \cup {c}
      BY <1>5, <2>4 DEF QueueGet
    <3>2. c \in QueuedCommands
      BY DEF QueueTypeOK
    <3>3. qQueue' \in Seq(QueuedCommands) /\ Len(qQueue') = Len(qQueue)
      BY <2>1, <3>1, <3>2
    <3>4. qPut' \in Seq(QueuedCommands) /\ qUnfinished' \in Nat
      BY <3>1, <3>2 DEF QueueTypeOK
    <3>5. qEarly' \subseteq QueuedCommands /\ qBlocked' \subseteq QueuedCommands
      BY <3>1, <3>2 DEF QueueTypeOK
    <3> QED
      BY <2>2, <3>3, <3>4, <3>5 DEF QueueTypeOK
  <2> QED
    BY <2>3, <2>4
<1>6. CASE QueueSend
  <2>1. qData \in QueuedCommands
    BY <1>6 DEF QueueSend
  <2>2. qBase' \in Seq(QueuedCommands) /\ qPc' \in {"offer", "finally"}
    <3>1. Append(qBase, qData) \in Seq(QueuedCommands) /\ qBase \in Seq(QueuedCommands)
      BY <2>1 DEF QueueTypeOK
    <3>2. CASE qData \in Noops
      BY <1>6, <3>1, <3>2 DEF QueueSend
    <3>3. CASE qData \notin Noops
      BY <1>6, <3>1, <3>3 DEF QueueSend
    <3> QED
      BY <3>2, <3>3
  <2> QED
    BY <1>6, <2>1, <2>2 DEF QueueSend, QueueTypeOK
<1>7. CASE QueueOffer
  BY <1>7 DEF QueueOffer, QueueTypeOK
<1>8. CASE TaskDone
  BY <1>8 DEF TaskDone, QueueTypeOK
<1>9. CASE UNCHANGED queueVars
  BY <1>9 DEF queueVars, QueueTypeOK
<1> QED
  BY <1>1, <1>2, <1>3, <1>4, <1>5, <1>6, <1>7, <1>8, <1>9 DEF QueueNext, SenderStep

-----------------------------------------------------------------------------
(* The order of the commands                                                *)

\* What has left the queue is the beginning of what was put, also when a shutdown has
\* emptied it: it lost the rest, and what is put later comes behind.
Taken == Len(qPut) - Len(qQueue)
Among(c, n) == \E k \in 1 .. n : qPut[k] = c

RestWaits ==
  Len(qQueue) <= Len(qPut) /\ \A i \in 1 .. Len(qQueue) : qQueue[i] = qPut[Taken + i]
PutOnce ==
  /\ \A k, l \in 1 .. Len(qPut) : qPut[k] = qPut[l] => k = l
  /\ \A c \in qBlocked : ~Among(c, Len(qPut))
BaseInOrder ==
  \A i, j \in DOMAIN qBase :
    i < j => \E k, l \in 1 .. Len(qPut) : k < l /\ qPut[k] = qBase[i] /\ qPut[l] = qBase[j]
BaseIsTaken == \A i \in DOMAIN qBase : Among(qBase[i], Taken)
\* the command in the thread's hands was put after all that the Base has
HandIsNext ==
  qPc = "send" => \E n \in 1 .. Taken :
                    qPut[n] = qData /\ \A i \in DOMAIN qBase : Among(qBase[i], n - 1)
InOrder == RestWaits /\ PutOnce /\ BaseInOrder /\ BaseIsTaken /\ HandIsNext

\* Putting a command behind the others disturbs nothing that was put before.
LEMMA PutBehind ==
  ASSUME QueueTypeOK, InOrder, NEW c \in QueuedCommands, ~Among(c, Len(qPut)),
         NEW rest \in Seq(QueuedCommands), Len(rest) <= Len(qQueue),
         \A i \in 1 .. Len(rest) : rest[i] = qPut[Len(qPut) - Len(rest) + i],
         qPut' = Append(qPut, c), qQueue' = Append(rest, c), qBase' = qBase
  PROVE  /\ RestWaits' /\ BaseInOrder' /\ BaseIsTaken'
         /\ \A k, l \in 1 .. Len(qPut') : qPut'[k] = qPut'[l] => k = l
         /\ Taken' = Len(qPut) - Len(rest) /\ Taken <= Taken'
         /\ \A k \in 1 .. Len(qPut) : qPut'[k] = qPut[k]
         /\ \A d \in QueuedCommands : Among(d, Len(qPut))' => d = c \/ Among(d, Len(qPut))
<1> USE DEF QueueTypeOK
<1>1. /\ Len(qPut) \in Nat /\ Len(qQueue) \in Nat /\ Len(rest) \in Nat
      /\ Len(qQueue) <= Len(qPut)
  BY DEF InOrder, RestWaits
<1>2. /\ Len(qPut') = Len(qPut) + 1 /\ qPut'[Len(qPut) + 1] = c
      /\ \A k \in 1 .. Len(qPut) : qPut'[k] = qPut[k]
  OBVIOUS
<1>3. /\ Len(qQueue') = Len(rest) + 1 /\ qQueue'[Len(rest) + 1] = c
      /\ \A k \in 1 .. Len(rest) : qQueue'[k] = rest[k]
  OBVIOUS
<1>4. Taken' = Len(qPut) - Len(rest) /\ Taken <= Taken' /\ Taken \in Nat /\ Taken' \in Nat
      /\ Taken' <= Len(qPut) /\ Taken <= Len(qPut)
  BY <1>1, <1>2, <1>3 DEF Taken
<1>5. RestWaits'
  <2>1. ASSUME NEW i \in 1 .. Len(qQueue')
        PROVE  qQueue'[i] = qPut'[Taken' + i]
    <3>1. CASE i = Len(rest) + 1
      <4>1. Taken' + i = Len(qPut) + 1
        BY <1>1, <1>4, <3>1
      <4> QED
        BY <1>2, <1>3, <3>1, <4>1
    <3>2. CASE i \in 1 .. Len(rest)
      <4>1. Taken' + i \in 1 .. Len(qPut)
        BY <1>1, <1>4, <3>2
      <4>2. rest[i] = qPut[Taken' + i]
        BY <1>4, <3>2
      <4> QED
        BY <1>2, <1>3, <3>2, <4>1, <4>2
    <3>3. i = Len(rest) + 1 \/ i \in 1 .. Len(rest)
      BY <1>1, <1>3
    <3> QED
      BY <3>1, <3>2, <3>3
  <2>2. Len(qQueue') <= Len(qPut')
    BY <1>1, <1>2, <1>3
  <2> QED
    BY <2>1, <2>2 DEF RestWaits
<1>6. \A k \in 1 .. Len(qPut) : qPut[k] # c
  BY DEF Among
<1>7. ASSUME NEW k \in 1 .. Len(qPut'), NEW l \in 1 .. Len(qPut'), qPut'[k] = qPut'[l]
      PROVE  k = l
  <2>1. k \in 1 .. Len(qPut) \/ k = Len(qPut) + 1
    BY <1>1, <1>2
  <2>2. l \in 1 .. Len(qPut) \/ l = Len(qPut) + 1
    BY <1>1, <1>2
  <2> QED
    BY <1>2, <1>6, <1>7, <2>1, <2>2 DEF InOrder, PutOnce
<1>8. BaseInOrder'
  <2> SUFFICES ASSUME NEW i \in DOMAIN qBase, NEW j \in DOMAIN qBase, i < j
               PROVE  \E k, l \in 1 .. Len(qPut') :
                        k < l /\ qPut'[k] = qBase[i] /\ qPut'[l] = qBase[j]
    BY DEF BaseInOrder
  <2>1. PICK k \in 1 .. Len(qPut), l \in 1 .. Len(qPut) :
          k < l /\ qPut[k] = qBase[i] /\ qPut[l] = qBase[j]
    BY DEF InOrder, BaseInOrder
  <2>2. k \in 1 .. Len(qPut') /\ l \in 1 .. Len(qPut')
    BY <1>1, <1>2
  <2> QED
    BY <1>2, <2>1, <2>2
<1>9. BaseIsTaken'
  <2> SUFFICES ASSUME NEW i \in DOMAIN qBase
               PROVE  \E k \in 1 .. Taken' : qPut'[k] = qBase[i]
    BY DEF BaseIsTaken, Among
  <2>1. PICK k \in 1 .. Taken : qPut[k] = qBase[i]
    BY DEF InOrder, BaseIsTaken, Among
  <2>2. k \in 1 .. Taken' /\ k \in 1 .. Len(qPut)
    BY <1>1, <1>4
  <2> QED
    BY <1>2, <2>1, <2>2
<1>10. ASSUME NEW d \in QueuedCommands, Among(d, Len(qPut))'
       PROVE  d = c \/ Among(d, Len(qPut))
  <2>1. PICK k \in 1 .. Len(qPut') : qPut'[k] = d
    BY <1>10 DEF Among
  <2>2. k \in 1 .. Len(qPut) \/ k = Len(qPut) + 1
    BY <1>1, <1>2
  <2> QED
    BY <1>2, <2>1, <2>2 DEF Among
<1> QED
  BY <1>2, <1>4, <1>5, <1>7, <1>8, <1>9, <1>10

\* Taking more from the queue, or losing it, moves nothing.
LEMMA TakeOut ==
  ASSUME QueueTypeOK, InOrder, UNCHANGED <<qPut, qBase>>,
         NEW n \in Nat, n <= Len(qQueue),
         qQueue' \in Seq(QueuedCommands), Len(qQueue') = Len(qQueue) - n,
         \A i \in 1 .. Len(qQueue') : qQueue'[i] = qQueue[i + n]
  PROVE  RestWaits' /\ BaseInOrder' /\ BaseIsTaken' /\ Taken' = Taken + n
<1> USE DEF QueueTypeOK
<1>1. /\ Len(qPut) \in Nat /\ Len(qQueue) \in Nat /\ Len(qQueue') \in Nat
      /\ Len(qQueue) <= Len(qPut)
  BY DEF InOrder, RestWaits
<1>2. Taken' = Taken + n /\ Taken \in Nat /\ Taken' \in Nat
  BY <1>1 DEF Taken
<1>3. ASSUME NEW i \in 1 .. Len(qQueue')
      PROVE  qQueue'[i] = qPut[Taken' + i]
  <2>1. i + n \in 1 .. Len(qQueue) /\ Taken + (i + n) = Taken' + i
    BY <1>1, <1>2
  <2>2. qQueue[i + n] = qPut[Taken + (i + n)]
    BY <2>1 DEF InOrder, RestWaits
  <2> QED
    BY <2>1, <2>2
<1>4. RestWaits'
  <2>1. Len(qQueue') <= Len(qPut')
    BY <1>1
  <2> QED
    BY <1>3, <2>1 DEF RestWaits
<1>5. BaseInOrder'
  BY DEF InOrder, BaseInOrder
<1>6. BaseIsTaken'
  <2> SUFFICES ASSUME NEW i \in DOMAIN qBase
               PROVE  \E k \in 1 .. Taken' : qPut[k] = qBase[i]
    BY DEF BaseIsTaken, Among
  <2>1. PICK k \in 1 .. Taken : qPut[k] = qBase[i]
    BY DEF InOrder, BaseIsTaken, Among
  <2>2. k \in 1 .. Taken'
    BY <1>2
  <2> QED
    BY <2>1, <2>2
<1> QED
  BY <1>2, <1>4, <1>5, <1>6

\* What the thread has in its hands stays ahead while commands are put or dropped.
LEMMA HandStays ==
  ASSUME QueueTypeOK, InOrder, Taken <= Taken', Taken' \in Nat, Taken <= Len(qPut),
         \A k \in 1 .. Len(qPut) : qPut'[k] = qPut[k], UNCHANGED <<qPc, qData, qBase>>
  PROVE  HandIsNext'
<1> SUFFICES ASSUME qPc = "send"
             PROVE  \E n \in 1 .. Taken' :
                      /\ qPut'[n] = qData
                      /\ \A i \in DOMAIN qBase : \E k \in 1 .. n - 1 : qPut'[k] = qBase[i]
  BY DEF HandIsNext, Among
<1>0. Taken \in Nat /\ Len(qPut) \in Nat
  BY DEF QueueTypeOK, InOrder, RestWaits, Taken
<1>1. PICK n \in 1 .. Taken :
        /\ qPut[n] = qData
        /\ \A i \in DOMAIN qBase : \E k \in 1 .. n - 1 : qPut[k] = qBase[i]
  BY DEF InOrder, HandIsNext, Among
<1>2. n \in 1 .. Taken' /\ n \in 1 .. Len(qPut) /\ \A k \in 1 .. n - 1 : k \in 1 .. Len(qPut)
  BY <1>0
<1> QED
  BY <1>1, <1>2

LEMMA OrderStep ==
  QueueTypeOK /\ HasCommand /\ InOrder /\ [QueueNext]_queueVars => InOrder'
<1> SUFFICES ASSUME QueueTypeOK, HasCommand, InOrder, [QueueNext]_queueVars
             PROVE  InOrder'
  OBVIOUS
<1>0. /\ Len(qPut) \in Nat /\ Len(qQueue) \in Nat /\ Len(qQueue) <= Len(qPut)
      /\ Taken \in Nat /\ Taken <= Len(qPut) /\ qQueue \in Seq(QueuedCommands)
  BY DEF QueueTypeOK, InOrder, RestWaits, Taken
<1>1. ASSUME NEW c \in QueuedCommands, Enqueue(c)
      PROVE  InOrder'
  <2>1. ~Among(c, Len(qPut)) /\ c \notin qBlocked
    BY <1>1 DEF Enqueue, Contains, Among
  <2>2. CASE Len(qQueue) < QueueCap
    <3>1. /\ qQueue' = Append(qQueue, c) /\ qPut' = Append(qPut, c)
          /\ UNCHANGED <<qBlocked, qPc, qData, qBase>>
      BY <1>1, <2>2 DEF Enqueue, Put
    <3>2. \A i \in 1 .. Len(qQueue) : qQueue[i] = qPut[Len(qPut) - Len(qQueue) + i]
      BY DEF InOrder, RestWaits, Taken
    <3>3. /\ RestWaits' /\ BaseInOrder' /\ BaseIsTaken'
          /\ \A k, l \in 1 .. Len(qPut') : qPut'[k] = qPut'[l] => k = l
          /\ Taken' = Len(qPut) - Len(qQueue)
          /\ \A k \in 1 .. Len(qPut) : qPut'[k] = qPut[k]
          /\ \A d \in QueuedCommands : Among(d, Len(qPut))' => d = c \/ Among(d, Len(qPut))
      BY <1>0, <2>1, <3>1, <3>2, PutBehind
    <3>4. PutOnce'
      BY <2>1, <3>1, <3>3 DEF InOrder, PutOnce, QueueTypeOK
    <3>5. HandIsNext'
      BY <1>0, <3>1, <3>3, HandStays DEF Taken
    <3> QED
      BY <3>3, <3>4, <3>5 DEF InOrder
  <2>3. CASE ~(Len(qQueue) < QueueCap)
    <3>1. /\ qBlocked' = qBlocked \cup {c} /\ UNCHANGED <<qQueue, qPut, qPc, qData, qBase>>
      BY <1>1, <2>3 DEF Enqueue
    <3> QED
      BY <2>1, <3>1 DEF InOrder, RestWaits, PutOnce, BaseInOrder, BaseIsTaken, HandIsNext,
                        Among, Taken
  <2> QED
    BY <2>2, <2>3
<1>2. CASE QueueShutdown \/ QueueTest \/ QueueTimeout \/ QueueOffer \/ TaskDone
  <2>1. UNCHANGED <<qQueue, qPut, qBlocked, qBase>> /\ (qPc' # "send" \/ UNCHANGED <<qPc, qData>>)
    BY <1>2 DEF QueueShutdown, QueueTest, QueueTimeout, QueueOffer, TaskDone
  <2> QED
    <3>1. RestWaits' /\ PutOnce' /\ BaseInOrder' /\ BaseIsTaken'
      BY <2>1 DEF InOrder, RestWaits, PutOnce, BaseInOrder, BaseIsTaken, Among, Taken
    <3>2. HandIsNext'
      <4>1. CASE UNCHANGED <<qPc, qData>>
        BY <2>1, <4>1 DEF InOrder, HandIsNext, Taken, Among
      <4>2. CASE qPc' # "send"
        BY <4>2 DEF HandIsNext
      <4> QED
        BY <2>1, <4>1, <4>2
    <3> QED
      BY <3>1, <3>2 DEF InOrder
<1>3. CASE ImmediateShutdown
  <2>1. qQueue' = << >> /\ UNCHANGED <<qPut, qBlocked, qPc, qData, qBase>>
    BY <1>3 DEF ImmediateShutdown
  <2>2. RestWaits' /\ BaseInOrder' /\ BaseIsTaken' /\ Taken' = Taken + Len(qQueue)
    <3> DEFINE n == Len(qQueue)
    <3>1. /\ qQueue' \in Seq(QueuedCommands) /\ Len(qQueue') = n - n /\ n \in Nat /\ n <= n
          /\ \A i \in 1 .. Len(qQueue') : qQueue'[i] = qQueue[i + n]
      BY <1>0, <2>1
    <3> QED
      BY <2>1, <3>1, TakeOut
  <2>3. HandIsNext'
    BY <1>0, <2>1, <2>2, HandStays
  <2> QED
    BY <2>1, <2>2, <2>3 DEF InOrder, PutOnce, Among
<1>4. CASE QueueGet
  <2> DEFINE rest == Tail(qQueue)
  <2>1. /\ rest \in Seq(QueuedCommands) /\ Len(rest) = Len(qQueue) - 1 /\ Len(qQueue) > 0
        /\ \A i \in 1 .. Len(rest) : rest[i] = qQueue[i + 1]
        /\ Head(qQueue) = qQueue[1]
    BY <1>0, <1>4 DEF QueueGet
  <2> HIDE DEF rest
  <2>2. qQueue[1] = qPut[Taken + 1] /\ Taken + 1 <= Len(qPut)
    BY <1>0, <2>1 DEF InOrder, RestWaits, Taken
  <2>3. qData' = qPut[Taken + 1] /\ qPc' = "send" /\ qBase' = qBase
    BY <1>4, <2>1, <2>2 DEF QueueGet
  <2>4. ASSUME NEW i \in DOMAIN qBase
        PROVE  \E k \in 1 .. Taken : qPut[k] = qBase[i]
    BY DEF InOrder, BaseIsTaken, Among
  <2>5. CASE qBlocked = {}
    <3>1. qQueue' = rest /\ UNCHANGED <<qPut, qBlocked>>
      BY <1>4, <2>5 DEF QueueGet, rest
    <3>2. RestWaits' /\ BaseInOrder' /\ BaseIsTaken' /\ Taken' = Taken + 1
      BY <1>0, <2>1, <2>3, <3>1, TakeOut
    <3>3. HandIsNext'
      <4>1. Taken + 1 \in 1 .. Taken' /\ (Taken + 1) - 1 = Taken
        BY <1>0, <3>2
      <4> QED
        BY <2>3, <2>4, <3>1, <4>1 DEF HandIsNext, Among
    <3> QED
      BY <3>1, <3>2, <3>3 DEF InOrder, PutOnce, Among
  <2>6. CASE qBlocked # {}
    <3>1. PICK c \in qBlocked :
            qQueue' = Append(rest, c) /\ qPut' = Append(qPut, c) /\ qBlocked' = qBlocked \ {c}
      BY <1>4, <2>6 DEF QueueGet, rest
    <3>2. c \in QueuedCommands /\ ~Among(c, Len(qPut)) /\ qBlocked \subseteq QueuedCommands
      BY DEF InOrder, PutOnce, QueueTypeOK
    <3>3. ASSUME NEW i \in 1 .. Len(rest)
          PROVE  rest[i] = qPut[Len(qPut) - Len(rest) + i]
      <4>1. i + 1 \in 1 .. Len(qQueue) /\ Taken + (i + 1) = Len(qPut) - Len(rest) + i
        <5>1. Taken = Len(qPut) - Len(qQueue)
          BY DEF Taken
        <5>2. Len(rest) \in Nat /\ Len(qQueue) = Len(rest) + 1 /\ i \in Nat /\ i >= 1 /\ i <= Len(rest)
          BY <1>0, <2>1
        <5> QED
          BY <1>0, <5>1, <5>2
      <4>2. qQueue[i + 1] = qPut[Taken + (i + 1)]
        BY <4>1 DEF InOrder, RestWaits
      <4> QED
        BY <2>1, <4>1, <4>2
    <3>4. Len(rest) <= Len(qQueue)
      BY <1>0, <2>1
    <3>5. /\ RestWaits' /\ BaseInOrder' /\ BaseIsTaken'
          /\ \A k, l \in 1 .. Len(qPut') : qPut'[k] = qPut'[l] => k = l
          /\ Taken' = Len(qPut) - Len(rest)
          /\ \A k \in 1 .. Len(qPut) : qPut'[k] = qPut[k]
          /\ \A d \in QueuedCommands : Among(d, Len(qPut))' => d = c \/ Among(d, Len(qPut))
      BY <2>1, <2>3, <3>1, <3>2, <3>3, <3>4, PutBehind
    <3>6. PutOnce'
      BY <3>1, <3>2, <3>5 DEF InOrder, PutOnce
    <3>7. HandIsNext'
      <4>1. /\ Taken + 1 \in 1 .. Taken' /\ (Taken + 1) - 1 = Taken
            /\ Taken + 1 \in 1 .. Len(qPut) /\ \A k \in 1 .. Taken : k \in 1 .. Len(qPut)
        BY <1>0, <2>1, <2>2, <3>5 DEF Taken
      <4>2. qPut'[Taken + 1] = qData'
        BY <2>3, <3>5, <4>1
      <4>3. \A i \in DOMAIN qBase' : \E k \in 1 .. (Taken + 1) - 1 : qPut'[k] = qBase'[i]
        BY <2>3, <2>4, <3>5, <4>1
      <4> QED
        BY <4>1, <4>2, <4>3 DEF HandIsNext, Among
    <3> QED
      BY <3>5, <3>6, <3>7 DEF InOrder
  <2> QED
    BY <2>5, <2>6
<1>5. CASE QueueSend
  <2>1. /\ qPc = "send" /\ qPc' # "send" /\ UNCHANGED <<qQueue, qPut, qBlocked>>
        /\ qBase' = qBase \/ qBase' = Append(qBase, qData)
    <3>1. CASE qData \in Noops
      BY <1>5, <3>1 DEF QueueSend
    <3>2. CASE qData \notin Noops
      BY <1>5, <3>2 DEF QueueSend
    <3> QED
      BY <3>1, <3>2
  <2>2. RestWaits' /\ PutOnce' /\ HandIsNext'
    BY <2>1 DEF InOrder, RestWaits, PutOnce, HandIsNext, Among, Taken
  <2>3. CASE qBase' = qBase
    BY <2>1, <2>2, <2>3 DEF InOrder, BaseInOrder, BaseIsTaken, Among, Taken
  <2>4. CASE qBase' = Append(qBase, qData)
    <3>1. PICK n \in 1 .. Taken :
            /\ qPut[n] = qData
            /\ \A i \in DOMAIN qBase : \E k \in 1 .. n - 1 : qPut[k] = qBase[i]
      BY <2>1 DEF InOrder, HandIsNext, Among
    <3>2. /\ qBase \in Seq(QueuedCommands) /\ Len(qBase) \in Nat /\ DOMAIN qBase = 1 .. Len(qBase)
          /\ DOMAIN qBase' = 1 .. Len(qBase) + 1 /\ qBase'[Len(qBase) + 1] = qData
          /\ \A i \in 1 .. Len(qBase) : qBase'[i] = qBase[i]
      BY <1>5, <2>4 DEF QueueTypeOK, QueueSend, HasCommand
    <3>3. Taken' = Taken /\ n \in 1 .. Len(qPut)
      BY <1>0, <2>1 DEF Taken
    <3>4. BaseIsTaken'
      <4> SUFFICES ASSUME NEW i \in DOMAIN qBase'
                   PROVE  \E k \in 1 .. Taken : qPut[k] = qBase'[i]
        BY <2>1, <3>3 DEF BaseIsTaken, Among
      <4>1. CASE i \in 1 .. Len(qBase)
        BY <3>2, <4>1 DEF InOrder, BaseIsTaken, Among
      <4>2. CASE i = Len(qBase) + 1
        BY <3>1, <3>2, <4>2
      <4> QED
        BY <3>2, <4>1, <4>2
    <3>5. BaseInOrder'
      <4> SUFFICES ASSUME NEW i \in DOMAIN qBase', NEW j \in DOMAIN qBase', i < j
                   PROVE  \E k, l \in 1 .. Len(qPut) :
                            k < l /\ qPut[k] = qBase'[i] /\ qPut[l] = qBase'[j]
        BY <2>1 DEF BaseInOrder
      <4>1. i \in 1 .. Len(qBase)
        BY <3>2
      <4>2. CASE j \in 1 .. Len(qBase)
        BY <3>2, <4>1, <4>2 DEF InOrder, BaseInOrder
      <4>3. CASE j = Len(qBase) + 1
        <5>1. PICK k \in 1 .. n - 1 : qPut[k] = qBase[i]
          BY <3>1, <3>2, <4>1
        <5>2. k \in 1 .. Len(qPut) /\ k < n
          BY <1>0, <3>3
        <5> QED
          BY <3>1, <3>2, <3>3, <4>1, <4>3, <5>1, <5>2
      <4> QED
        BY <3>2, <4>2, <4>3
    <3> QED
      BY <2>2, <3>4, <3>5 DEF InOrder
  <2> QED
    BY <2>1, <2>3, <2>4
<1>6. CASE UNCHANGED queueVars
  BY <1>6 DEF queueVars, InOrder, RestWaits, PutOnce, BaseInOrder, BaseIsTaken, HandIsNext,
              Among, Taken
<1> QED
  BY <1>1, <1>2, <1>3, <1>4, <1>5, <1>6 DEF QueueNext, SenderStep

-----------------------------------------------------------------------------
(* The system's state and the accounting of the queue                       *)

StateFollows ==
  /\ StateFollowsTheBase
  /\ qPc = "offer" => qData \in Noops \/ Contains(qBase, qData)

LEMMA BaseGrows ==
  ASSUME QueueTypeOK, NEW c \in QueuedCommands, NEW d \in QueuedCommands,
         qBase' = Append(qBase, d), Contains(qBase, c) \/ c = d
  PROVE  Contains(qBase, c)'
<1>1. /\ Len(qBase) \in Nat /\ Len(qBase') = Len(qBase) + 1 /\ qBase'[Len(qBase) + 1] = d
      /\ \A i \in 1 .. Len(qBase) : qBase'[i] = qBase[i]
  BY DEF QueueTypeOK
<1>2. CASE c = d
  BY <1>1, <1>2 DEF Contains
<1>3. CASE Contains(qBase, c)
  <2>1. PICK i \in 1 .. Len(qBase) : qBase[i] = c
    BY <1>3 DEF Contains
  <2>2. i \in 1 .. Len(qBase') /\ qBase'[i] = c
    BY <1>1, <2>1
  <2> QED
    BY <2>2 DEF Contains
<1> QED
  BY <1>2, <1>3

LEMMA FollowStep ==
  QueueTypeOK /\ HasCommand /\ StateFollows /\ [QueueNext]_queueVars => StateFollows'
<1> SUFFICES ASSUME QueueTypeOK, HasCommand, StateFollows, [QueueNext]_queueVars
             PROVE  StateFollows'
  OBVIOUS
<1>1. ASSUME NEW c \in QueuedCommands, Enqueue(c)
      PROVE  StateFollows'
  BY <1>1 DEF Enqueue, StateFollows, StateFollowsTheBase, Contains
<1>2. CASE QueueShutdown \/ ImmediateShutdown
  BY <1>2 DEF QueueShutdown, ImmediateShutdown, StateFollows, StateFollowsTheBase, Contains
<1>3. CASE QueueTest \/ QueueGet \/ QueueTimeout \/ TaskDone
  <2>1. qPc' # "offer" /\ UNCHANGED <<qBase, qOffered>>
    BY <1>3 DEF QueueTest, QueueGet, QueueTimeout, TaskDone
  <2> QED
    BY <2>1 DEF StateFollows, StateFollowsTheBase, Contains
<1>4. CASE QueueSend
  <2>1. qData \in QueuedCommands /\ qOffered' = qOffered /\ qData' = qData
        /\ qOffered \subseteq QueuedCommands
    BY <1>4 DEF QueueSend, HasCommand, QueueTypeOK
  <2>2. CASE qBase' = Append(qBase, qData)
    <3>1. \A c \in qOffered : c \in Noops \/ Contains(qBase, c)'
      BY <2>1, <2>2, BaseGrows DEF StateFollows, StateFollowsTheBase
    <3>2. Contains(qBase, qData)'
      <4> DEFINE d == qData
      <4>1. d \in QueuedCommands /\ d' = d
        BY <2>1
      <4>2. \E i \in 1 .. Len(qBase') : qBase'[i] = qData'
        BY <2>1, <2>2 DEF QueueTypeOK
      <4> QED
        BY <4>2 DEF Contains
    <3> QED
      BY <2>1, <3>1, <3>2 DEF StateFollows, StateFollowsTheBase
  <2>3. CASE qBase' = qBase
    <3>1. qPc' = "offer" => qData \in Noops \/ qBase' = Append(qBase, qData)
      BY <1>4 DEF QueueSend
    <3>2. qBase # Append(qBase, qData)
      <4>1. qBase \in Seq(QueuedCommands)
        BY DEF QueueTypeOK
      <4>2. Len(Append(qBase, qData)) = Len(qBase) + 1 /\ Len(qBase) \in Nat
        BY <2>1, <4>1
      <4>3. Len(qBase) # Len(qBase) + 1
        BY <4>2
      <4> QED
        BY <4>2, <4>3
    <3> QED
      BY <2>1, <2>3, <3>1, <3>2 DEF StateFollows, StateFollowsTheBase, Contains
  <2>4. qBase' = qBase \/ qBase' = Append(qBase, qData)
    <3>1. CASE qData \in Noops
      BY <1>4, <3>1 DEF QueueSend
    <3>2. CASE qData \notin Noops
      BY <1>4, <3>2 DEF QueueSend
    <3> QED
      BY <3>1, <3>2
  <2> QED
    BY <2>2, <2>3, <2>4
<1>5. CASE QueueOffer
  BY <1>5 DEF QueueOffer, StateFollows, StateFollowsTheBase, Contains
<1>6. CASE UNCHANGED queueVars
  BY <1>6 DEF queueVars, StateFollows, StateFollowsTheBase, Contains
<1> QED
  BY <1>1, <1>2, <1>3, <1>4, <1>5, <1>6 DEF QueueNext, SenderStep

\* Until an immediate shutdown the queue counts what it holds and what is in hand.
InHand == IF qPc \in {"send", "offer", "finally"} THEN 1 ELSE 0
Counts == ~qDropped => qUnfinished = Len(qQueue) + InHand /\ qPc # "dead"

LEMMA CountStep == QueueTypeOK /\ Counts /\ [QueueNext]_queueVars => Counts'
<1> USE DEF InHand
<1> SUFFICES ASSUME QueueTypeOK, Counts, [QueueNext]_queueVars
             PROVE  Counts'
  OBVIOUS
<1>0. qQueue \in Seq(QueuedCommands) /\ Len(qQueue) \in Nat /\ qUnfinished \in Nat
  BY DEF QueueTypeOK
<1>1. ASSUME NEW c \in QueuedCommands, Enqueue(c)
      PROVE  Counts'
  <2>1. CASE Len(qQueue) < QueueCap
    <3>1. /\ qQueue' = Append(qQueue, c) /\ qUnfinished' = qUnfinished + 1
          /\ UNCHANGED <<qPc, qDropped>>
      BY <1>1, <2>1 DEF Enqueue, Put
    <3>2. Len(qQueue') = Len(qQueue) + 1
      BY <1>0, <3>1
    <3> QED
      BY <1>0, <3>1, <3>2 DEF Counts
  <2>2. CASE ~(Len(qQueue) < QueueCap)
    BY <1>1, <2>2 DEF Enqueue, Counts
  <2> QED
    BY <2>1, <2>2
<1>2. CASE QueueShutdown \/ ImmediateShutdown
  BY <1>2 DEF QueueShutdown, ImmediateShutdown, Counts
<1>3. CASE QueueTest \/ QueueTimeout
  BY <1>3 DEF QueueTest, QueueTimeout, Counts
<1>4. CASE QueueGet
  <2>1. /\ Tail(qQueue) \in Seq(QueuedCommands) /\ Len(Tail(qQueue)) = Len(qQueue) - 1
        /\ qPc = "get" /\ qPc' = "send" /\ qDropped' = qDropped
    BY <1>0, <1>4 DEF QueueGet
  <2>2. CASE qBlocked = {}
    BY <1>0, <1>4, <2>1, <2>2 DEF QueueGet, Counts
  <2>3. CASE qBlocked # {}
    <3>1. PICK c \in qBlocked :
            qQueue' = Append(Tail(qQueue), c) /\ qUnfinished' = qUnfinished + 1
      BY <1>4, <2>3 DEF QueueGet
    <3>2. Len(qQueue') = Len(qQueue)
      <4>1. c \in QueuedCommands
        BY DEF QueueTypeOK
      <4> QED
        BY <1>0, <2>1, <3>1, <4>1
    <3> QED
      BY <1>0, <2>1, <3>1, <3>2 DEF Counts
  <2> QED
    BY <2>2, <2>3
<1>5. CASE QueueSend
  <2>1. qPc = "send" /\ qPc' \in {"offer", "finally"} /\ UNCHANGED <<qQueue, qUnfinished, qDropped>>
    <3>1. CASE qData \in Noops
      BY <1>5, <3>1 DEF QueueSend
    <3>2. CASE qData \notin Noops
      BY <1>5, <3>2 DEF QueueSend
    <3> QED
      BY <3>1, <3>2
  <2> QED
    BY <2>1 DEF Counts
<1>6. CASE QueueOffer
  BY <1>6 DEF QueueOffer, Counts
<1>7. CASE TaskDone
  BY <1>0, <1>7 DEF TaskDone, Counts
<1>8. CASE UNCHANGED queueVars
  BY <1>8 DEF queueVars, Counts
<1> QED
  BY <1>1, <1>2, <1>3, <1>4, <1>5, <1>6, <1>7, <1>8 DEF QueueNext, SenderStep

-----------------------------------------------------------------------------
QueueInvariant == QueueTypeOK /\ HasCommand /\ InOrder /\ StateFollows /\ Counts

LEMMA QueueInvariantHolds == QueueSpec => []QueueInvariant
<1>1. QueueInit => QueueInvariant
  <2> SUFFICES ASSUME QueueInit PROVE QueueInvariant
    OBVIOUS
  <2>1. QueueTypeOK /\ HasCommand
    BY TypeInit
  <2>2. Len(qQueue) = 0 /\ Len(qPut) = 0 /\ DOMAIN qBase = {} /\ qBlocked = {} /\ qPc = "test"
    BY DEF QueueInit
  <2>3. InOrder
    BY <2>2 DEF InOrder, RestWaits, PutOnce, BaseInOrder, BaseIsTaken, HandIsNext
  <2>4. StateFollows /\ Counts
    BY <2>2 DEF QueueInit, StateFollows, StateFollowsTheBase, Counts, InHand
  <2> QED
    BY <2>1, <2>3, <2>4 DEF QueueInvariant
<1>2. QueueInvariant /\ [QueueNext]_queueVars => QueueInvariant'
  BY TypeStep, OrderStep, FollowStep, CountStep DEF QueueInvariant
<1> QED
  BY <1>1, <1>2, PTL DEF QueueSpec

\* The variables have their types in every reachable state: the queue stays within its size.
THEOREM QueueTypeCorrect == QueueSpec => []QueueTypeOK
<1>1. QueueInvariant => QueueTypeOK
  BY DEF QueueInvariant
<1> QED
  BY <1>1, QueueInvariantHolds, PTL

\* The thread between the queue and the Base keeps the order in which commands were put,
\* tells the dispatcher of nothing that was not sent, and is ended by the accounting of
\* the queue only after an immediate shutdown (CommBufferSingleton.run).
THEOREM SenderIsSafe == QueueSpec => []QueueSafety
<1>1. QueueInvariant => QueueSafety
  <2> SUFFICES ASSUME QueueInvariant PROVE QueueSafety
    OBVIOUS
  <2>1. qPut \in Seq(QueuedCommands) /\ qBase \in Seq(QueuedCommands) /\ DOMAIN qPut = 1 .. Len(qPut)
        /\ DOMAIN qBase \subseteq Int
    BY DEF QueueInvariant, QueueTypeOK
  <2>2. \A i, j \in DOMAIN qBase : i < j =>
          \E k, l \in DOMAIN qPut : k < l /\ qPut[k] = qBase[i] /\ qPut[l] = qBase[j]
    BY <2>1 DEF QueueInvariant, InOrder, BaseInOrder
  <2>3. ASSUME NEW i \in DOMAIN qBase, NEW j \in DOMAIN qBase, i < j
        PROVE  qBase[i] # qBase[j]
    <3>1. PICK k \in 1 .. Len(qPut), l \in 1 .. Len(qPut) :
            k < l /\ qPut[k] = qBase[i] /\ qPut[l] = qBase[j]
      BY <2>1, <2>2, <2>3
    <3>2. k # l
      BY <3>1
    <3> QED
      BY <3>1, <3>2 DEF QueueInvariant, InOrder, PutOnce
  <2>4. IsInjective(qBase)
    <3> SUFFICES ASSUME NEW i \in DOMAIN qBase, NEW j \in DOMAIN qBase, i # j
                 PROVE  qBase[i] # qBase[j]
      BY DEF IsInjective
    <3>1. i < j \/ j < i
      BY <2>1
    <3> QED
      BY <2>3, <3>1
  <2>5. StateFollowsTheBase /\ OnlyImmediateShutdownKills
    BY DEF QueueInvariant, StateFollows, Counts, OnlyImmediateShutdownKills
  <2> QED
    BY <2>2, <2>4, <2>5 DEF QueueSafety, BaseKeepsTheOrder
<1> QED
  BY <1>1, QueueInvariantHolds, PTL


-----------------------------------------------------------------------------
(* How the thread ends, and who waits for room                              *)

EarlyWerePut == \A c \in qEarly : \E i \in 1 .. Len(qPut) : qPut[i] = c
EndIsAsked == qPc = "ended" => qSignalled

EndInvariant == EarlyWerePut /\ EndIsAsked /\ EndsWhenEmpty /\ WaitsWhileFull

\* A command that is put stands behind the others, which stay where they are.
LEMMA PutCommand ==
  ASSUME NEW s \in Seq(QueuedCommands), NEW c \in QueuedCommands
  PROVE  /\ Len(s) \in Nat /\ Len(Append(s, c)) = Len(s) + 1
         /\ \A i \in 1 .. Len(s) : i \in 1 .. Len(s) + 1 /\ Append(s, c)[i] = s[i]
         /\ Append(s, c)[Len(s) + 1] = c /\ Len(s) + 1 \in 1 .. Len(s) + 1
OBVIOUS

LEMMA EndStep == QueueTypeOK /\ EndInvariant /\ [QueueNext]_queueVars => EndInvariant'
<1> SUFFICES ASSUME QueueTypeOK, EndInvariant, [QueueNext]_queueVars PROVE EndInvariant'
  OBVIOUS
<1>0. /\ qQueue \in Seq(QueuedCommands) /\ qPut \in Seq(QueuedCommands) /\ Len(qQueue) \in Nat
      /\ Len(qQueue) <= QueueCap /\ QueueCap \in Nat /\ qBlocked \subseteq QueuedCommands
  BY QueueConstants DEF QueueTypeOK
<1> USE DEF EndInvariant, EarlyWerePut, EndIsAsked, EndsWhenEmpty, WaitsWhileFull
<1>1. ASSUME NEW c \in QueuedCommands, qPut' = Append(qPut, c), qSignalled' = qSignalled,
             qEarly' = IF qSignalled THEN qEarly ELSE qEarly \cup {c}
      PROVE  EarlyWerePut'
  <2>1. /\ Len(qPut') = Len(qPut) + 1 /\ Len(qPut) \in Nat
        /\ \A i \in 1 .. Len(qPut) : i \in 1 .. Len(qPut') /\ qPut'[i] = qPut[i]
        /\ qPut'[Len(qPut) + 1] = c /\ Len(qPut) + 1 \in 1 .. Len(qPut')
    BY <1>0, <1>1, PutCommand
  <2> QED
    BY <1>1, <2>1
<1>2. ASSUME NEW c \in QueuedCommands, Enqueue(c)
      PROVE  EndInvariant'
  <2>1. ~Contains(qPut, c) /\ UNCHANGED <<qPc, qSignalled, qDropped>>
    BY <1>2 DEF Enqueue
  <2>2. CASE Len(qQueue) < QueueCap
    <3>1. /\ qQueue' = Append(qQueue, c) /\ qPut' = Append(qPut, c) /\ qBlocked' = qBlocked
          /\ qEarly' = IF qSignalled THEN qEarly ELSE qEarly \cup {c}
      BY <1>2, <2>2 DEF Enqueue, Put
    <3>2. EarlyWerePut'
      BY <1>1, <2>1, <3>1
    <3>3. EndIsAsked'
      BY <2>1
    <3>4. EndsWhenEmpty'
      <4> SUFFICES ASSUME qPc = "ended", NEW d \in qEarly, NEW i \in 1 .. Len(qQueue'), qQueue'[i] = d
                   PROVE  FALSE
        BY <2>1, <3>1 DEF Contains
      <4>1. d # c
        BY <2>1 DEF Contains
      <4>2. i \in 1 .. Len(qQueue) /\ qQueue[i] = d
        BY <1>0, <3>1, <4>1, PutCommand
      <4> QED
        BY <4>2 DEF Contains
    <3>5. WaitsWhileFull'
      BY <1>0, <2>1, <2>2, <3>1
    <3> QED
      BY <3>2, <3>3, <3>4, <3>5
  <2>3. CASE ~(Len(qQueue) < QueueCap)
    <3>1. UNCHANGED <<qQueue, qPut, qEarly>>
      BY <1>2, <2>3 DEF Enqueue
    <3>2. Len(qQueue) = QueueCap
      BY <1>0, <2>3
    <3>3. EarlyWerePut' /\ EndIsAsked' /\ WaitsWhileFull'
      BY <2>1, <3>1, <3>2
    <3>4. EndsWhenEmpty'
      BY <2>1, <3>1 DEF Contains
    <3> QED
      BY <3>3, <3>4
  <2> QED
    BY <2>2, <2>3
<1>3. CASE QueueShutdown
  BY <1>3 DEF QueueShutdown, Contains
<1>4. CASE ImmediateShutdown
  <2>1. Len(qQueue') = 0 /\ qDropped' /\ UNCHANGED <<qPut, qEarly, qPc>> /\ qSignalled'
    BY <1>4 DEF ImmediateShutdown
  <2> QED
    BY <2>1 DEF Contains
<1>5. CASE QueueTest
  <2>1. /\ UNCHANGED <<qQueue, qPut, qEarly, qBlocked, qSignalled, qDropped>>
        /\ qPc' = "ended" => qQueue = << >> /\ qSignalled
    BY <1>5 DEF QueueTest, MayLeave
  <2>2. qPc' = "ended" => Len(qQueue') = 0
    BY <2>1
  <2> QED
    BY <2>1, <2>2 DEF Contains
<1>6. CASE QueueGet
  <2>1. qPc' = "send" /\ UNCHANGED <<qSignalled, qDropped>> /\ Len(Tail(qQueue)) = Len(qQueue) - 1
        /\ Tail(qQueue) \in Seq(QueuedCommands)
    BY <1>0, <1>6 DEF QueueGet
  <2>2. CASE qBlocked = {}
    <3>1. UNCHANGED <<qPut, qEarly, qBlocked>>
      BY <1>6, <2>2 DEF QueueGet
    <3> QED
      BY <2>1, <2>2, <3>1
  <2>3. CASE qBlocked # {}
    <3>1. PICK c \in qBlocked :
            /\ qQueue' = Append(Tail(qQueue), c) /\ qPut' = Append(qPut, c)
            /\ qEarly' = IF qSignalled THEN qEarly ELSE qEarly \cup {c}
      BY <1>6, <2>3 DEF QueueGet
    <3>2. Len(qQueue') = Len(qQueue)
      <4>1. c \in QueuedCommands
        BY <1>0
      <4>2. Len(Append(Tail(qQueue), c)) = Len(Tail(qQueue)) + 1
        BY <2>1, <4>1, PutCommand
      <4>3. Len(qQueue) \in Nat
        BY <1>0
      <4> QED
        BY <2>1, <3>1, <4>2, <4>3
    <3>3. EarlyWerePut'
      BY <1>0, <1>1, <2>1, <3>1
    <3> QED
      BY <2>1, <2>3, <3>2, <3>3
  <2> QED
    BY <2>2, <2>3
<1>7. CASE QueueTimeout \/ QueueSend \/ QueueOffer \/ TaskDone
  <2>1. UNCHANGED <<qQueue, qPut, qEarly, qBlocked, qSignalled, qDropped>>
    BY <1>7 DEF QueueTimeout, QueueSend, QueueOffer, TaskDone
  <2>2. qPc' # "ended"
    BY <1>7 DEF QueueTimeout, QueueSend, QueueOffer, TaskDone
  <2> QED
    BY <2>1, <2>2
<1>8. CASE UNCHANGED queueVars
  BY <1>8 DEF queueVars, Contains
<1> QED
  BY <1>2, <1>3, <1>4, <1>5, <1>6, <1>7, <1>8 DEF QueueNext, SenderStep

\* However the threads cross, the sender's thread ends only when all that was queued before the
\* shutdown was taken, and senders wait for room only while there is none, unless an immediate
\* shutdown emptied the queue under them (CommBufferSingleton.run, shutdown).
THEOREM ShutdownLeavesNothing == QueueSpec => [](EndsWhenEmpty /\ WaitsWhileFull)
<1>1. QueueInit => EndInvariant
  BY DEF QueueInit, EndInvariant, EarlyWerePut, EndIsAsked, EndsWhenEmpty, WaitsWhileFull
<1>2. EndInvariant => EndsWhenEmpty /\ WaitsWhileFull
  BY DEF EndInvariant
<1> QED
  BY <1>1, <1>2, EndStep, QueueTypeCorrect, PTL DEF QueueSpec
=============================================================================
