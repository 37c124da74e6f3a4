----------------------------- MODULE CommandQueue -----------------------------
(***************************************************************************)
(* comm/comm_buffer.py, CommBufferSingleton: the server's queue of         *)
(* commands and the thread that gives each to the Base 3 or the SER2, and  *)
(* then to the dispatcher.  Senders block while the queue is full.         *)
(* shutdown only sets a flag, an immediate one empties the queue first.    *)
(***************************************************************************)
EXTENDS Naturals, Sequences, SequencesExt

CONSTANTS QueuedCommands,  \* commands that are sent, each once
          Noops,           \* those that change the state but are not sent to the Base
          QueueCap,        \* size of the queue (4096 in the code)
          HasSer2          \* commands go to a SER2, which reports them back

ASSUME QueueConstants ==
  QueueCap \in Nat \ {0} /\ Noops \subseteq QueuedCommands /\ HasSer2 \in BOOLEAN

VARIABLES
  qQueue,      \* _queue
  qUnfinished, \* the queue's unfinished_tasks
  qPut,        \* commands whose put has returned, in order
  qBlocked,    \* commands whose sender waits on not_full
  qPc,         \* run: "test", "get", "send", "offer", "finally", "ended", "dead"
  qData,       \* the command in the thread's hands, or "none"
  qSignalled,  \* _shutdown_signalled
  qDropped,    \* an immediate shutdown has emptied the queue
  qEarly,      \* commands put before the shutdown
  qBase,       \* commands given to the Base (or the SER2), in order
  qOffered     \* commands given to the dispatcher

queueVars == << qQueue, qUnfinished, qPut, qBlocked, qPc, qData, qSignalled, qDropped,
                qEarly, qBase, qOffered >>
put == << qPut, qBlocked, qEarly >>

QueueTypeOK ==
  /\ qQueue \in Seq(QueuedCommands) /\ Len(qQueue) <= QueueCap /\ qUnfinished \in Nat
  /\ qPut \in Seq(QueuedCommands) /\ qBase \in Seq(QueuedCommands)
  /\ {qBlocked, qEarly, qOffered} \subseteq SUBSET QueuedCommands
  /\ qPc \in {"test", "get", "send", "offer", "finally", "ended", "dead"}
  /\ qData \in QueuedCommands \cup {"none"} /\ {qSignalled, qDropped} \subseteq BOOLEAN

QueueInit ==
  /\ qQueue = << >> /\ qUnfinished = 0 /\ qPut = << >> /\ qBlocked = {}
  /\ qPc = "test" /\ qData = "none" /\ qSignalled = FALSE /\ qDropped = FALSE
  /\ qEarly = {} /\ qBase = << >> /\ qOffered = {}

\* Queue.put returns when there is room
Put(c) ==
  /\ qQueue' = Append(qQueue, c) /\ qUnfinished' = qUnfinished + 1
  /\ qPut' = Append(qPut, c)
  /\ qEarly' = IF qSignalled THEN qEarly ELSE qEarly \cup {c}

\* as if the queue had no limit
MutEnqueue(c) ==
  /\ ~Contains(qPut, c) /\ Put(c)
  /\ UNCHANGED << qBlocked, qPc, qData, qSignalled, qDropped, qBase, qOffered >>
\* enqueue_command; a sender that finds the queue full waits on not_full
Enqueue(c) ==
  /\ ~Contains(qPut, c) /\ c \notin qBlocked
  /\ IF Len(qQueue) < QueueCap THEN Put(c) /\ UNCHANGED qBlocked
     ELSE qBlocked' = qBlocked \cup {c} /\ UNCHANGED << qQueue, qUnfinished, qPut, qEarly >>
  /\ UNCHANGED << qPc, qData, qSignalled, qDropped, qBase, qOffered >>

\* shutdown(immediate=False)
QueueShutdown ==
  /\ ~qSignalled /\ qSignalled' = TRUE
  /\ UNCHANGED << qQueue, qUnfinished, put, qPc, qData, qDropped, qBase, qOffered >>

\* shutdown(immediate=True): the queue is emptied, and nobody who waits to put is told
ImmediateShutdown ==
  /\ ~qSignalled /\ qSignalled' = TRUE /\ qDropped' = TRUE
  /\ qQueue' = << >> /\ qUnfinished' = 0
  /\ UNCHANGED << put, qPc, qData, qBase, qOffered >>

-----------------------------------------------------------------------------
\* as if the thread left at once when it is told to
MutMayLeave == qSignalled
\* run
MayLeave == qQueue = << >> /\ qSignalled

QueueTest ==
  /\ qPc = "test"
  /\ qPc' = IF MayLeave THEN "ended" ELSE "get"
  /\ UNCHANGED << qQueue, qUnfinished, put, qData, qSignalled, qDropped, qBase, qOffered >>

\* get returns a command; one sender that waits to put goes on
QueueGet ==
  /\ qPc = "get" /\ qQueue # << >>
  /\ qData' = Head(qQueue) /\ qPc' = "send"
  /\ IF qBlocked = {} THEN qQueue' = Tail(qQueue) /\ UNCHANGED << qUnfinished, put >>
     ELSE \E c \in qBlocked :
            /\ qQueue' = Append(Tail(qQueue), c) /\ qUnfinished' = qUnfinished + 1
            /\ qPut' = Append(qPut, c) /\ qBlocked' = qBlocked \ {c}
            /\ qEarly' = IF qSignalled THEN qEarly ELSE qEarly \cup {c}
  /\ UNCHANGED << qSignalled, qDropped, qBase, qOffered >>

\* get times out: nothing was taken, so task_done is not called
QueueTimeout ==
  /\ qPc = "get" /\ qQueue = << >> /\ qPc' = "test"
  /\ UNCHANGED << qQueue, qUnfinished, put, qData, qSignalled, qDropped, qBase, qOffered >>

\* as if the state were updated before the command is sent
MutQueueSend ==
  /\ qPc = "send" /\ qOffered' = qOffered \cup {qData}
  /\ \/ qBase' = Append(qBase, qData) \/ UNCHANGED qBase
  /\ qPc' = "finally"
  /\ UNCHANGED << qQueue, qUnfinished, put, qData, qSignalled, qDropped >>
\* base3_send or ser2_send.  Any exception is logged: the command counts as done
QueueSend ==
  /\ qPc = "send"
  /\ IF qData \in Noops
       THEN qPc' = "offer" /\ UNCHANGED qBase
       ELSE \/ qBase' = Append(qBase, qData) /\ qPc' = IF HasSer2 THEN "finally" ELSE "offer"
            \/ UNCHANGED qBase /\ qPc' = "finally"
  /\ UNCHANGED << qQueue, qUnfinished, put, qData, qSignalled, qDropped, qOffered >>

\* the dispatcher updates the system's state; with a SER2 it hears of the command there
QueueOffer ==
  /\ qPc = "offer"
  /\ qOffered' = qOffered \cup {qData} /\ qPc' = "finally"
  /\ UNCHANGED << qQueue, qUnfinished, put, qData, qSignalled, qDropped, qBase >>

\* task_done raises ValueError when nothing is unfinished; nothing catches it there
TaskDone ==
  /\ qPc = "finally" /\ qData' = "none"
  /\ IF qUnfinished = 0 THEN qPc' = "dead" /\ UNCHANGED qUnfinished
                        ELSE qPc' = "test" /\ qUnfinished' = qUnfinished - 1
  /\ UNCHANGED << qQueue, put, qSignalled, qDropped, qBase, qOffered >>

SenderStep == QueueTest \/ QueueGet \/ QueueTimeout \/ QueueSend \/ QueueOffer \/ TaskDone

QueueNext == \/ \E c \in QueuedCommands : Enqueue(c)
             \/ QueueShutdown \/ ImmediateShutdown \/ SenderStep

\* the thread runs; get returns a command that is there
QueueSpec == QueueInit /\ [][QueueNext]_queueVars /\ WF_queueVars(SenderStep)

-----------------------------------------------------------------------------
\* properties

\* The Base receives commands in the order in which they were queued, each at most
\* once; errors leave gaps, and nothing else.
BaseKeepsTheOrder == IsInjective(qBase) /\ \A i, j \in DOMAIN qBase : i < j =>
  \E k, l \in DOMAIN qPut : k < l /\ qPut[k] = qBase[i] /\ qPut[l] = qBase[j]

\* The system's state follows a command only when the Base has been given it; one that
\* is never sent to the Base is the exception.
StateFollowsTheBase == \A c \in qOffered : c \in Noops \/ Contains(qBase, c)

\* The accounting of the queue ends the thread only after an immediate shutdown, which
\* resets the count of a command that is still in the thread's hands.
OnlyImmediateShutdownKills == qPc = "dead" => qDropped

\* A shutdown lets every command out that was queued before it, one after the other;
\* only an immediate one drops them.
QueuedBeforeShutdownIsSent ==
  (\E c \in qEarly : Contains(qQueue, c)) ~> (\A c \in qEarly : ~Contains(qQueue, c))

\* What QueuedBeforeShutdownIsSent rests on: the thread does not end before the last of them
\* was taken; and, unless the queue was emptied under them, senders wait only while it is full.
EndsWhenEmpty == qPc = "ended" => \A c \in qEarly : ~Contains(qQueue, c)
WaitsWhileFull == qBlocked # {} /\ ~qDropped => Len(qQueue) = QueueCap

\* The thread between the queue and the Base (CommBufferSingleton.run): it keeps the
\* order, tells the dispatcher of nothing that was not sent, and survives the sends.
QueueSafety == BaseKeepsTheOrder /\ StateFollowsTheBase /\ OnlyImmediateShutdownKills
=============================================================================
