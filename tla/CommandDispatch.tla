---------------------------- MODULE CommandDispatch ----------------------------
(***************************************************************************)
(* The CommandDispatcher of comm/command_listener.py: a bounded queue that *)
(* listeners fill under _cv, one daemon thread that empties it, the        *)
(* channels that callbacks subscribe to under _chanel_lock, and the update *)
(* of every client once the local subscribers have been called.            *)
(*                                                                         *)
(* A command is a value whose topics are given by Route; a halt of either  *)
(* kind goes instead to every channel in Reach, under one hold of the      *)
(* channel lock.  Callbacks are recorded by the order in which they run.   *)
(***************************************************************************)
EXTENDS Naturals, Sequences, FiniteSets

CONSTANTS
  Commands,      \* commands that arrive, each once
  Halts,         \* those that are HALT or SYSTEM_HALT
  Muted,         \* those filtered while both a Base 3 and a Ser2 are heard
  Fragile,       \* those whose query of the Base can raise (request_command_impact)
  Topics,        \* channel keys, Broadcast among them
  Broadcast,     \* BROADCAST_TOPIC
  Route,         \* the topics of a command that is no halt, most specific first
  Reach,         \* the topics a halt is published to
  Offerers,      \* threads that call offer: listeners, PDI dispatcher, state server
  Subscribers,   \* callbacks
  Dispatcher,    \* the dispatcher thread
  Nobody,        \* no thread, no command
  QueueSize,     \* queue_size
  MaxChanges     \* bound on subscriptions made and dropped

ASSUME DispatchAssumption ==
  /\ Halts \subseteq Commands /\ Muted \subseteq Commands /\ Fragile \subseteq Commands
  /\ Broadcast \in Topics
  /\ Route \in [Commands -> Seq(Topics)]
  /\ Reach \in [Halts -> SUBSET Topics]
  /\ QueueSize \in Nat \ {0} /\ MaxChanges \in Nat
  /\ Dispatcher \notin Offerers
  /\ Nobody \notin Commands \union Offerers \union {Dispatcher}

VARIABLES
  queue,         \* _queue
  cv,            \* the thread that holds _cv
  notified,      \* the waiting dispatcher has been notified
  running,       \* _is_running
  op,            \* the command each offerer is putting
  offered,       \* commands some offerer has taken up
  pc,            \* where the dispatcher is
  cmd,           \* the command it is working on
  plan,          \* sets of topics still to be published to, in order
  aired,         \* _broadcasts has been tested for cmd
  calls,         \* (topic, subscriber) pairs of the publication under way
  chan,          \* the thread that holds _chanel_lock
  subs,          \* subscribers of each channel
  broadcasts,    \* _broadcasts
  changes,       \* subscriptions made and dropped so far
  got,           \* the commands each callback was called with
  mirrored       \* the commands sent to the clients

queueVars == <<queue, cv, notified, running, op, offered>>
callVars == <<cmd, plan, aired, calls, chan>>
subVars == <<subs, broadcasts, changes>>
vars == <<queueVars, pc, callVars, subVars, got, mirrored>>

Init ==
  /\ queue = <<>> /\ cv = Nobody /\ notified = FALSE /\ running = TRUE
  /\ op = [o \in Offerers |-> Nobody] /\ offered = {}
  /\ pc = "top" /\ cmd = Nobody /\ plan = <<>> /\ aired = FALSE
  /\ calls = {} /\ chan = Nobody
  /\ subs = [t \in Topics |-> {}] /\ broadcasts = FALSE /\ changes = 0
  /\ got = [s \in Subscribers |-> <<>>] /\ mirrored = <<>>

-----------------------------------------------------------------------------
(* Offering and shutting down                                               *)

\* offer enters _cv; put may then block, still inside _cv.
OfferLock(o) ==
  /\ cv = Nobody /\ op[o] = Nobody
  /\ \E c \in Commands \ offered :
       /\ op' = [op EXCEPT ![o] = c]
       /\ offered' = offered \union {c}
  /\ cv' = o
  /\ UNCHANGED <<queue, notified, running, pc, callVars, subVars, got, mirrored>>

\* Whether a notify_all finds the dispatcher in wait, and whether put returns.
MutWaking == FALSE  \* no notify_all after put
Waking == pc = "waiting"
HasRoom == Len(queue) < QueueSize

OfferPut(o) ==
  /\ cv = o /\ op[o] # Nobody
  /\ HasRoom
  /\ queue' = Append(queue, op[o])
  /\ notified' = (notified \/ Waking)
  /\ op' = [op EXCEPT ![o] = Nobody]
  /\ cv' = Nobody
  /\ UNCHANGED <<running, offered, pc, callVars, subVars, got, mirrored>>

Shutdown ==
  /\ cv = Nobody /\ running
  /\ running' = FALSE
  /\ notified' = (notified \/ Waking)
  /\ UNCHANGED <<queue, cv, op, offered, pc, callVars, subVars, got, mirrored>>

-----------------------------------------------------------------------------
(* The dispatcher's loop                                                    *)

\* while self._is_running, tested outside _cv.
Top ==
  /\ pc = "top"
  /\ pc' = IF running THEN "enter" ELSE "ended"
  /\ UNCHANGED <<queueVars, callVars, subVars, got, mirrored>>

\* The body of "with self._cv": wait when there is nothing to do.
MutMustWait == TRUE  \* wait without looking at the queue
MustWait == queue = <<>>

Enter ==
  /\ pc = "enter" /\ cv = Nobody
  /\ pc' = IF MustWait THEN "waiting" ELSE "second"
  /\ notified' = FALSE
  /\ UNCHANGED <<queue, cv, running, op, offered, callVars, subVars, got, mirrored>>

Wake ==
  /\ pc = "waiting" /\ notified /\ cv = Nobody
  /\ pc' = "second"
  /\ notified' = FALSE
  /\ UNCHANGED <<queue, cv, running, op, offered, callVars, subVars, got, mirrored>>

Suppressed(c) == c \in Muted

\* Where a command is published, one set of topics per hold of the lock.
MutPlan(c) ==  \* publish_all lets go of the lock before the broadcast channel
  IF c \in Halts
    THEN IF Suppressed(c) THEN <<>> ELSE <<{Broadcast}, Reach[c] \ {Broadcast}>>
    ELSE [i \in DOMAIN Route[c] |-> {Route[c][i]}]
Plan(c) ==
  IF c \in Halts
    THEN IF Suppressed(c) THEN <<>> ELSE <<Reach[c]>>
    ELSE [i \in DOMAIN Route[c] |-> {Route[c][i]}]

\* The second look at the queue, and get.
Take ==
  /\ pc = "second"
  /\ IF queue = <<>>
       THEN /\ pc' = "top"
            /\ UNCHANGED <<queue, cmd, plan, aired>>
       ELSE /\ pc' = "publish"
            /\ queue' = Tail(queue)
            /\ cmd' = Head(queue)
            /\ plan' = Plan(Head(queue))
            /\ aired' = FALSE
  /\ UNCHANGED <<cv, notified, running, op, offered, calls, chan, subVars, got, mirrored>>

\* publish and publish_all take _chanel_lock for the topics of this turn.
Publish ==
  /\ pc = "publish" /\ plan # <<>> /\ chan = Nobody
  /\ chan' = Dispatcher
  /\ calls' = {ts \in Head(plan) \X Subscribers : ts[2] \in subs[ts[1]]}
  /\ plan' = Tail(plan)
  /\ pc' = "calling"
  /\ UNCHANGED <<queueVars, cmd, aired, subVars, got, mirrored>>

\* One callback runs; Channel.publish catches whatever it raises.
Call ==
  /\ pc = "calling"
  /\ \E ts \in calls :
       /\ got' = [got EXCEPT ![ts[2]] = Append(@, cmd)]
       /\ calls' = calls \ {ts}
  /\ UNCHANGED <<queueVars, pc, cmd, plan, aired, chan, subVars, mirrored>>

Release ==
  /\ pc = "calling" /\ calls = {}
  /\ chan' = Nobody
  /\ pc' = "publish"
  /\ UNCHANGED <<queueVars, cmd, plan, aired, calls, subVars, got, mirrored>>

\* if self._broadcasts: publish(BROADCAST_TOPIC, cmd).
Air ==
  /\ pc = "publish" /\ plan = <<>> /\ ~aired
  /\ aired' = TRUE
  /\ plan' = IF broadcasts THEN <<{Broadcast}>> ELSE <<>>
  /\ UNCHANGED <<queueVars, pc, cmd, calls, chan, subVars, got, mirrored>>

\* request_command_impact succeeds, the clients are updated, task_done.
Mirror ==
  /\ pc = "publish" /\ plan = <<>> /\ aired
  /\ mirrored' = IF cmd \in Muted THEN mirrored ELSE Append(mirrored, cmd)
  /\ cmd' = Nobody
  /\ pc' = "top"
  /\ UNCHANGED <<queueVars, plan, aired, calls, chan, subVars, got>>

\* It raises: run's except clause skips the clients.
ImpactFails ==
  /\ pc = "publish" /\ plan = <<>> /\ aired /\ cmd \in Fragile
  /\ cmd' = Nobody
  /\ pc' = "top"
  /\ UNCHANGED <<queueVars, plan, aired, calls, chan, subVars, got, mirrored>>

-----------------------------------------------------------------------------
(* Subscriptions, by any other thread                                       *)

\* Every change of the channels happens inside _chanel_lock.
MutChannelsFree == TRUE  \* the set of subscribers changed without the lock
ChannelsFree == chan = Nobody

Subscribe(s, t) ==
  /\ ChannelsFree /\ s \notin subs[t]
  /\ changes < MaxChanges /\ changes' = changes + 1
  /\ subs' = [subs EXCEPT ![t] = @ \union {s}]
  /\ broadcasts' = (broadcasts \/ t = Broadcast)
  /\ UNCHANGED <<queueVars, pc, callVars, got, mirrored>>

Unsubscribe(s, t) ==
  /\ ChannelsFree /\ s \in subs[t]
  /\ changes < MaxChanges /\ changes' = changes + 1
  /\ subs' = [subs EXCEPT ![t] = @ \ {s}]
  /\ broadcasts' = (IF t = Broadcast THEN subs[t] # {s} ELSE broadcasts)
  /\ UNCHANGED <<queueVars, pc, callVars, got, mirrored>>

DispatcherStep ==
  Top \/ Enter \/ Wake \/ Take \/ Publish \/ Call \/ Release \/ Air \/ Mirror \/ ImpactFails

Next ==
  \/ DispatcherStep
  \/ \E o \in Offerers : OfferLock(o) \/ OfferPut(o)
  \/ Shutdown
  \/ \E s \in Subscribers, t \in Topics : Subscribe(s, t) \/ Unsubscribe(s, t)

Spec == Init /\ [][Next]_vars

\* Threads are scheduled: the dispatcher keeps running and an offerer inside
\* _cv goes on once there is room.  Nobody has to offer, subscribe or stop.
FairSpec == Spec /\ WF_vars(DispatcherStep) /\ \A o \in Offerers : WF_vars(OfferPut(o))

-----------------------------------------------------------------------------
(* Properties                                                               *)

\* Types; the queue never exceeds its size; the offerer inside _cv is the one
\* with a command in hand, and the channel lock is held while callbacks run.
TypeOK ==
  /\ queue \in Seq(Commands) /\ Len(queue) <= QueueSize
  /\ cv \in Offerers \union {Nobody}
  /\ notified \in BOOLEAN /\ running \in BOOLEAN
  /\ op \in [Offerers -> Commands \union {Nobody}]
  /\ \A o \in Offerers : cv = o <=> op[o] # Nobody
  /\ offered \subseteq Commands
  /\ pc \in {"top", "enter", "waiting", "second", "publish", "calling", "ended"}
  /\ cmd \in Commands \union {Nobody}
  /\ (pc \in {"publish", "calling"}) <=> (cmd # Nobody)
  /\ plan \in Seq(SUBSET Topics) /\ aired \in BOOLEAN
  /\ calls \subseteq Topics \X Subscribers
  /\ calls # {} => pc = "calling"
  /\ chan = IF pc = "calling" THEN Dispatcher ELSE Nobody
  /\ subs \in [Topics -> SUBSET Subscribers]
  /\ broadcasts \in BOOLEAN /\ changes \in 0 .. MaxChanges
  /\ got \in [Subscribers -> Seq(Commands)]
  /\ mirrored \in Seq(Commands)

\* A dispatcher in wait with commands queued has been notified: offer's put and
\* notify_all cannot fall between run's test of the queue and its wait.
NoLostWakeup == pc = "waiting" /\ queue # <<>> => notified

\* No callback is about to run that is no longer subscribed: unsubscribe returns
\* only when no call on that channel can follow (Channel.publish works on a copy).
NobodyCalledAfterUnsubscribe == \A ts \in calls : ts[2] \in subs[ts[1]]

\* When publish_all lets go of the lock, everyone subscribed on any channel it
\* covers has been called, even one that moved between channels meanwhile.
HaltReachesEverySubscriber ==
  [][pc = "calling" /\ pc' = "publish" /\ cmd \in Halts /\ plan = <<>> /\ ~aired
       => \A t \in Reach[cmd] : \A s \in subs[t] :
            \E i \in DOMAIN got[s] : got[s][i] = cmd]_vars

\* Every command offered is sent to the clients, unless it is filtered, its query
\* of the Base fails, or the dispatcher is shut down.
EveryOfferReachesClients ==
  \A c \in Commands \ (Muted \union Fragile) :
    c \in offered ~> (~running \/ \E i \in DOMAIN mirrored : mirrored[i] = c)

\* What EveryOfferReachesClients rests on: such a command is with its offerer, queued, in
\* the dispatcher's hands or sent, whatever is shut down or subscribed meanwhile; and
\* no command is sent twice.
OffersAreKept ==
  \A c \in offered \ (Muted \union Fragile) :
    \/ cmd = c \/ \E o \in Offerers : op[o] = c
    \/ \E i \in DOMAIN queue : queue[i] = c
    \/ \E i \in DOMAIN mirrored : mirrored[i] = c
ClientsHearOnce ==
  \A i, j \in DOMAIN mirrored : mirrored[i] = mirrored[j] => i = j

\* What OffersReturn needs: nobody waits for room inside _cv.
OffersFindRoom == \A o \in Offerers : op[o] # Nobody => HasRoom

\* offer returns: "We do this in a separate thread so that the listener thread
\* doesn't fall behind" (command_listener.py:759).  The code does not keep this.
OffersReturn == \A o \in Offerers : op[o] # Nobody ~> op[o] = Nobody

\* A shutdown ends the dispatcher thread, which looks at the queue a second time
\* "in the event we're being shutdown".  The code does not keep this.
ShutdownEndsDispatcher == ~running ~> pc = "ended"

\* A command the local subscribers have seen and that is not filtered goes to the
\* clients: "update state on all clients".  The code does not keep this.
PublishedCommandsAreMirrored ==
  [][cmd # Nobody /\ cmd' = Nobody /\ cmd \notin Muted => mirrored' = Append(mirrored, cmd)]_vars
=============================================================================
