---------------------------- MODULE DelayHandler ----------------------------
(***************************************************************************)
(* The delayed-request scheduler of comm/comm_buffer.py: class             *)
(* DelayHandler (one daemon thread around sched.scheduler), its            *)
(* TrackedEvent wrapper, and the two entry points of CommBuffer that use   *)
(* it, enqueue_command (delay > 0, or a command that cancels on enqueue)   *)
(* and cancel_delayed_requests.                                            *)
(*                                                                         *)
(* Any number of caller threads schedule and cancel under the condition    *)
(* _cv; the handler thread takes _cv only to look at the queue, to run a   *)
(* wrapper's check and to purge.  Popping a due event from sched.scheduler *)
(* takes the scheduler's own lock, not _cv, so it interleaves with a       *)
(* caller that holds _cv.                                                  *)
(***************************************************************************)
EXTENDS Integers, Sequences, FiniteSets

CONSTANTS
  Requests,        \* the commands that may be scheduled, each at most once
  KeyOf,           \* [Requests -> Keys]: the (tmcc_id, scope) of a command
  Exempt,          \* the requests whose command is NUMERIC or RESET
  Cancelable,      \* the requests whose command is in CANCELABLE_REQUESTS
  Delays,          \* the delays callers use
  PurgeFrequency,  \* DelayHandler(purge_frequency=...)
  Callers,         \* the threads that schedule and cancel
  MaxTime,         \* bound: the clock stops here and nothing is due later
  MaxCancels,      \* bound: how often cancel_delayed_requests is called
  SendMayFail,     \* TRUE: the client's buffer, whose send raises OSError
  Everything,      \* tmcc_id 99, no scope and no set of commands
  Purge,           \* the event that runs purge_inactive_events
  Handler,         \* the DelayHandler thread
  Nobody           \* no thread, no event

Keys == {KeyOf[r] : r \in Requests}
Events == Requests \cup {Purge}

ASSUME RequestsAssumption ==
  /\ IsFiniteSet(Requests)
  /\ Exempt \subseteq Requests
  /\ Cancelable \subseteq Requests
  /\ Purge \notin Requests
  /\ Nobody \notin Events
  /\ Everything \notin Keys
  /\ Handler \notin Callers
  /\ Nobody \notin Callers \cup {Handler}

\* enqueue_command reaches schedule() only with delay > 0.
ASSUME TimeAssumption ==
  /\ Delays \subseteq Nat \ {0}
  /\ PurgeFrequency \in Nat \ {0}
  /\ MaxTime \in Nat
  /\ MaxCancels \in Nat
  /\ SendMayFail \in BOOLEAN

\* The arguments of cancel_delayed_requests the program uses: one key, with
\* CANCELABLE_REQUESTS (a reset or an emergency stop being enqueued, a speed
\* request, a ramp cut short), or tmcc_id 99, every key and command (HALT).
CancelArgs == Keys \cup {Everything}

VARIABLES
  now,        \* time.monotonic()
  queue,      \* the events in sched.scheduler's heap
  due,        \* Event.time
  seq,        \* Event.sequence of a request; 0 before it is scheduled
  cache,      \* the requests in _event_cache
  ran,        \* requests whose TrackedEvent._ran is set
  canceled,   \* requests whose TrackedEvent._canceled is set
  cv,         \* the thread that holds _cv, or Nobody
  ev,         \* the Event _ev
  notified,   \* a notify() has reached the handler waiting on _cv
  purging,    \* _have_scheduled_requests
  pc,         \* where the handler thread is
  cur,        \* the event the scheduler popped and is running
  wakeAt,     \* when the handler's _ev.wait(timeout) times out
  triggered,  \* the value _ev.wait returned
  op,         \* what each caller thread is doing
  arg,        \* the argument of each caller's cancel_delayed_requests
  entering,   \* inside schedule(): the request
  todo,       \* inside cancel_delayed_requests: events yet to be visited,
  deleted,    \*   to_delete,
  pending,    \*   and history: the requests this call should withdraw
  sent,       \* the delayed requests handed to the buffer, in order
  cancels,    \* how many cancellations began (for the bound)
  doomed      \* history: requests pending when a cancel that matches them
              \* began, added when that cancel returned

schedVars == <<queue, due, seq>>
trackVars == <<cache, ran, canceled>>
wakeVars == <<ev, notified>>
sleepVars == <<wakeAt, triggered>>
handlerVars == <<pc, cur, sleepVars>>
loopVars == <<todo, deleted, pending>>
callVars == <<cv, op, arg, entering, loopVars, purging, cancels, doomed>>
vars == <<now, schedVars, trackVars, wakeVars, handlerVars, callVars, sent>>

-----------------------------------------------------------------------------

Priority(e) == IF e = Purge THEN 2 ELSE 1

\* The order of sched.Event tuples: time, then priority, then sequence.
Precedes(e, f) ==
  \/ due[e] < due[f]
  \/ due[e] = due[f] /\ Priority(e) < Priority(f)
  \/ due[e] = due[f] /\ e # Purge /\ f # Purge /\ seq[e] < seq[f]

\* Mutant: a heap without the sequence number.
MutEarliestByTime(e) == e \in queue /\ \A f \in queue : due[e] <= due[f]

Earliest(e) == e \in queue /\ \A f \in queue \ {e} : Precedes(e, f)

\* Mutant: the head is popped whether it is due or not.
MutDue(e) == TRUE

Due(e) == due[e] <= now

\* The wrapper takes the lock it was given, which is _cv.
WrapperMayLock == cv = Nobody

\* _cv.notify() reaches the handler if it waits.  Mutant: it is forgotten.
MutNotifies == FALSE

Notifies == pc = "waiting"

\* TrackedEvent.cancel succeeds before the event is popped.
Removable(r) == r \notin ran /\ r \in queue

\* The events cancel_delayed_requests looks at, and those it withdraws.
Selects(a, r) == a = Everything \/ KeyOf[r] = a

Matches(a, r) ==
  /\ Selects(a, r)
  /\ r \notin Exempt
  /\ a = Everything \/ r \in Cancelable

\* What cancel_delayed_requests takes out of the cache: with tmcc_id 99 the
\* deleted events leave only a temporary set.  Mutant: all events of the key.
MutForgotten(a) == {r \in cache : Selects(a, r)}

Forgotten(a) == IF a = Everything THEN {} ELSE deleted

-----------------------------------------------------------------------------

Init ==
  /\ now = 0
  /\ queue = {}
  /\ due = [e \in Events |-> 0]
  /\ seq = [r \in Requests |-> 0]
  /\ cache = {}
  /\ ran = {}
  /\ canceled = {}
  /\ cv = Nobody
  /\ ev = FALSE
  /\ notified = FALSE
  /\ purging = FALSE
  /\ pc = "check"
  /\ cur = Nobody
  /\ wakeAt = 0
  /\ triggered = FALSE
  /\ op = [c \in Callers |-> "idle"]
  /\ arg = [c \in Callers |-> Everything]
  /\ entering = Nobody
  /\ todo = {}
  /\ deleted = {}
  /\ pending = {}
  /\ sent = <<>>
  /\ cancels = 0
  /\ doomed = {}

Tick ==
  /\ now < MaxTime
  /\ now' = now + 1
  /\ UNCHANGED <<schedVars, trackVars, callVars, wakeVars, handlerVars, sent>>

-----------------------------------------------------------------------------
(* Caller threads.                                                         *)

Scheduled == {r \in Requests : seq[r] > 0}

\* schedule(), first half: with _cv held, TrackedEvent enters the wrapper
\* into the scheduler.  The event can be popped from here on.
ScheduleEnter(c, r, d) ==
  /\ op[c] = "idle"
  /\ cv = Nobody
  /\ seq[r] = 0
  /\ now + d <= MaxTime
  /\ cv' = c
  /\ queue' = queue \cup {r}
  /\ due' = [due EXCEPT ![r] = now + d]
  /\ seq' = [seq EXCEPT ![r] = Cardinality(Scheduled) + 1]
  /\ op' = [op EXCEPT ![c] = "schedule"]
  /\ entering' = r
  /\ UNCHANGED <<now, trackVars, wakeVars, purging, handlerVars, arg, loopVars,
                 sent, cancels, doomed>>

\* schedule(), second half: the event is cached under its key, the first call
\* also enters the purge job, and the handler is woken.
ScheduleFinish(c) ==
  /\ op[c] = "schedule"
  /\ cache' = cache \cup {entering}
  /\ purging' = TRUE
  /\ IF purging
       THEN UNCHANGED <<queue, due>>
       ELSE /\ queue' = queue \cup {Purge}
            /\ due' = [due EXCEPT ![Purge] = now + PurgeFrequency]
  /\ ev' = TRUE
  /\ notified' = Notifies
  /\ cv' = Nobody
  /\ op' = [op EXCEPT ![c] = "idle"]
  /\ entering' = Nobody
  /\ UNCHANGED <<now, seq, ran, canceled, handlerVars, arg, loopVars, sent,
                 cancels, doomed>>

\* enqueue_command of a reset or a stop: has_scheduled is read without _cv,
\* and the cancellation is skipped when the scheduler's queue is empty.  HALT
\* and speed requests call cancel_delayed_requests without looking.
CancelRequest(c, a) ==
  /\ op[c] = "idle"
  /\ cancels < MaxCancels
  /\ cancels' = cancels + 1
  /\ \/ op' = [op EXCEPT ![c] = "lock"] /\ arg' = [arg EXCEPT ![c] = a]
     \/ a # Everything /\ queue = {} /\ UNCHANGED <<op, arg>>
  /\ UNCHANGED <<now, schedVars, trackVars, cv, wakeVars, purging, handlerVars,
                 entering, loopVars, sent, doomed>>

\* cancel_delayed_requests: take _cv and select the cached events.
CancelBegin(c) ==
  /\ op[c] = "lock"
  /\ cv = Nobody
  /\ cv' = c
  /\ op' = [op EXCEPT ![c] = "cancel"]
  /\ todo' = {r \in cache : Selects(arg[c], r)}
  /\ deleted' = {}
  /\ pending' = {r \in Requests : r \in queue /\ Matches(arg[c], r)}
  /\ UNCHANGED <<now, schedVars, trackVars, wakeVars, purging, handlerVars,
                 arg, entering, sent, cancels, doomed>>

\* One iteration of its loop, in any order of the set: an event that matches
\* is deleted from the selection and TrackedEvent.cancel is called, which does
\* nothing once the event has run and swallows the scheduler's ValueError when
\* the event is no longer queued.
CancelOne(c, r) ==
  /\ op[c] = "cancel"
  /\ r \in todo
  /\ todo' = todo \ {r}
  /\ deleted' = IF Matches(arg[c], r) THEN deleted \cup {r} ELSE deleted
  /\ IF Matches(arg[c], r) /\ Removable(r)
       THEN /\ queue' = queue \ {r}
            /\ canceled' = canceled \cup {r}
       ELSE UNCHANGED <<queue, canceled>>
  /\ UNCHANGED <<now, due, seq, cache, ran, cv, wakeVars, purging, handlerVars,
                 op, arg, entering, pending, sent, cancels, doomed>>

\* The end of cancel_delayed_requests.
CancelEnd(c) ==
  /\ op[c] = "cancel"
  /\ todo = {}
  /\ cache' = cache \ Forgotten(arg[c])
  /\ doomed' = doomed \cup pending
  /\ cv' = Nobody
  /\ op' = [op EXCEPT ![c] = "idle"]
  /\ arg' = [arg EXCEPT ![c] = Everything]
  /\ deleted' = {}
  /\ pending' = {}
  /\ UNCHANGED <<now, schedVars, ran, canceled, wakeVars, purging, handlerVars,
                 entering, todo, sent, cancels>>

-----------------------------------------------------------------------------
(* The handler thread: run(), sched.scheduler.run(blocking=False), the     *)
(* TrackedEvent wrapper and purge_inactive_events.                         *)

\* The outer loop: with _cv, wait while the scheduler is empty.
Check ==
  /\ pc = "check" \/ (pc = "waiting" /\ notified)
  /\ cv = Nobody
  /\ pc' = IF queue = {} THEN "waiting" ELSE "plan"
  /\ notified' = FALSE
  /\ UNCHANGED <<now, schedVars, trackVars, callVars, ev, cur, sleepVars,
                 sent>>

\* The inner loop: with _cv, compute the timeout from the head of the queue.
Plan ==
  /\ pc = "plan"
  /\ cv = Nobody
  /\ \/ /\ queue = {}
        /\ pc' = "check"
        /\ UNCHANGED wakeAt
     \/ /\ pc' = "sleep"
        /\ \E e \in queue :
             /\ Earliest(e)
             /\ wakeAt' = IF due[e] > now THEN due[e] ELSE now
  /\ UNCHANGED <<now, schedVars, trackVars, callVars, wakeVars, cur, triggered,
                 sent>>

\* triggered = self._ev.wait(timeout)
Wake ==
  /\ pc = "sleep"
  /\ ev \/ now >= wakeAt
  /\ triggered' = ev
  /\ pc' = "clear"
  /\ UNCHANGED <<now, schedVars, trackVars, callVars, wakeVars, cur, wakeAt,
                 sent>>

\* Mutant: the result of the wait is taken the wrong way round.
MutClear ==
  /\ pc = "clear"
  /\ ev' = FALSE
  /\ pc' = IF triggered THEN "run" ELSE "plan"
  /\ UNCHANGED <<now, schedVars, trackVars, callVars, notified, cur, sleepVars,
                 sent>>

\* self._ev.clear(); a triggered wait recomputes the deadline.
Clear ==
  /\ pc = "clear"
  /\ ev' = FALSE
  /\ pc' = IF triggered THEN "plan" ELSE "run"
  /\ UNCHANGED <<now, schedVars, trackVars, callVars, notified, cur, sleepVars,
                 sent>>

\* scheduler.run(blocking=False): pop the head if it is due ...
Pop ==
  /\ pc = "run"
  /\ \E e \in queue :
       /\ Earliest(e)
       /\ Due(e)
       /\ queue' = queue \ {e}
       /\ cur' = e
       /\ pc' = IF e = Purge THEN "purge" ELSE "wrap"
  /\ UNCHANGED <<now, due, seq, trackVars, callVars, wakeVars, sleepVars,
                 sent>>

\* ... and return when nothing is.
RunReturn ==
  /\ pc = "run"
  /\ \A e \in queue : ~Due(e)
  /\ pc' = "plan"
  /\ UNCHANGED <<now, schedVars, trackVars, callVars, wakeVars, cur, sleepVars,
                 sent>>

\* wrapper(): with _cv, a canceled event or one that has run does nothing;
\* any other is marked as run, and acts after _cv is released.
Wrap ==
  /\ pc = "wrap"
  /\ WrapperMayLock
  /\ IF cur \in ran \cup canceled
       THEN pc' = "run" /\ cur' = Nobody /\ UNCHANGED ran
       ELSE pc' = "act" /\ ran' = ran \cup {cur} /\ UNCHANGED cur
  /\ UNCHANGED <<now, schedVars, cache, canceled, callVars, wakeVars,
                 sleepVars, sent>>

\* enqueue_command(command, was_delayed=True): no cancellation, straight out.
Act ==
  /\ pc = "act"
  /\ sent' = Append(sent, cur)
  /\ cur' = Nobody
  /\ pc' = "run"
  /\ UNCHANGED <<now, schedVars, trackVars, callVars, wakeVars, sleepVars>>

\* CommBufferProxy.enqueue_command raises OSError after 90 retries; neither
\* the wrapper, the scheduler nor run() catches it, so the thread ends.
ActFails ==
  /\ SendMayFail
  /\ pc = "act"
  /\ pc' = "dead"
  /\ UNCHANGED <<now, schedVars, trackVars, callVars, wakeVars, cur, sleepVars,
                 sent>>

\* purge_inactive_events: with _cv, forget the events that have run or were
\* canceled ...
PurgeInactive ==
  /\ pc = "purge"
  /\ cv = Nobody
  /\ cache' = cache \ (ran \cup canceled)
  /\ pc' = "reschedule"
  /\ UNCHANGED <<now, schedVars, ran, canceled, callVars, wakeVars, cur,
                 sleepVars, sent>>

\* Mutant: the job is entered again but does not return to the scheduler.
MutPurgeReschedule ==
  /\ pc = "reschedule"
  /\ queue' = queue \cup {Purge}
  /\ due' = [due EXCEPT ![Purge] = now + PurgeFrequency]
  /\ pc' = "run"
  /\ UNCHANGED <<now, seq, trackVars, callVars, wakeVars, cur, sleepVars,
                 sent>>

\* ... and enter the purge job again, after releasing _cv.
PurgeReschedule ==
  /\ pc = "reschedule"
  /\ queue' = queue \cup {Purge}
  /\ due' = [due EXCEPT ![Purge] = now + PurgeFrequency]
  /\ cur' = Nobody
  /\ pc' = "run"
  /\ UNCHANGED <<now, seq, trackVars, callVars, wakeVars, sleepVars, sent>>

-----------------------------------------------------------------------------

CallerSteps(c) ==
  \/ ScheduleFinish(c)
  \/ CancelBegin(c)
  \/ \E r \in Requests : CancelOne(c, r)
  \/ CancelEnd(c)

HandlerSteps ==
  \/ Check \/ Plan \/ Wake \/ Clear \/ Pop \/ RunReturn \/ Wrap \/ Act
  \/ PurgeInactive \/ PurgeReschedule

Next ==
  \/ Tick
  \/ \E c \in Callers :
       \/ \E r \in Requests, d \in Delays : ScheduleEnter(c, r, d)
       \/ \E a \in CancelArgs : CancelRequest(c, a)
       \/ CallerSteps(c)
  \/ HandlerSteps
  \/ ActFails

Spec == Init /\ [][Next]_vars

\* Time passes, a caller that is inside schedule() or cancel finishes it, and
\* the handler thread is scheduled by the operating system.  Nobody has to
\* schedule or cancel anything, and a send need not fail.
FairSpec ==
  /\ Spec
  /\ WF_vars(Tick)
  /\ \A c \in Callers : WF_vars(CallerSteps(c))
  /\ WF_vars(HandlerSteps)
-----------------------------------------------------------------------------
(* Properties.                                                             *)

\* Every variable has its type, the handler holds a popped event exactly where
\* sched.run, the wrapper and the purge job do, and a caller holds _cv exactly
\* inside schedule() and the loop of cancel_delayed_requests.
TypeOK ==
  /\ now \in Nat
  /\ queue \subseteq Events
  /\ due \in [Events -> Nat]
  /\ seq \in [Requests -> Nat]
  /\ cache \subseteq Requests
  /\ ran \subseteq Requests
  /\ canceled \subseteq Requests
  /\ cv \in Callers \cup {Nobody}
  /\ \A c \in Callers : cv = c <=> op[c] \in {"schedule", "cancel"}
  /\ ev \in BOOLEAN
  /\ notified \in BOOLEAN
  /\ purging \in BOOLEAN
  /\ pc \in {"check", "waiting", "plan", "sleep", "clear", "run", "wrap",
             "act", "purge", "reschedule", "dead"}
  /\ cur \in Events \cup {Nobody}
  /\ pc \in {"wrap", "act", "dead"} <=> cur \in Requests
  /\ pc \in {"purge", "reschedule"} <=> cur = Purge
  /\ wakeAt \in Nat
  /\ triggered \in BOOLEAN
  /\ op \in [Callers -> {"idle", "schedule", "lock", "cancel"}]
  /\ arg \in [Callers -> CancelArgs]
  /\ entering \in Requests \cup {Nobody}
  /\ \A c \in Callers : op[c] = "schedule" => entering \in Requests
  /\ todo \subseteq Requests
  /\ deleted \subseteq Requests
  /\ pending \subseteq Requests
  /\ sent \in Seq(Requests)
  /\ cancels \in Nat
  /\ doomed \subseteq Requests

\* The delayed requests reach the buffer in the order of their deadlines, and
\* in the order they were scheduled when the deadlines are equal, never early
\* and never twice, although callers schedule while the handler, which holds
\* no lock then, is popping and running earlier ones.
FiresInDeadlineOrder ==
  \A j \in DOMAIN sent :
    /\ due[sent[j]] <= now
    /\ \A i \in 1..(j - 1) :
         \/ due[sent[i]] < due[sent[j]]
         \/ due[sent[i]] = due[sent[j]] /\ seq[sent[i]] < seq[sent[j]]

\* A request that is queued in the scheduler can be found by
\* cancel_delayed_requests: whenever _cv is free its event is in
\* _event_cache, no matter how purges and cancellations interleaved.
PendingIsCancelable ==
  cv = Nobody => queue \ {Purge} \subseteq cache

\* What a cancellation leaves behind.  While its loop runs, every request it
\* was called to withdraw is withdrawn, still to be visited, or the one event
\* the handler has popped and that waits for _cv in its wrapper.
CancelLeavesOnlyInFlight ==
  pending \subseteq canceled \cup todo \cup {cur}

\* A request whose cancellation succeeded is never handed to the buffer, even
\* when the cancellation raced with the pop of the event.
WithdrawnNeverFires ==
  \A i \in DOMAIN sent : sent[i] \notin canceled

\* A cancellation reaches whatever is scheduled, but for what is being sent already.
CancelSafety == PendingIsCancelable /\ CancelLeavesOnlyInFlight /\ WithdrawnNeverFires

\* The handler never sleeps on a non-empty scheduler: whenever it waits on
\* _cv without a notification the scheduler is empty, unless the caller that
\* holds _cv has yet to notify.
NoLostWakeup ==
  pc = "waiting" /\ ~notified =>
    queue = {} \/ entering # Nobody

\* The handler does not oversleep: while it sleeps in _ev.wait and the event
\* is not set, its timeout is no later than the head of the queue, unless the
\* caller inside schedule() has yet to set the event.
NoOversleep ==
  pc = "sleep" /\ ~ev =>
    \A e \in queue : \/ wakeAt <= due[e]
                  \/ wakeAt <= now
                  \/ entering # Nobody

\* Every request handed to schedule() is eventually sent or withdrawn, unless a send
\* fails for good: no interleaving of callers, purge job and wake-ups strands it.
EveryRequestSettles ==
  \A r \in Requests :
    seq[r] > 0 ~> \/ r \in canceled
                  \/ \E i \in DOMAIN sent : sent[i] = r
                  \/ pc = "dead"

\* "This allows us to schedule requests in any order and still have them fire
\* at the appropriate time" (comm_buffer.py:721), the client's handler too:
\* every scheduled request but one whose own send failed is sent or withdrawn.
OneFailedSendLosesOneRequest ==
  \A r \in Requests :
    seq[r] > 0 ~> \/ r \in canceled
                  \/ \E i \in DOMAIN sent : sent[i] = r
                  \/ pc = "dead" /\ cur = r

Abstract == INSTANCE DelayedRequests WITH
  clock <- now, deadline <- [r \in Requests |-> due[r]], turn <- seq,
  delivered <- sent, withdrawn <- canceled

\* The handler thread, its callers, the cache and the wrapper implement the
\* scheduler without threads.
ImplementsDelayedRequests == Abstract!Spec

\* comm_buffer.py:174 says of a stop or reset that is being enqueued: "Cancel
\* any pending requests ...".  Then no request that was pending when the
\* cancellation began may be sent once it has returned.
CanceledRequestsStaySilent ==
  \A i \in DOMAIN sent : sent[i] \notin doomed

\* The handler is never asleep when it should be at work (DelayHandler.run,
\* schedule): neither over a request nobody has told it of, nor beyond a deadline.
WakesInTime == NoLostWakeup /\ NoOversleep
=============================================================================
