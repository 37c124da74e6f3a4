----------------------------- MODULE StateWatch -----------------------------
(***************************************************************************)
(* db/state_watcher.py: a StateWatcher thread waits on the condition of    *)
(* one component's state and, each time it is notified, puts a token into  *)
(* the bounded queue of an UpdateNotifier thread, which empties the queue  *)
(* and runs the action (a redisplay, a reaction of a block) once.          *)
(* The state is its version: the number of updates that changed it.        *)
(***************************************************************************)
EXTENDS Naturals

CONSTANTS WatchCap,      \* size of the notifier's queue (64 in the code)
          WatchUpdates   \* bound: how often the state changes

ASSUME WatchConstants == WatchCap \in Nat \ {0} /\ WatchUpdates \in Nat

VARIABLES
  wVersion,   \* changes of the component's state so far
  wPc,        \* StateWatcher.run: "test", "waiting", "woken", "put", "blocked", "done"
  wSeen,      \* version when the watcher last woke up
  wTokens,    \* tokens in the notifier's queue
  wNotifier,  \* UpdateNotifier.run: "test", "get", "clear", "decide", "acting", "done"
  wShown,     \* version the last action displayed
  wRunning,   \* _is_running of the watcher
  wNotifying, \* _is_running of the notifier
  wStop       \* the thread in shutdown: "idle", "flag", "put", "blocked", "notify", "returned"

watchVars == << wVersion, wPc, wSeen, wTokens, wNotifier, wShown, wRunning, wNotifying, wStop >>

WatchTypeOK ==
  /\ wVersion \in 0 .. WatchUpdates
  /\ wSeen \in 0 .. wVersion /\ wShown \in 0 .. wVersion
  /\ wPc \in {"test", "waiting", "woken", "put", "blocked", "done"}
  /\ wTokens \in 0 .. WatchCap
  /\ wNotifier \in {"test", "get", "clear", "decide", "acting", "done"}
  /\ wRunning \in BOOLEAN /\ wNotifying \in BOOLEAN
  /\ wStop \in {"idle", "flag", "put", "blocked", "notify", "returned"}

WatchInit ==
  /\ wVersion = 0 /\ wSeen = 0 /\ wShown = 0
  /\ wPc = "test" /\ wTokens = 0 /\ wNotifier = "test"
  /\ wRunning = TRUE /\ wNotifying = TRUE /\ wStop = "idle"

\* notify_all: a watcher that waits will wake up, one that does not hears nothing
Notified == IF wPc = "waiting" THEN "woken" ELSE wPc

\* ComponentState.update, inside `with self.synchronizer`
WatchUpdate ==
  /\ wVersion < WatchUpdates
  /\ wVersion' = wVersion + 1 /\ wPc' = Notified
  /\ UNCHANGED << wSeen, wTokens, wNotifier, wShown, wRunning, wNotifying, wStop >>

-----------------------------------------------------------------------------
\* StateWatcher.run
WatcherTest ==
  /\ wPc = "test"
  /\ wPc' = IF wRunning THEN "waiting" ELSE "done"
  /\ UNCHANGED << wVersion, wSeen, wTokens, wNotifier, wShown, wRunning, wNotifying, wStop >>

WatcherWakes ==
  /\ wPc = "woken"
  /\ wSeen' = wVersion
  /\ wPc' = IF wRunning THEN "put" ELSE "done"
  /\ UNCHANGED << wVersion, wTokens, wNotifier, wShown, wRunning, wNotifying, wStop >>

\* update_request: Queue.put waits on not_full while the queue is full
WatcherPuts ==
  /\ wPc = "put"
  /\ IF wTokens < WatchCap
       THEN wTokens' = wTokens + 1 /\ wPc' = "test"
       ELSE wPc' = "blocked" /\ UNCHANGED wTokens
  /\ UNCHANGED << wVersion, wSeen, wNotifier, wShown, wRunning, wNotifying, wStop >>

-----------------------------------------------------------------------------
\* UpdateNotifier.run
\* the loop's test, then the test whether the queue is empty
NotifierTest ==
  /\ wNotifier = "test"
  /\ wNotifier' = IF ~wNotifying THEN "done" ELSE IF wTokens = 0 THEN "get" ELSE "clear"
  /\ UNCHANGED << wVersion, wPc, wSeen, wTokens, wShown, wRunning, wNotifying, wStop >>

\* Queue.get takes a token and notifies one of the threads that wait on not_full
NotifierGets ==
  /\ wNotifier = "get" /\ wTokens > 0
  /\ wTokens' = wTokens - 1 /\ wNotifier' = "clear"
  /\ \/ wPc = "blocked" /\ wPc' = "put" /\ UNCHANGED wStop
     \/ wStop = "blocked" /\ wStop' = "put" /\ UNCHANGED wPc
     \/ "blocked" \notin {wPc, wStop} /\ UNCHANGED << wPc, wStop >>
  /\ UNCHANGED << wVersion, wSeen, wShown, wRunning, wNotifying >>

\* queue.clear() under the queue's mutex: it notifies all_tasks_done, not not_full
NotifierClears ==
  /\ wNotifier = "clear"
  /\ wTokens' = 0 /\ wNotifier' = "decide"
  /\ UNCHANGED << wVersion, wPc, wSeen, wShown, wRunning, wNotifying, wStop >>

\* `if self._is_running: self._watcher.action()`; the action reads the state
NotifierActs ==
  /\ wNotifier = "decide"
  /\ IF wNotifying
       THEN wNotifier' = "acting" /\ wShown' = wVersion
       ELSE wNotifier' = "test" /\ UNCHANGED wShown
  /\ UNCHANGED << wVersion, wPc, wSeen, wTokens, wRunning, wNotifying, wStop >>

\* as if the queue were emptied after the redisplay
MutNotifierActed ==
  /\ wNotifier = "acting"
  /\ wNotifier' = "test" /\ wTokens' = 0
  /\ UNCHANGED << wVersion, wPc, wSeen, wShown, wRunning, wNotifying, wStop >>
NotifierActed ==
  /\ wNotifier = "acting"
  /\ wNotifier' = "test"
  /\ UNCHANGED << wVersion, wPc, wSeen, wTokens, wShown, wRunning, wNotifying, wStop >>

-----------------------------------------------------------------------------
\* shutdown
StopWatcher ==
  /\ wStop = "idle"
  /\ wRunning' = FALSE /\ wStop' = "flag"
  /\ UNCHANGED << wVersion, wPc, wSeen, wTokens, wNotifier, wShown, wNotifying >>

StopNotifier ==
  /\ wStop = "flag"
  /\ wNotifying' = FALSE /\ wStop' = "put"
  /\ UNCHANGED << wVersion, wPc, wSeen, wTokens, wNotifier, wShown, wRunning >>

\* UpdateNotifier.shutdown puts a token so that a waiting notifier sees the flag
StopPuts ==
  /\ wStop = "put"
  /\ IF wTokens < WatchCap
       THEN wTokens' = wTokens + 1 /\ wStop' = "notify"
       ELSE wStop' = "blocked" /\ UNCHANGED wTokens
  /\ UNCHANGED << wVersion, wPc, wSeen, wNotifier, wShown, wRunning, wNotifying >>

StopNotifies ==
  /\ wStop = "notify"
  /\ wStop' = "returned" /\ wPc' = Notified
  /\ UNCHANGED << wVersion, wSeen, wTokens, wNotifier, wShown, wRunning, wNotifying >>

WatcherStep == WatcherTest \/ WatcherWakes \/ WatcherPuts
NotifierStep == NotifierTest \/ NotifierGets \/ NotifierClears \/ NotifierActs \/ NotifierActed
StopStep == StopNotifier \/ StopPuts \/ StopNotifies

WatchNext == WatchUpdate \/ WatcherStep \/ NotifierStep \/ StopWatcher \/ StopStep

\* the scheduler runs every thread that can run; nobody has to call shutdown or update
WatchSpec ==
  /\ WatchInit /\ [][WatchNext]_watchVars
  /\ WF_watchVars(WatcherStep) /\ WF_watchVars(NotifierStep) /\ WF_watchVars(StopStep)

-----------------------------------------------------------------------------
\* properties
\* A change the watcher was woken for is displayed, unless the watcher is stopped:
\* "clear out queue, the redisplay we're about to trigger covers them"
\* (state_watcher.py:74).
WokenChangeIsShown == wSeen > wShown ~> (wShown >= wSeen \/ ~wRunning)

\* After shutdown the notifier's thread ends, also when it waited for a token or
\* the queue was full.
StoppedNotifierEnds == ~wNotifying ~> wNotifier = "done"

\* What WokenChangeIsShown rests on: a change the watcher was woken for and that was not
\* displayed has a token in the queue or about to be put, or the notifier is about to act.
WokenChangeIsOnItsWay ==
  wRunning /\ wSeen > wShown =>
    wPc \in {"put", "blocked"} \/ wTokens > 0 \/ wNotifier \in {"clear", "decide"}

\* What StoppedNotifierEnds rests on: a notifier that was stopped and waits for a token has
\* one, or shutdown is about to put one; and it does not end before it is stopped.
StopReachesTheNotifier ==
  /\ ~wNotifying /\ wNotifier = "get" => wTokens > 0 \/ wStop = "put"
  /\ wNotifier = "done" => ~wNotifying

\* The code does not keep this: a change between two waits of the watcher is not heard
\* of, and is displayed with the next one only (StateWatcher.run).
LastChangeIsShown == wVersion > wShown ~> (wShown = wVersion \/ ~wRunning)

\* The code does not keep this: a thread that waits for room in the queue gets some.
\* The notifier empties the queue without a word to them (state_watcher.py:76), and then
\* waits for a token: the watcher never puts another.
RoomIsAnnounced == wPc = "blocked" ~> (wPc # "blocked" \/ ~wRunning)

\* The code does not keep this, for the same reason: a shutdown comes back.
ShutdownReturns == wStop = "flag" ~> wStop = "returned"

\* The watcher's promise: no change stays undisplayed, and a shutdown ends the threads.
WatchersKeepUp == WokenChangeIsShown /\ StoppedNotifierEnds
=============================================================================
