---------------------------- MODULE LaunchCountdown ----------------------------
(***************************************************************************)
(* The launch-pad display of gpio/launch_status.py.  LaunchStatus is called *)
(* back by the dispatcher thread, inside _chanel_lock, and guards its state *)
(* with its own _lock; a CountdownThread ticks once a second and sets the   *)
(* countdown under the same _lock; close runs in a third thread at exit.    *)
(* hold and resume have no caller in the program and are left out.          *)
(***************************************************************************)
EXTENDS Naturals, FiniteSets

CONSTANTS
  Threads,     \* the CountdownThreads that can be started
  Commander,   \* the dispatcher thread, in LaunchStatus.__call__
  Closer,      \* the thread that runs close()
  Nobody,      \* no thread, no countdown
  MaxTicks     \* bound on the ticks of one countdown

ASSUME CountdownAssumption ==
  /\ MaxTicks \in Nat
  /\ Commander # Closer
  /\ Nobody \notin Threads \union {Commander, Closer} \union Nat

Callers == {Commander, Closer}
Commands == {"launch", "abort", "clear"}  \* "clear" is Aux 1 then 5 or 3

VARIABLES
  chan,        \* the thread that holds the dispatcher's _chanel_lock
  lock,        \* the thread that holds LaunchStatus._lock
  subscribed,  \* the dispatcher calls LaunchStatus back
  op,          \* what Commander and Closer are doing
  at,          \* where each of them is in it
  countdown,   \* _countdown: ticks since the launch was ordered, or Nobody
  aborted,     \* _aborted
  current,     \* _countdown_thread
  alive,       \* CountdownThreads that run
  stopping,    \* those with _is_running False and _ev set
  ticking,     \* those past their wait, about to set the countdown
  count,       \* CountdownThread._countdown
  unused       \* CountdownThreads not started yet

callerVars == <<chan, lock, subscribed, op, at>>
stateVars == <<countdown, aborted, current>>
countdownVars == <<alive, stopping, ticking, count, unused>>
launchVars == <<callerVars, stateVars, countdownVars>>

LaunchInit ==
  /\ chan = Nobody /\ lock = Nobody /\ subscribed = TRUE
  /\ op = [p \in Callers |-> "idle"] /\ at = [p \in Callers |-> "idle"]
  /\ countdown = Nobody /\ aborted = FALSE /\ current = Nobody
  /\ alive = {} /\ stopping = {} /\ ticking = {}
  /\ count = [c \in Threads |-> 0] /\ unused = Threads

\* The caller leaves _lock, and the dispatcher _chanel_lock.
Leave(p) ==
  /\ op' = [op EXCEPT ![p] = IF p = Closer THEN "closed" ELSE "idle"]
  /\ at' = [at EXCEPT ![p] = "idle"]
  /\ lock' = Nobody
  /\ chan' = IF p = Commander THEN Nobody ELSE chan

-----------------------------------------------------------------------------
(* Callbacks and close                                                      *)

\* A command for the pad, or a HALT (abort), is published.
Command(k) ==
  /\ subscribed /\ op[Commander] = "idle" /\ chan = Nobody
  /\ chan' = Commander
  /\ op' = [op EXCEPT ![Commander] = k]
  /\ at' = [at EXCEPT ![Commander] = "lock"]
  /\ UNCHANGED <<lock, subscribed, stateVars, countdownVars>>

Close ==
  /\ op[Closer] = "idle"
  /\ op' = [op EXCEPT ![Closer] = "close"]
  /\ at' = [at EXCEPT ![Closer] = "lock"]
  /\ UNCHANGED <<chan, lock, subscribed, stateVars, countdownVars>>

Lock(p) ==
  /\ at[p] = "lock" /\ lock = Nobody
  /\ lock' = p
  /\ at' = [at EXCEPT ![p] = IF p = Closer THEN "unsubscribe" ELSE "body"]
  /\ UNCHANGED <<chan, subscribed, op, stateVars, countdownVars>>

\* reset() unsubscribes inside _lock, which needs _chanel_lock.
StillSubscribed == FALSE

LaunchUnsubscribe ==
  /\ at[Closer] = "unsubscribe" /\ chan = Nobody
  /\ subscribed' = StillSubscribed
  /\ at' = [at EXCEPT ![Closer] = "body"]
  /\ UNCHANGED <<chan, lock, op, stateVars, countdownVars>>

\* launch, abort and reset stop the countdown under way, if there is one.
MutStopsThread(p) == op[p] # "launch" /\ current # Nobody  \* launch keeps it
StopsThread(p) == op[p] # "clear" /\ current # Nobody

\* abort does nothing when no countdown is shown.
NothingToAbort(p) == op[p] = "abort" /\ countdown = Nobody

Ignore(p) ==
  /\ at[p] = "body" /\ NothingToAbort(p)
  /\ Leave(p)
  /\ UNCHANGED <<subscribed, stateVars, countdownVars>>

\* CountdownThread.reset: it is told to stop, and joined if it is alive.
Stop(p) ==
  /\ at[p] = "body" /\ ~NothingToAbort(p) /\ StopsThread(p)
  /\ aborted' = (op[p] = "abort")
  /\ stopping' = stopping \union {current}
  /\ at' = [at EXCEPT ![p] = "join"]
  /\ UNCHANGED <<chan, lock, subscribed, op, countdown, current, alive, ticking, count, unused>>

MutJoined == TRUE  \* reset without join
Joined == current \notin alive

Join(p) ==
  /\ at[p] = "join" /\ Joined
  /\ current' = Nobody
  /\ at' = [at EXCEPT ![p] = "finish"]
  /\ UNCHANGED <<chan, lock, subscribed, op, countdown, aborted, countdownVars>>

Skip(p) ==
  /\ at[p] = "body" /\ ~NothingToAbort(p) /\ ~StopsThread(p)
  /\ aborted' = (op[p] = "abort")
  /\ at' = [at EXCEPT ![p] = "finish"]
  /\ UNCHANGED <<chan, lock, subscribed, op, countdown, current, countdownVars>>

\* The end of abort, of clear (countdown = None) and of close.
Finish(p) ==
  /\ at[p] = "finish" /\ op[p] # "launch"
  /\ countdown' = IF op[p] = "clear" THEN Nobody ELSE countdown
  /\ Leave(p)
  /\ UNCHANGED <<subscribed, aborted, current, countdownVars>>

\* The end of launch: a new CountdownThread starts.
Start(p) ==
  /\ at[p] = "finish" /\ op[p] = "launch"
  /\ \E c \in unused :
       /\ current' = c
       /\ alive' = alive \union {c}
       /\ unused' = unused \ {c}
  /\ countdown' = 0
  /\ Leave(p)
  /\ UNCHANGED <<subscribed, aborted, stopping, ticking, count>>

-----------------------------------------------------------------------------
(* CountdownThread.run                                                      *)

\* _ev.wait times out and the thread counts.
CountdownTimeout(c) ==
  /\ c \in alive /\ c \notin ticking /\ c \notin stopping
  /\ count[c] < MaxTicks
  /\ count' = [count EXCEPT ![c] = @ + 1]
  /\ ticking' = ticking \union {c}
  /\ UNCHANGED <<callerVars, stateVars, alive, stopping, unused>>

\* self._status.countdown = self._countdown, inside _lock.
Tick(c) ==
  /\ c \in ticking /\ lock = Nobody
  /\ countdown' = count[c]
  /\ ticking' = ticking \ {c}
  /\ UNCHANGED <<callerVars, aborted, current, alive, stopping, count, unused>>

\* _ev is set and _is_running False: run returns.
End(c) ==
  /\ c \in alive /\ c \notin ticking /\ c \in stopping
  /\ alive' = alive \ {c}
  /\ UNCHANGED <<callerVars, stateVars, stopping, ticking, count, unused>>

CallerStep(p) ==
  Lock(p) \/ Ignore(p) \/ Stop(p) \/ Join(p) \/ Skip(p) \/ Finish(p) \/ Start(p)

LaunchNext ==
  \/ \E k \in Commands : (k = "launch" => unused # {}) /\ Command(k)
  \/ Close \/ LaunchUnsubscribe
  \/ \E p \in Callers : CallerStep(p)
  \/ \E c \in Threads : CountdownTimeout(c) \/ Tick(c) \/ End(c)

LaunchSpec == LaunchInit /\ [][LaunchNext]_launchVars

\* Every thread that can take a step takes one; no command has to arrive.
FairLaunchSpec ==
  /\ LaunchSpec /\ WF_launchVars(LaunchUnsubscribe)
  /\ \A p \in Callers : SF_launchVars(CallerStep(p))
  /\ \A c \in Threads : SF_launchVars(Tick(c)) /\ WF_launchVars(End(c))

-----------------------------------------------------------------------------
(* Properties                                                               *)

\* Types; a caller past _lock holds it, and a callback runs inside _chanel_lock.
LaunchTypeOK ==
  /\ chan = IF op[Commander] = "idle" THEN Nobody ELSE Commander
  /\ lock \in Callers \union {Nobody}
  /\ \A p \in Callers :
       /\ (lock = p) <=> (at[p] \notin {"idle", "lock"})
       /\ (at[p] = "idle") <=> (op[p] \in {"idle", "closed"})
  /\ subscribed \in BOOLEAN /\ aborted \in BOOLEAN
  /\ op \in [Callers -> Commands \union {"idle", "close", "closed"}]
  /\ at \in [Callers -> {"idle", "lock", "unsubscribe", "body", "join", "finish"}]
  /\ countdown \in 0 .. MaxTicks \union {Nobody}
  /\ current \in Threads \union {Nobody}
  /\ stopping \subseteq Threads /\ ticking \subseteq alive
  /\ count \in [Threads -> 0 .. MaxTicks]
  /\ alive \subseteq Threads \ unused /\ unused \subseteq Threads

\* The display is driven by one countdown at a time: any thread that runs is the
\* one LaunchStatus can still stop.
OneCountdownAtATime == alive \subseteq {current}

\* Once an abort has returned, the countdown it stopped no longer moves.
AbortedCountdownStops ==
  [][aborted /\ aborted' /\ op[Commander] = "idle" => countdown' = countdown]_launchVars

\* Once close has returned, neither a command nor a tick reaches the display.
ClosedMeansSilent ==
  [][op[Closer] = "closed" => ~subscribed /\ countdown' = countdown]_launchVars

\* A countdown that was aborted, and a display that was closed, stay silent.
OverMeansSilent == AbortedCountdownStops /\ ClosedMeansSilent

\* An abort ("Num 0: Abort") returns, as long as nobody closes the display.  The
\* code does not keep this.
AbortReturns ==
  op[Commander] = "abort" ~> (op[Commander] = "idle" \/ op[Closer] # "idle")

\* "Aux 1/Num 5: Shutdown" clears the countdown until the next launch.  The code
\* does not keep this.
ClearedCountdownStaysCleared ==
  [][countdown = Nobody /\ countdown' # Nobody => op[Commander] = "launch"]_launchVars
=============================================================================
