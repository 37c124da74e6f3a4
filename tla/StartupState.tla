----------------------------- MODULE StartupState -----------------------------
(***************************************************************************)
(* How the server loads the layout from the Base 3 (db/startup_state.py).   *)
(* The thread of StartupState asks for the first record of every roster;    *)
(* each answer, handled by the PdiDispatcher thread, asks for the next one. *)
(* The requests not yet answered are in _waiting_for, and the thread leaves *)
(* when it finds that empty, or its event set, or after two minutes.        *)
(*                                                                         *)
(* The Base answers in any order.  Its records are numbered from 1; the     *)
(* registration of LCS devices is a stray packet: nothing waits for it.     *)
(***************************************************************************)
EXTENDS Integers, Sequences

CONSTANTS
  Rosters,   \* the rosters read with BASE_MEMORY, in the order they are asked for
  TrainScope,\* the one whose last record ends the synchronization
  LastNo,    \* records of a roster (98)
  D4Engines, \* 4-digit engines the Base has
  D4Trains,  \* 4-digit trains the Base has
  NoD4,      \* the -no_d4 option
  ForceSync, \* the -force_sync option
  MaxStrays, \* bound on the packets nobody asked for
  MaxLost    \* bound on the requests never answered

Scopes == {Rosters[i] : i \in 1 .. Len(Rosters)}

ASSUME StartupAssumption ==
  /\ Rosters \in Seq(STRING) /\ TrainScope \in Scopes /\ LastNo \in Nat \ {0}
  /\ \A i, j \in 1 .. Len(Rosters) : Rosters[i] = Rosters[j] => i = j
  /\ D4Engines \in Nat /\ D4Trains \in Nat
  /\ NoD4 \in BOOLEAN /\ ForceSync \in BOOLEAN
  /\ MaxStrays \in Nat /\ MaxLost \in Nat

Kinds == {"D4_ENGINE", "D4_TRAIN"}
Records(kind) == IF kind = "D4_ENGINE" THEN D4Engines ELSE D4Trains

\* Requests, and the answers that carry the same key.
Memory(s, n) == [action |-> "memory", of |-> s, no |-> n]
Count(k) == [action |-> "count", of |-> k, no |-> 0]
FirstRec(k) == [action |-> "first", of |-> k, no |-> 0]
Query(k, n) == [action |-> "query", of |-> k, no |-> n]
NextRec(k, n) == [action |-> "next", of |-> k, no |-> n]

Requests ==
  [action : {"memory"}, of : Scopes, no : 1 .. LastNo]
    \union [action : {"count", "first"}, of : Kinds, no : {0}]
    \union [action : {"query", "next"}, of : Kinds, no : Nat \ {0}]

Stray == [action |-> "stray", of |-> "nobody", no |-> 0]

VARIABLES
  run,         \* where StartupState.run is
  unasked,     \* the opening requests the thread still has to make
  waiting,     \* _waiting_for
  asked,       \* requests sent and not answered
  handling,    \* the packet __call__ is handling: a set of at most one
  storing,     \* the packet being published to the state store, after __call__
  defer,       \* _defer_d4_train_harvest
  ev,          \* _ev
  complete,    \* _sync_complete
  showElapsed, \* _show_elapsed: the loop may break
  offered,     \* sync markers in the queue of the CommandDispatcher
  synced,      \* SyncState.is_synchronized
  caller,      \* PyTrain._get_system_state
  stored,      \* answers the state store has
  claimed,     \* "Initial state loaded from Lionel Base" was logged
  strays, lost \* counters of the bounds

threadVars == <<run, unasked, claimed, showElapsed>>
callbackVars == <<handling, storing, defer, stored>>
syncVars == <<offered, synced, caller>>
limits == <<strays, lost>>
vars == <<threadVars, waiting, asked, callbackVars, ev, complete, syncVars, limits>>

Opening ==
  (IF NoD4 THEN <<>> ELSE <<Count("D4_ENGINE"), Count("D4_TRAIN")>>)
    \o [i \in 1 .. Len(Rosters) |-> Memory(Rosters[i], 1)]

Init ==
  /\ run = "start" /\ unasked = Opening /\ claimed = FALSE
  /\ waiting = {} /\ asked = {}
  /\ handling = {} /\ storing = {} /\ defer = FALSE /\ stored = {}
  /\ ev = FALSE /\ complete = FALSE /\ showElapsed = TRUE
  /\ offered = <<"SYNCHRONIZING">> /\ synced = FALSE /\ caller = "polling"
  /\ strays = 0 /\ lost = 0

-----------------------------------------------------------------------------
(* The thread                                                               *)

Subscribed == run \notin {"start", "done"}

Subscribe ==
  /\ run = "start" /\ run' = "asking"
  /\ UNCHANGED <<unasked, claimed, showElapsed, waiting, asked, callbackVars, ev, complete, syncVars, limits>>

\* A request is expected before it is enqueued.
Ask ==
  /\ run = "asking"
  /\ unasked' = Tail(unasked)
  /\ run' = IF Len(unasked) = 1 THEN "waiting" ELSE run
  /\ waiting' = waiting \union {Head(unasked)}
  /\ asked' = asked \union {Head(unasked)}
  /\ UNCHANGED <<claimed, showElapsed, callbackVars, ev, complete, syncVars, limits>>

\* The test of the loop; it reads _waiting_for without _cv.
Answered == ev \/ waiting = {}

Poll ==
  /\ run = "waiting" /\ Answered
  /\ ev' = FALSE
  /\ run' = IF showElapsed THEN "leaving" ELSE run
  /\ claimed' = (claimed \/ showElapsed)
  /\ UNCHANGED <<unasked, showElapsed, waiting, asked, callbackVars, complete, syncVars, limits>>

\* After 30 s.  The loop cannot break any more: only the timeout ends it.
ForceComplete ==
  /\ ForceSync /\ run = "waiting" /\ ~Answered /\ ~complete
  /\ showElapsed' = FALSE
  /\ complete' = TRUE /\ offered' = Append(offered, "SYNCHRONIZED")
  /\ UNCHANGED <<run, unasked, claimed, waiting, asked, callbackVars, ev, synced, caller, limits>>

\* After 120 s.
Timeout ==
  /\ run = "waiting"
  /\ run' = "leaving"
  /\ UNCHANGED <<unasked, claimed, showElapsed, waiting, asked, callbackVars, ev, complete, syncVars, limits>>

Unsubscribe ==
  /\ run = "leaving" /\ run' = "done"
  /\ UNCHANGED <<unasked, claimed, showElapsed, waiting, asked, callbackVars, ev, complete, syncVars, limits>>

-----------------------------------------------------------------------------
(* The callback, in the thread of the PdiDispatcher                         *)

Idle == handling = {} /\ storing = {}

\* An answer leaves _waiting_for; without a subscription it is only stored.
Receive(r) ==
  /\ Idle /\ r \in asked
  /\ asked' = asked \ {r}
  /\ IF Subscribed
       THEN handling' = {r} /\ waiting' = waiting \ {r} /\ UNCHANGED storing
       ELSE storing' = {r} /\ UNCHANGED <<handling, waiting>>
  /\ UNCHANGED <<threadVars, defer, stored, ev, complete, syncVars, limits>>

\* A packet nobody waits for: a config, a status, an update.
ReceiveStray ==
  /\ Idle /\ Subscribed /\ strays < MaxStrays
  /\ handling' = {Stray} /\ strays' = strays + 1
  /\ UNCHANGED <<threadVars, waiting, asked, storing, defer, stored, ev, complete, syncVars, lost>>

\* The records a FIRST_REC or NEXT_REC answer leads to: the next one, if any.
Onward(k, n) == IF n < Records(k) THEN {Query(k, n + 1), NextRec(k, n + 1)} ELSE {}

EndOfD4(r) == r.action \in {"first", "next"} /\ Onward(r.of, r.no) = {}

\* The trains of a Base wait until a 4-digit chain has ended.
MutDefers(r) == FALSE  \* a count of trains starts their chain
Defers(r) == r.action = "count" /\ r.of = "D4_TRAIN" /\ D4Trains > 0

MutDeferAfter(r) == defer \/ Defers(r)  \* the end of the chain does not reset it
DeferAfter(r) == (defer \/ Defers(r)) /\ ~EndOfD4(r)

\* What the answer makes the callback ask for.
Follow(r) ==
  (IF r.action = "memory" /\ r.no < LastNo THEN {Memory(r.of, r.no + 1)} ELSE {})
    \union (IF r.action = "count" /\ Records(r.of) > 0 /\ ~Defers(r) THEN {FirstRec(r.of)} ELSE {})
    \union (IF r.action \in {"first", "next"} THEN Onward(r.of, r.no) ELSE {})
    \union (IF EndOfD4(r) /\ defer THEN {FirstRec("D4_TRAIN")} ELSE {})

\* The last record of the train roster ends the synchronization.
Completes(r) == r.action = "memory" /\ r.no = LastNo /\ r.of = TrainScope

\* What the callback adds to _waiting_for.
MutExpected(r) == {q \in Follow(r) : q.action # "query"}  \* the query is sent only
Expected(r) == Follow(r)

React(r) ==
  /\ r \in handling
  /\ handling' = {} /\ storing' = {r}
  /\ waiting' = waiting \union Expected(r) /\ asked' = asked \union Follow(r)
  /\ defer' = DeferAfter(r)
  /\ ev' = (ev \/ (Follow(r) = {} /\ waiting = {}))
  /\ complete' = (complete \/ Completes(r))
  /\ offered' = IF Completes(r) THEN Append(offered, "SYNCHRONIZED") ELSE offered
  /\ UNCHANGED <<threadVars, stored, synced, caller, limits>>

\* The broadcast comes first; then the packet is published to the state store.
Store ==
  /\ storing # {}
  /\ storing' = {} /\ stored' = stored \union storing
  /\ UNCHANGED <<threadVars, waiting, asked, handling, defer, ev, complete, syncVars, limits>>

-----------------------------------------------------------------------------
(* The Base, the command dispatcher and the caller                          *)

Lose(r) ==
  /\ r \in asked /\ lost < MaxLost
  /\ asked' = asked \ {r} /\ lost' = lost + 1
  /\ UNCHANGED <<threadVars, waiting, callbackVars, ev, complete, syncVars, strays>>

\* SyncState.update
Publish ==
  /\ offered # <<>>
  /\ offered' = Tail(offered) /\ synced' = (Head(offered) = "SYNCHRONIZED")
  /\ UNCHANGED <<threadVars, waiting, asked, callbackVars, ev, complete, caller, limits>>

Return ==
  /\ caller = "polling" /\ synced
  /\ caller' = "returned"
  /\ UNCHANGED <<threadVars, waiting, asked, callbackVars, ev, complete, offered, synced, limits>>

Next ==
  \/ Subscribe \/ Ask \/ Poll \/ ForceComplete \/ Timeout \/ Unsubscribe
  \/ \E r \in asked : Receive(r) \/ Lose(r)
  \/ \E r \in handling : React(r)
  \/ Store \/ ReceiveStray \/ Publish \/ Return

Spec == Init /\ [][Next]_vars

-----------------------------------------------------------------------------
(* Properties                                                               *)

\* Types; the PdiDispatcher thread has one packet at most, and the thread of
\* StartupState something to ask for while it asks.
TypeOK ==
  /\ run \in {"start", "asking", "waiting", "leaving", "done"}
  /\ unasked \in Seq(Requests) /\ (run \in {"start", "asking"} => unasked # <<>>)
  /\ waiting \subseteq Requests /\ asked \subseteq Requests /\ stored \subseteq Requests \union {Stray}
  /\ handling \subseteq Requests \union {Stray} /\ storing \subseteq Requests \union {Stray}
  /\ \A r, q \in handling \union storing : r = q
  /\ handling = {} \/ storing = {}
  /\ defer \in BOOLEAN /\ ev \in BOOLEAN /\ complete \in BOOLEAN /\ claimed \in BOOLEAN
  /\ showElapsed \in BOOLEAN
  /\ offered \in Seq({"SYNCHRONIZING", "SYNCHRONIZED"}) /\ synced \in BOOLEAN
  /\ caller \in {"polling", "returned"}
  /\ strays \in 0 .. MaxStrays /\ lost \in 0 .. MaxLost

Known == handling \union storing \union stored  \* what has been answered

\* Whatever is on its way is expected, so a request that is never answered is
\* among the stragglers that run lists at its end (startup_state.py:200).
OutstandingIsExpected == asked \subseteq waiting

\* No record is asked for twice: the chains of requests do not fork, and the
\* deferred chain of 4-digit trains is started by one end of a chain only.
NothingAskedTwice == [][\A r \in asked' \ asked : r \notin Known']_vars

\* "delay harvest of D4 train records until all D4 engines loaded"
\* (startup_state.py:91): their chain starts when every engine has been asked for.
TrainsFollowEngines ==
  FirstRec("D4_TRAIN") \in asked \union Known =>
    \A n \in 1 .. D4Engines : Query("D4_ENGINE", n) \in waiting \union Known

\* When the caller goes on, and completion was not forced, every record of the
\* trains but the last has been stored and the last is being handled or stored.
ReturnsWithTrains ==
  caller = "returned" /\ showElapsed =>
    /\ \A n \in 1 .. LastNo - 1 : Memory(TrainScope, n) \in stored
    /\ Memory(TrainScope, LastNo) \in storing \union stored

\* The synchronization knows what it waits for, and lets nobody go on without the trains.
LoadSafety == OutstandingIsExpected /\ ReturnsWithTrains

\* The loop that says the state is loaded ends when all responses are in: "now wait
\* for all responses" (startup_state.py:175).  The code does not keep this.
LoadedMeansAnswered ==
  claimed => \A s \in Scopes, n \in 1 .. LastNo : Memory(s, n) \in Known
=============================================================================
