------------------------- MODULE DelayHandlerProofs -------------------------
(***************************************************************************)
(* Theorems about DelayHandler, for any set of requests, keys and callers, *)
(* any delays, any purge frequency, and for server and client alike.       *)
(***************************************************************************)
EXTENDS DelayHandler, FiniteSetTheorems, TLAPS

\* The groups of variables that most steps leave unchanged.
USE DEF schedVars, trackVars, wakeVars, sleepVars, handlerVars, loopVars,
        callVars

\* The sequence number schedule() draws is a natural number.
LEMMA SequenceNumberType ==
  ASSUME seq \in [Requests -> Nat]
  PROVE  Cardinality(Scheduled) + 1 \in Nat \ {0}
<1>1. IsFiniteSet(Scheduled)
  BY RequestsAssumption, FS_Subset DEF Scheduled
<1>2. Cardinality(Scheduled) \in Nat
  BY <1>1, FS_CardinalityType
<1> QED
  BY <1>2

LEMMA TypeInit == Init => TypeOK
<1> USE RequestsAssumption, TimeAssumption
<1> SUFFICES ASSUME Init PROVE TypeOK
  OBVIOUS
<1>1. sent \in Seq(Requests) /\ doomed \subseteq Requests
  BY DEF Init
<1>2. /\ op \in [Callers -> {"idle", "schedule", "lock", "cancel"}]
      /\ arg \in [Callers -> CancelArgs]
  BY DEF Init, CancelArgs
<1>3. \A c \in Callers : cv = c <=> op[c] \in {"schedule", "cancel"}
  BY DEF Init
<1> QED
  BY <1>1, <1>2, <1>3 DEF Init, TypeOK, Events

\* One step per action: a schedule or a cancellation of one caller, a step of
\* the handler thread, the clock.
LEMMA TypeStep == TypeOK /\ [Next]_vars => TypeOK'
<1> USE RequestsAssumption, TimeAssumption
<1> SUFFICES ASSUME TypeOK, [Next]_vars
             PROVE  TypeOK'
  OBVIOUS
<1>1. CASE Tick
  BY <1>1 DEF TypeOK, Tick
<1>2. ASSUME NEW c \in Callers, NEW r \in Requests, NEW d \in Delays,
             ScheduleEnter(c, r, d)
      PROVE  TypeOK'
  BY <1>2, SequenceNumberType
     DEF TypeOK, ScheduleEnter, Events
<1>3. ASSUME NEW c \in Callers, ScheduleFinish(c)
      PROVE  TypeOK'
  BY <1>3
     DEF TypeOK, ScheduleFinish, Notifies,
         Events
<1>4. ASSUME NEW c \in Callers, NEW a \in CancelArgs, CancelRequest(c, a)
      PROVE  TypeOK'
  BY SMTT(60), <1>4 DEF TypeOK, CancelRequest
<1>5. ASSUME NEW c \in Callers, CancelBegin(c)
      PROVE  TypeOK'
  BY <1>5 DEF TypeOK, CancelBegin
<1>6. ASSUME NEW c \in Callers, NEW r \in Requests, CancelOne(c, r)
      PROVE  TypeOK'
  BY <1>6 DEF TypeOK, CancelOne
<1>7. ASSUME NEW c \in Callers, CancelEnd(c)
      PROVE  TypeOK'
  BY <1>7 DEF TypeOK, CancelEnd, CancelArgs
<1>8. CASE Check
  BY <1>8 DEF TypeOK, Check
<1>9. CASE Plan
  BY <1>9 DEF TypeOK, Plan, Events
<1>10. CASE Wake
  BY <1>10 DEF TypeOK, Wake
<1>11. CASE Clear
  BY <1>11 DEF TypeOK, Clear
<1>12. CASE Pop
  BY <1>12 DEF TypeOK, Pop, Events
<1>13. CASE RunReturn
  BY <1>13 DEF TypeOK, RunReturn
<1>14. CASE Wrap
  BY <1>14 DEF TypeOK, Events, Wrap
<1>15. CASE Act
  BY <1>15 DEF TypeOK, Events, Act
<1>16. CASE ActFails
  BY <1>16 DEF TypeOK, ActFails
<1>17. CASE PurgeInactive
  BY <1>17 DEF TypeOK, PurgeInactive
<1>18. CASE PurgeReschedule
  BY <1>18 DEF TypeOK, PurgeReschedule, Events
<1>19. CASE UNCHANGED vars
  BY <1>19 DEF TypeOK, vars
<1> QED
  BY <1>1, <1>2, <1>3, <1>4, <1>5, <1>6, <1>7, <1>8, <1>9, <1>10, <1>11,
     <1>12, <1>13, <1>14, <1>15, <1>16, <1>17, <1>18, <1>19
     DEF Next, CallerSteps, HandlerSteps

\* The variables have their types in every reachable state; the handler's
\* program counter tells whether it holds a popped event, and a caller's tells
\* whether it holds _cv.
THEOREM TypeCorrect == Spec => []TypeOK
<1> QED
  BY TypeInit, TypeStep, PTL DEF Spec

-----------------------------------------------------------------------------
(* Cancellation.  What a cancellation relies on is not inductive alone: it  *)
(* also matters that an event is never both queued and already run or       *)
(* canceled (the purge would forget it), and that the wrapper cannot pass   *)
(* its check while a cancellation holds _cv.                                *)

\* Every queued request is cached, but for the one schedule() is entering.
QueuedIsCached ==
  /\ queue \ {Purge} \subseteq cache \cup {entering}
  /\ entering # Nobody => \E c \in Callers : cv = c /\ op[c] = "schedule"

\* Queued, run and canceled requests are apart, and all of them scheduled.
Lifecycle ==
  /\ queue \cap (ran \cup canceled) = {}
  /\ cur \notin queue
  /\ ~purging => cur # Purge /\ Purge \notin queue
  /\ ran \cap canceled = {}
  /\ pc = "wrap" => cur \notin ran
  /\ pc = "act" => cur \in ran
  /\ \A i \in DOMAIN sent : sent[i] \in ran
  /\ \A r \in Requests :
       r \in queue \cup cache \cup ran \cup canceled \cup todo \cup deleted
               \cup {cur, entering}
         => seq[r] > 0

\* The loop of cancel_delayed_requests: nothing it deleted is queued, and a
\* request it should withdraw is queued, withdrawn or popped, but has not run.
CancelLoop ==
  /\ deleted \cap queue = {}
  /\ pending # {} => \E c \in Callers : op[c] = "cancel"
  /\ pending \subseteq queue \cup canceled \cup {cur}
  /\ pending \cap ran = {}
  /\ \A c \in Callers : op[c] = "cancel" =>
       \A r \in pending : Matches(arg[c], r)

CancelInv ==
  TypeOK /\ QueuedIsCached /\ Lifecycle /\ CancelLoop
         /\ CancelLeavesOnlyInFlight

LEMMA CancelInvInit == Init => CancelInv
<1> SUFFICES ASSUME Init PROVE CancelInv
  OBVIOUS
<1>1. TypeOK
  BY TypeInit
<1>2. QueuedIsCached /\ Lifecycle /\ CancelLoop /\ CancelLeavesOnlyInFlight
  BY RequestsAssumption
     DEF Init, QueuedIsCached, Lifecycle, CancelLoop, CancelLeavesOnlyInFlight,
         Events
<1> QED
  BY <1>1, <1>2 DEF CancelInv

LEMMA CancelInvStep == CancelInv /\ [Next]_vars => CancelInv'
<1> SUFFICES ASSUME CancelInv, [Next]_vars
             PROVE  CancelInv'
  OBVIOUS
<1> USE RequestsAssumption
<1>t. TypeOK'
  BY TypeStep DEF CancelInv
<1>1. ASSUME NEW c \in Callers, NEW r \in Requests, NEW d \in Delays,
               ScheduleEnter(c, r, d)
        PROVE  CancelInv'
  <2>1. QueuedIsCached'
    BY <1>1
       DEF CancelInv, TypeOK, QueuedIsCached, Lifecycle, CancelLoop,
           CancelLeavesOnlyInFlight, ScheduleEnter, Events
  <2>2. Lifecycle'
    <3>1. /\ seq[r] = 0
          /\ queue' = queue \cup {r}
          /\ seq'[r] > 0
          /\ \A q \in Requests : seq[q] > 0 => seq'[q] > 0
      BY <1>1, SequenceNumberType DEF CancelInv, TypeOK, ScheduleEnter
    <3>2. r \notin ran \cup canceled \cup deleted \cup {cur}
      BY <3>1 DEF CancelInv, Lifecycle
    <3> QED
      BY <1>1, <3>1, <3>2
         DEF CancelInv, TypeOK, Lifecycle, ScheduleEnter, Events
  <2>3. CancelLoop'
    BY <1>1
       DEF CancelInv, TypeOK, QueuedIsCached, Lifecycle, CancelLoop,
           CancelLeavesOnlyInFlight, ScheduleEnter, Events
  <2>4. CancelLeavesOnlyInFlight'
    BY <1>1
       DEF CancelInv, TypeOK, QueuedIsCached, Lifecycle, CancelLoop,
           CancelLeavesOnlyInFlight, ScheduleEnter, Events
  <2> QED
    BY <1>t, <2>1, <2>2, <2>3, <2>4 DEF CancelInv
<1>2. ASSUME NEW c \in Callers,
               ScheduleFinish(c)
        PROVE  CancelInv'
  <2>1. QueuedIsCached'
    BY <1>2
       DEF CancelInv, TypeOK, QueuedIsCached, Lifecycle, CancelLoop,
           CancelLeavesOnlyInFlight, ScheduleFinish, Events
  <2>2. Lifecycle'
    BY <1>2
       DEF CancelInv, TypeOK, QueuedIsCached, Lifecycle, CancelLoop,
           CancelLeavesOnlyInFlight, ScheduleFinish, Events
  <2>3. CancelLoop'
    BY <1>2
       DEF CancelInv, TypeOK, QueuedIsCached, Lifecycle, CancelLoop,
           CancelLeavesOnlyInFlight, ScheduleFinish, Events
  <2>4. CancelLeavesOnlyInFlight'
    BY <1>2
       DEF CancelInv, TypeOK, QueuedIsCached, Lifecycle, CancelLoop,
           CancelLeavesOnlyInFlight, ScheduleFinish, Events
  <2> QED
    BY <1>t, <2>1, <2>2, <2>3, <2>4 DEF CancelInv
<1>3. ASSUME NEW c \in Callers, NEW a \in CancelArgs,
               CancelRequest(c, a)
        PROVE  CancelInv'
  <2>1. QueuedIsCached'
    BY <1>3
       DEF CancelInv, TypeOK, QueuedIsCached, Lifecycle, CancelLoop,
           CancelLeavesOnlyInFlight, CancelRequest, Events
  <2>2. Lifecycle'
    BY <1>3
       DEF CancelInv, TypeOK, QueuedIsCached, Lifecycle, CancelLoop,
           CancelLeavesOnlyInFlight, CancelRequest, Events
  <2>3. CancelLoop'
    <3>1. \A b \in Callers : op'[b] = "cancel" <=> op[b] = "cancel"
      BY <1>3 DEF CancelInv, TypeOK, CancelRequest
    <3>2. \A b \in Callers : op[b] = "cancel" => arg'[b] = arg[b]
      BY <1>3 DEF CancelInv, TypeOK, CancelRequest
    <3> QED
      BY <1>3, <3>1, <3>2
         DEF CancelInv, TypeOK, CancelLoop, CancelRequest
  <2>4. CancelLeavesOnlyInFlight'
    BY <1>3
       DEF CancelInv, TypeOK, QueuedIsCached, Lifecycle, CancelLoop,
           CancelLeavesOnlyInFlight, CancelRequest, Events
  <2> QED
    BY <1>t, <2>1, <2>2, <2>3, <2>4 DEF CancelInv
<1>4. ASSUME NEW c \in Callers,
               CancelBegin(c)
        PROVE  CancelInv'
  <2>1. QueuedIsCached'
    BY <1>4
       DEF CancelInv, TypeOK, QueuedIsCached, Lifecycle, CancelLoop,
           CancelLeavesOnlyInFlight, CancelBegin, Matches, Events
  <2>2. Lifecycle'
    BY <1>4
       DEF CancelInv, TypeOK, QueuedIsCached, Lifecycle, CancelLoop,
           CancelLeavesOnlyInFlight, CancelBegin, Matches, Events
  <2>3. CancelLoop'
    BY <1>4
       DEF CancelInv, TypeOK, QueuedIsCached, Lifecycle, CancelLoop,
           CancelLeavesOnlyInFlight, CancelBegin, Matches, Events
  <2>4. CancelLeavesOnlyInFlight'
    BY <1>4
       DEF CancelInv, TypeOK, QueuedIsCached, Lifecycle, CancelLoop,
           CancelLeavesOnlyInFlight, CancelBegin, Matches, Events
  <2> QED
    BY <1>t, <2>1, <2>2, <2>3, <2>4 DEF CancelInv
<1>5. ASSUME NEW c \in Callers, NEW r \in Requests,
               CancelOne(c, r)
        PROVE  CancelInv'
  <2>1. QueuedIsCached'
    BY <1>5
       DEF CancelInv, TypeOK, QueuedIsCached, Lifecycle, CancelLoop,
           CancelLeavesOnlyInFlight, CancelOne, Removable, Events
  <2>2. Lifecycle'
    <3>1. /\ queue' \subseteq queue
          /\ deleted' \subseteq deleted \cup {r}
          /\ canceled' \subseteq canceled \cup {r}
          /\ r \in canceled' => r \in canceled \/ r \notin queue'
          /\ r \in canceled' => r \in canceled \/ r \notin ran
      BY <1>5 DEF CancelOne, Removable
    <3>2. seq[r] > 0
      BY <1>5 DEF CancelInv, Lifecycle, CancelOne
    <3> QED
      BY <1>5, <3>1, <3>2
         DEF CancelInv, TypeOK, Lifecycle, CancelOne, Removable, Events
  <2>3. CancelLoop'
    BY <1>5
       DEF CancelInv, TypeOK, QueuedIsCached, Lifecycle, CancelLoop,
           CancelLeavesOnlyInFlight, CancelOne, Removable, Events
  <2>4. CancelLeavesOnlyInFlight'
    BY <1>5
       DEF CancelInv, TypeOK, QueuedIsCached, Lifecycle, CancelLoop,
           CancelLeavesOnlyInFlight, CancelOne, Removable, Events
  <2> QED
    BY <1>t, <2>1, <2>2, <2>3, <2>4 DEF CancelInv
<1>6. ASSUME NEW c \in Callers,
               CancelEnd(c)
        PROVE  CancelInv'
  <2>1. QueuedIsCached'
    BY <1>6
       DEF CancelInv, TypeOK, QueuedIsCached, Lifecycle, CancelLoop,
           CancelLeavesOnlyInFlight, CancelEnd, Forgotten, Events
  <2>2. Lifecycle'
    BY <1>6
       DEF CancelInv, TypeOK, QueuedIsCached, Lifecycle, CancelLoop,
           CancelLeavesOnlyInFlight, CancelEnd, Forgotten, Events
  <2>3. CancelLoop'
    BY <1>6
       DEF CancelInv, TypeOK, QueuedIsCached, Lifecycle, CancelLoop,
           CancelLeavesOnlyInFlight, CancelEnd, Forgotten, Events
  <2>4. CancelLeavesOnlyInFlight'
    BY <1>6
       DEF CancelInv, TypeOK, QueuedIsCached, Lifecycle, CancelLoop,
           CancelLeavesOnlyInFlight, CancelEnd, Forgotten, Events
  <2> QED
    BY <1>t, <2>1, <2>2, <2>3, <2>4 DEF CancelInv
<1>7. CASE Tick
  <2>1. QueuedIsCached'
    BY <1>7
       DEF CancelInv, TypeOK, QueuedIsCached, Lifecycle, CancelLoop,
           CancelLeavesOnlyInFlight, Tick, Events
  <2>2. Lifecycle'
    BY <1>7
       DEF CancelInv, TypeOK, QueuedIsCached, Lifecycle, CancelLoop,
           CancelLeavesOnlyInFlight, Tick, Events
  <2>3. CancelLoop'
    BY <1>7
       DEF CancelInv, TypeOK, QueuedIsCached, Lifecycle, CancelLoop,
           CancelLeavesOnlyInFlight, Tick, Events
  <2>4. CancelLeavesOnlyInFlight'
    BY <1>7
       DEF CancelInv, TypeOK, QueuedIsCached, Lifecycle, CancelLoop,
           CancelLeavesOnlyInFlight, Tick, Events
  <2> QED
    BY <1>t, <2>1, <2>2, <2>3, <2>4 DEF CancelInv
<1>8. CASE Check
  <2>1. QueuedIsCached'
    BY <1>8
       DEF CancelInv, TypeOK, QueuedIsCached, Lifecycle, CancelLoop,
           CancelLeavesOnlyInFlight, Check, Events
  <2>2. Lifecycle'
    BY <1>8
       DEF CancelInv, TypeOK, QueuedIsCached, Lifecycle, CancelLoop,
           CancelLeavesOnlyInFlight, Check, Events
  <2>3. CancelLoop'
    BY <1>8
       DEF CancelInv, TypeOK, QueuedIsCached, Lifecycle, CancelLoop,
           CancelLeavesOnlyInFlight, Check, Events
  <2>4. CancelLeavesOnlyInFlight'
    BY <1>8
       DEF CancelInv, TypeOK, QueuedIsCached, Lifecycle, CancelLoop,
           CancelLeavesOnlyInFlight, Check, Events
  <2> QED
    BY <1>t, <2>1, <2>2, <2>3, <2>4 DEF CancelInv
<1>9. CASE Plan
  <2>1. QueuedIsCached'
    BY <1>9
       DEF CancelInv, TypeOK, QueuedIsCached, Lifecycle, CancelLoop,
           CancelLeavesOnlyInFlight, Plan, Events
  <2>2. Lifecycle'
    BY <1>9
       DEF CancelInv, TypeOK, QueuedIsCached, Lifecycle, CancelLoop,
           CancelLeavesOnlyInFlight, Plan, Events
  <2>3. CancelLoop'
    BY <1>9
       DEF CancelInv, TypeOK, QueuedIsCached, Lifecycle, CancelLoop,
           CancelLeavesOnlyInFlight, Plan, Events
  <2>4. CancelLeavesOnlyInFlight'
    BY <1>9
       DEF CancelInv, TypeOK, QueuedIsCached, Lifecycle, CancelLoop,
           CancelLeavesOnlyInFlight, Plan, Events
  <2> QED
    BY <1>t, <2>1, <2>2, <2>3, <2>4 DEF CancelInv
<1>10. CASE Wake
  <2>1. QueuedIsCached'
    BY <1>10
       DEF CancelInv, TypeOK, QueuedIsCached, Lifecycle, CancelLoop,
           CancelLeavesOnlyInFlight, Wake, Events
  <2>2. Lifecycle'
    BY <1>10
       DEF CancelInv, TypeOK, QueuedIsCached, Lifecycle, CancelLoop,
           CancelLeavesOnlyInFlight, Wake, Events
  <2>3. CancelLoop'
    BY <1>10
       DEF CancelInv, TypeOK, QueuedIsCached, Lifecycle, CancelLoop,
           CancelLeavesOnlyInFlight, Wake, Events
  <2>4. CancelLeavesOnlyInFlight'
    BY <1>10
       DEF CancelInv, TypeOK, QueuedIsCached, Lifecycle, CancelLoop,
           CancelLeavesOnlyInFlight, Wake, Events
  <2> QED
    BY <1>t, <2>1, <2>2, <2>3, <2>4 DEF CancelInv
<1>11. CASE Clear
  <2>1. QueuedIsCached'
    BY <1>11
       DEF CancelInv, TypeOK, QueuedIsCached, Lifecycle, CancelLoop,
           CancelLeavesOnlyInFlight, Clear, Events
  <2>2. Lifecycle'
    BY <1>11
       DEF CancelInv, TypeOK, QueuedIsCached, Lifecycle, CancelLoop,
           CancelLeavesOnlyInFlight, Clear, Events
  <2>3. CancelLoop'
    BY <1>11
       DEF CancelInv, TypeOK, QueuedIsCached, Lifecycle, CancelLoop,
           CancelLeavesOnlyInFlight, Clear, Events
  <2>4. CancelLeavesOnlyInFlight'
    BY <1>11
       DEF CancelInv, TypeOK, QueuedIsCached, Lifecycle, CancelLoop,
           CancelLeavesOnlyInFlight, Clear, Events
  <2> QED
    BY <1>t, <2>1, <2>2, <2>3, <2>4 DEF CancelInv
<1>12. CASE Pop
  <2>1. QueuedIsCached'
    BY <1>12
       DEF CancelInv, TypeOK, QueuedIsCached, Lifecycle, CancelLoop,
           CancelLeavesOnlyInFlight, Pop, Events
  <2>2. Lifecycle'
    BY <1>12
       DEF CancelInv, TypeOK, QueuedIsCached, Lifecycle, CancelLoop,
           CancelLeavesOnlyInFlight, Pop, Events
  <2>3. CancelLoop'
    BY <1>12
       DEF CancelInv, TypeOK, QueuedIsCached, Lifecycle, CancelLoop,
           CancelLeavesOnlyInFlight, Pop, Events
  <2>4. CancelLeavesOnlyInFlight'
    BY <1>12
       DEF CancelInv, TypeOK, QueuedIsCached, Lifecycle, CancelLoop,
           CancelLeavesOnlyInFlight, Pop, Events
  <2> QED
    BY <1>t, <2>1, <2>2, <2>3, <2>4 DEF CancelInv
<1>13. CASE RunReturn
  <2>1. QueuedIsCached'
    BY <1>13
       DEF CancelInv, TypeOK, QueuedIsCached, Lifecycle, CancelLoop,
           CancelLeavesOnlyInFlight, RunReturn, Events
  <2>2. Lifecycle'
    BY <1>13
       DEF CancelInv, TypeOK, QueuedIsCached, Lifecycle, CancelLoop,
           CancelLeavesOnlyInFlight, RunReturn, Events
  <2>3. CancelLoop'
    BY <1>13
       DEF CancelInv, TypeOK, QueuedIsCached, Lifecycle, CancelLoop,
           CancelLeavesOnlyInFlight, RunReturn, Events
  <2>4. CancelLeavesOnlyInFlight'
    BY <1>13
       DEF CancelInv, TypeOK, QueuedIsCached, Lifecycle, CancelLoop,
           CancelLeavesOnlyInFlight, RunReturn, Events
  <2> QED
    BY <1>t, <2>1, <2>2, <2>3, <2>4 DEF CancelInv
<1>14. CASE Wrap
  <2>1. QueuedIsCached'
    BY <1>14
       DEF CancelInv, TypeOK, QueuedIsCached, Lifecycle, CancelLoop,
           CancelLeavesOnlyInFlight, Wrap, WrapperMayLock, Events
  <2>2. Lifecycle'
    BY <1>14
       DEF CancelInv, TypeOK, QueuedIsCached, Lifecycle, CancelLoop,
           CancelLeavesOnlyInFlight, Wrap, WrapperMayLock, Events
  <2>3. CancelLoop'
    BY <1>14
       DEF CancelInv, TypeOK, QueuedIsCached, Lifecycle, CancelLoop,
           CancelLeavesOnlyInFlight, Wrap, WrapperMayLock, Events
  <2>4. CancelLeavesOnlyInFlight'
    BY <1>14
       DEF CancelInv, TypeOK, QueuedIsCached, Lifecycle, CancelLoop,
           CancelLeavesOnlyInFlight, Wrap, WrapperMayLock, Events
  <2> QED
    BY <1>t, <2>1, <2>2, <2>3, <2>4 DEF CancelInv
<1>15. CASE Act
  <2>1. QueuedIsCached'
    BY <1>15
       DEF CancelInv, TypeOK, QueuedIsCached, Lifecycle, CancelLoop,
           CancelLeavesOnlyInFlight, Act, Events
  <2>2. Lifecycle'
    BY <1>15
       DEF CancelInv, TypeOK, QueuedIsCached, Lifecycle, CancelLoop,
           CancelLeavesOnlyInFlight, Act, Events
  <2>3. CancelLoop'
    BY <1>15
       DEF CancelInv, TypeOK, QueuedIsCached, Lifecycle, CancelLoop,
           CancelLeavesOnlyInFlight, Act, Events
  <2>4. CancelLeavesOnlyInFlight'
    BY <1>15
       DEF CancelInv, TypeOK, QueuedIsCached, Lifecycle, CancelLoop,
           CancelLeavesOnlyInFlight, Act, Events
  <2> QED
    BY <1>t, <2>1, <2>2, <2>3, <2>4 DEF CancelInv
<1>16. CASE ActFails
  <2>1. QueuedIsCached'
    BY <1>16
       DEF CancelInv, TypeOK, QueuedIsCached, Lifecycle, CancelLoop,
           CancelLeavesOnlyInFlight, ActFails, Events
  <2>2. Lifecycle'
    BY <1>16
       DEF CancelInv, TypeOK, QueuedIsCached, Lifecycle, CancelLoop,
           CancelLeavesOnlyInFlight, ActFails, Events
  <2>3. CancelLoop'
    BY <1>16
       DEF CancelInv, TypeOK, QueuedIsCached, Lifecycle, CancelLoop,
           CancelLeavesOnlyInFlight, ActFails, Events
  <2>4. CancelLeavesOnlyInFlight'
    BY <1>16
       DEF CancelInv, TypeOK, QueuedIsCached, Lifecycle, CancelLoop,
           CancelLeavesOnlyInFlight, ActFails, Events
  <2> QED
    BY <1>t, <2>1, <2>2, <2>3, <2>4 DEF CancelInv
<1>17. CASE PurgeInactive
  <2>1. QueuedIsCached'
    BY <1>17
       DEF CancelInv, TypeOK, QueuedIsCached, Lifecycle, CancelLoop,
           CancelLeavesOnlyInFlight, PurgeInactive, Events
  <2>2. Lifecycle'
    BY <1>17
       DEF CancelInv, TypeOK, QueuedIsCached, Lifecycle, CancelLoop,
           CancelLeavesOnlyInFlight, PurgeInactive, Events
  <2>3. CancelLoop'
    BY <1>17
       DEF CancelInv, TypeOK, QueuedIsCached, Lifecycle, CancelLoop,
           CancelLeavesOnlyInFlight, PurgeInactive, Events
  <2>4. CancelLeavesOnlyInFlight'
    BY <1>17
       DEF CancelInv, TypeOK, QueuedIsCached, Lifecycle, CancelLoop,
           CancelLeavesOnlyInFlight, PurgeInactive, Events
  <2> QED
    BY <1>t, <2>1, <2>2, <2>3, <2>4 DEF CancelInv
<1>18. CASE PurgeReschedule
  <2>1. QueuedIsCached'
    BY <1>18
       DEF CancelInv, TypeOK, QueuedIsCached, Lifecycle, CancelLoop,
           CancelLeavesOnlyInFlight, PurgeReschedule, Events
  <2>2. Lifecycle'
    BY <1>18
       DEF CancelInv, TypeOK, QueuedIsCached, Lifecycle, CancelLoop,
           CancelLeavesOnlyInFlight, PurgeReschedule, Events
  <2>3. CancelLoop'
    BY <1>18
       DEF CancelInv, TypeOK, QueuedIsCached, Lifecycle, CancelLoop,
           CancelLeavesOnlyInFlight, PurgeReschedule, Events
  <2>4. CancelLeavesOnlyInFlight'
    BY <1>18
       DEF CancelInv, TypeOK, QueuedIsCached, Lifecycle, CancelLoop,
           CancelLeavesOnlyInFlight, PurgeReschedule, Events
  <2> QED
    BY <1>t, <2>1, <2>2, <2>3, <2>4 DEF CancelInv
<1>19. CASE UNCHANGED vars
  <2>1. QueuedIsCached'
    BY <1>19
       DEF CancelInv, TypeOK, QueuedIsCached, Lifecycle, CancelLoop,
           CancelLeavesOnlyInFlight, vars, Events
  <2>2. Lifecycle'
    BY <1>19
       DEF CancelInv, TypeOK, QueuedIsCached, Lifecycle, CancelLoop,
           CancelLeavesOnlyInFlight, vars, Events
  <2>3. CancelLoop'
    BY <1>19
       DEF CancelInv, TypeOK, QueuedIsCached, Lifecycle, CancelLoop,
           CancelLeavesOnlyInFlight, vars, Events
  <2>4. CancelLeavesOnlyInFlight'
    BY <1>19
       DEF CancelInv, TypeOK, QueuedIsCached, Lifecycle, CancelLoop,
           CancelLeavesOnlyInFlight, vars, Events
  <2> QED
    BY <1>t, <2>1, <2>2, <2>3, <2>4 DEF CancelInv
<1> QED
  BY <1>1, <1>2, <1>3, <1>4, <1>5, <1>6, <1>7, <1>8, <1>9, <1>10, <1>11, <1>12, <1>13, <1>14, <1>15, <1>16, <1>17, <1>18, <1>19
     DEF Next, CallerSteps, HandlerSteps

\* Whatever cancellations, purges and pops interleave, a queued request can be
\* found by cancel_delayed_requests whenever _cv is free.
THEOREM PendingRequestsAreCancelable == Spec => []PendingIsCancelable
<1>1. CancelInv => PendingIsCancelable
  BY RequestsAssumption
     DEF CancelInv, TypeOK, QueuedIsCached, PendingIsCancelable
<1> QED
  BY <1>1, CancelInvInit, CancelInvStep, PTL DEF Spec

\* A cancellation misses at most the one event that was popped while it ran.
THEOREM CancelMissesOnlyInFlight == Spec => []CancelLeavesOnlyInFlight
<1>1. CancelInv => CancelLeavesOnlyInFlight
  BY DEF CancelInv
<1> QED
  BY <1>1, CancelInvInit, CancelInvStep, PTL DEF Spec

\* A request whose cancellation succeeded is never sent.
THEOREM WithdrawnRequestsNeverFire == Spec => []WithdrawnNeverFires
<1>1. CancelInv => WithdrawnNeverFires
  BY DEF CancelInv, Lifecycle, WithdrawnNeverFires
<1> QED
  BY <1>1, CancelInvInit, CancelInvStep, PTL DEF Spec

\* A cancellation reaches whatever is scheduled: the three above together.
THEOREM CancellationsReachWhatWaits == Spec => []CancelSafety
<1>1. PendingIsCancelable /\ CancelLeavesOnlyInFlight /\ WithdrawnNeverFires => CancelSafety
  BY DEF CancelSafety
<1> QED
  BY PendingRequestsAreCancelable, CancelMissesOnlyInFlight, WithdrawnRequestsNeverFire, <1>1, PTL

-----------------------------------------------------------------------------
(* Order.  Sent requests precede the popped one, which precedes the queued  *)
(* ones: a request entered later is due strictly later, because its delay   *)
(* is positive and whatever was popped was already due.                     *)

Earlier(r, q) ==
  \/ due[r] < due[q]
  \/ due[r] = due[q] /\ seq[r] < seq[q]

Queued == queue \cap Requests
InFlight == IF pc \in {"wrap", "act"} THEN {cur} ELSE {}

OrderOfFlight ==
  \A r \in InFlight :
    /\ due[r] <= now
    /\ \A q \in Queued : Earlier(r, q)

OrderOfSent ==
  \A i \in DOMAIN sent :
    /\ due[sent[i]] <= now
    /\ \A q \in Queued \cup InFlight : Earlier(sent[i], q)

\* Every scheduled request is accounted for.
Accounted ==
  \A r \in Requests : seq[r] > 0 =>
    \/ r \in queue \cup canceled \cup {cur}
    \/ \E i \in DOMAIN sent : sent[i] = r

\* Sequence numbers grow with the number of requests scheduled so far.
Numbered == \A r \in Requests : seq[r] <= Cardinality(Scheduled)

OrderInv ==
  CancelInv /\ OrderOfFlight /\ OrderOfSent /\ Accounted /\ Numbered
            /\ FiresInDeadlineOrder

LEMMA OrderInvInit == Init => OrderInv
<1> SUFFICES ASSUME Init PROVE OrderInv
  OBVIOUS
<1>1. CancelInv
  BY CancelInvInit
<1>2. OrderOfFlight /\ OrderOfSent /\ Accounted /\ FiresInDeadlineOrder
  BY DEF Init, OrderOfFlight, OrderOfSent, Accounted, FiresInDeadlineOrder,
         InFlight
<1>3. Numbered
  <2>1. Scheduled = {}
    BY DEF Init, Scheduled
  <2> QED
    BY <2>1, FS_EmptySet DEF Init, Numbered
<1> QED
  BY <1>1, <1>2, <1>3 DEF OrderInv

\* A step that sends nothing, moves no deadline, queues and pops no request
\* and loses none keeps the order.
LEMMA OrderFrame ==
  ASSUME OrderInv, CancelInv',
         now' \in {now, now + 1},
         \A r \in Requests : due'[r] = due[r],
         seq' = seq, sent' = sent,
         Queued' \subseteq Queued,
         InFlight' \subseteq InFlight,
         Queued \cup canceled \cup {cur}
           \subseteq queue' \cup canceled' \cup {cur', Purge, Nobody}
  PROVE  OrderInv'
<1> USE RequestsAssumption
<1>t. TypeOK /\ TypeOK'
  BY DEF OrderInv, CancelInv
<1>1. \A i \in DOMAIN sent : sent[i] \in Requests
  BY <1>t DEF TypeOK
<1>2. InFlight \subseteq Requests
  BY <1>t DEF TypeOK, InFlight
<1>3. \A r, q \in Requests : Earlier(r, q) <=> Earlier(r, q)'
  BY DEF Earlier
<1>4. \A r \in Requests : due[r] <= now => due'[r] <= now'
  BY <1>t DEF TypeOK, Events
<1>5. OrderOfFlight'
  BY <1>2, <1>3, <1>4 DEF OrderInv, OrderOfFlight, Queued
<1>6. OrderOfSent'
  BY <1>1, <1>2, <1>3, <1>4 DEF OrderInv, OrderOfSent, Queued
<1>7. Accounted'
  <2> SUFFICES ASSUME NEW r \in Requests, seq'[r] > 0,
                      ~ \E i \in DOMAIN sent' : sent'[i] = r
               PROVE  r \in queue' \cup canceled' \cup {cur'}
    BY DEF Accounted
  <2>1. r \in queue \cup canceled \cup {cur}
    BY DEF OrderInv, Accounted
  <2> QED
    BY <2>1 DEF Queued, Events
<1>8. FiresInDeadlineOrder'
  <2> SUFFICES ASSUME NEW j \in DOMAIN sent
               PROVE  /\ due'[sent[j]] <= now'
                      /\ \A i \in 1..(j - 1) : Earlier(sent[i], sent[j])'
    BY DEF FiresInDeadlineOrder, Earlier
  <2>1. 1..(j - 1) \subseteq DOMAIN sent
    BY <1>t DEF TypeOK
  <2>2. \A i \in 1..(j - 1) : Earlier(sent[i], sent[j])
    BY DEF OrderInv, FiresInDeadlineOrder, Earlier
  <2> QED
    BY <1>1, <1>3, <1>4, <2>1, <2>2 DEF OrderInv, FiresInDeadlineOrder
<1>9. Numbered'
  BY DEF OrderInv, Numbered, Scheduled
<1> QED
  BY <1>5, <1>6, <1>7, <1>8, <1>9 DEF OrderInv

\* The order is at stake where a request enters the queue ...
LEMMA OrderEnter ==
  ASSUME OrderInv, CancelInv', NEW c \in Callers, NEW r \in Requests,
         NEW d \in Delays, ScheduleEnter(c, r, d)
  PROVE  OrderInv'
<1> USE RequestsAssumption, TimeAssumption
<1>t. TypeOK /\ TypeOK' /\ Lifecycle
  BY DEF OrderInv, CancelInv
<1>1. /\ seq[r] = 0 /\ now' = now /\ sent' = sent /\ cur' = cur
      /\ canceled' = canceled /\ InFlight' = InFlight
      /\ queue' = queue \cup {r}
      /\ due'[r] > now
      /\ \A q \in Requests \ {r} : due'[q] = due[q] /\ seq'[q] = seq[q]
  BY <1>t DEF ScheduleEnter, InFlight, TypeOK, Events
<1>2. /\ \A i \in DOMAIN sent : sent[i] \in Requests \ {r}
      /\ InFlight \subseteq Requests \ {r}
      /\ r \notin queue
  BY SMTT(60), <1>t, <1>1 DEF TypeOK, Lifecycle, InFlight
<1>3. \A p, q \in Requests \ {r} : Earlier(p, q) <=> Earlier(p, q)'
  BY <1>1 DEF Earlier
<1>4. \A p \in Requests \ {r} : due[p] <= now => Earlier(p, r)'
  BY <1>t, <1>1 DEF Earlier, TypeOK, Events
<1>5. OrderOfFlight'
  BY <1>1, <1>2, <1>3, <1>4 DEF OrderInv, OrderOfFlight, Queued
<1>6. OrderOfSent'
  BY <1>1, <1>2, <1>3, <1>4 DEF OrderInv, OrderOfSent, Queued
<1>7. Accounted'
  BY <1>1 DEF OrderInv, Accounted
<1>8. FiresInDeadlineOrder'
  <2> SUFFICES ASSUME NEW j \in DOMAIN sent
               PROVE  /\ due'[sent[j]] <= now
                      /\ \A i \in 1..(j - 1) : Earlier(sent[i], sent[j])'
    BY <1>1 DEF FiresInDeadlineOrder, Earlier
  <2>1. 1..(j - 1) \subseteq DOMAIN sent
    BY <1>t DEF TypeOK
  <2>2. \A i \in 1..(j - 1) : Earlier(sent[i], sent[j])
    BY DEF OrderInv, FiresInDeadlineOrder, Earlier
  <2> QED
    BY <1>1, <1>2, <1>3, <2>1, <2>2 DEF OrderInv, FiresInDeadlineOrder
<1>9. Numbered'
  <2>0. seq \in [Requests -> Nat] /\ seq'[r] > 0
    BY <1>t, SequenceNumberType DEF ScheduleEnter, TypeOK
  <2>1. Scheduled' = Scheduled \cup {r} /\ r \notin Scheduled
    BY <1>1, <2>0 DEF Scheduled
  <2>2. IsFiniteSet(Scheduled)
    BY FS_Subset DEF Scheduled
  <2>3. Cardinality(Scheduled') = Cardinality(Scheduled) + 1
    BY <2>1, <2>2, FS_AddElement
  <2>4. Cardinality(Scheduled) \in Nat
    BY <2>2, FS_CardinalityType
  <2>5. seq' = [seq EXCEPT ![r] = Cardinality(Scheduled) + 1]
    BY DEF ScheduleEnter
  <2> QED
    BY <1>t, <2>3, <2>4, <2>5 DEF OrderInv, Numbered, TypeOK
<1> QED
  BY <1>5, <1>6, <1>7, <1>8, <1>9 DEF OrderInv

\* ... where the handler pops one: the head precedes the rest of the queue ...
LEMMA OrderPop ==
  ASSUME OrderInv, CancelInv', Pop
  PROVE  OrderInv'
<1> USE RequestsAssumption
<1>t. TypeOK /\ TypeOK' /\ Lifecycle
  BY DEF OrderInv, CancelInv
<1>1. PICK e \in queue : /\ Earliest(e)
                         /\ due[e] <= now
                         /\ queue' = queue \ {e}
                         /\ cur' = e
                         /\ pc' = IF e = Purge THEN "purge" ELSE "wrap"
  BY DEF Pop, Due
<1>2. /\ now' = now /\ due' = due /\ seq' = seq /\ sent' = sent
      /\ canceled' = canceled /\ pc = "run"
  BY DEF Pop
<1>3. e \in Requests => /\ InFlight' = {e}
                        /\ \A q \in Queued' : Earlier(e, q)
  BY <1>1 DEF InFlight, Queued, Earliest, Precedes, Priority, Earlier
<1>4. e = Purge => InFlight' = {} /\ Queued' = Queued
  BY <1>1 DEF InFlight, Queued
<1>5. e \in Requests \/ e = Purge
  BY <1>1, <1>t DEF TypeOK, Events
<1>6. \A r, q \in Requests : Earlier(r, q) <=> Earlier(r, q)'
  BY <1>2 DEF Earlier
<1>7. \A i \in DOMAIN sent : sent[i] \in Requests
  BY <1>t DEF TypeOK
<1>8. OrderOfFlight'
  BY <1>1, <1>2, <1>3, <1>4, <1>5, <1>6 DEF OrderOfFlight, Queued
<1>9. OrderOfSent'
  <2>1. Queued' \cup InFlight' \subseteq Queued
    BY <1>1, <1>3, <1>4, <1>5 DEF Queued
  <2> QED
    BY <1>2, <1>6, <1>7, <2>1 DEF OrderInv, OrderOfSent, Queued
<1>10. Accounted'
  <2>1. cur \notin Requests
    BY <1>2, <1>t DEF TypeOK
  <2> QED
    BY <1>1, <1>2, <2>1 DEF OrderInv, Accounted
<1>11. FiresInDeadlineOrder'
  BY <1>2 DEF OrderInv, FiresInDeadlineOrder
<1>12. Numbered'
  BY <1>2 DEF OrderInv, Numbered, Scheduled
<1> QED
  BY <1>8, <1>9, <1>10, <1>11, <1>12 DEF OrderInv

\* ... and where it sends one.
LEMMA OrderAct ==
  ASSUME OrderInv, CancelInv', Act
  PROVE  OrderInv'
<1> USE RequestsAssumption
<1>t. TypeOK /\ TypeOK'
  BY DEF OrderInv, CancelInv
<1>1. /\ now' = now /\ due' = due /\ seq' = seq /\ queue' = queue
      /\ canceled' = canceled /\ cur \in Requests
      /\ InFlight = {cur} /\ InFlight' = {} /\ Queued' = Queued
  BY <1>t DEF Act, TypeOK, InFlight, Queued
<1>2. /\ DOMAIN sent' = 1..(Len(sent) + 1)
      /\ DOMAIN sent = 1..Len(sent)
      /\ Len(sent) \in Nat
      /\ \A i \in DOMAIN sent : sent'[i] = sent[i] /\ sent[i] \in Requests
      /\ sent'[Len(sent) + 1] = cur
  BY <1>1, <1>t DEF Act, TypeOK
<1>3. \A r, q \in Requests : Earlier(r, q) <=> Earlier(r, q)'
  BY <1>1 DEF Earlier
<1>4. OrderOfFlight'
  BY <1>1 DEF OrderOfFlight
<1>5. OrderOfSent'
  <2> SUFFICES ASSUME NEW i \in DOMAIN sent'
               PROVE  /\ due[sent'[i]] <= now
                      /\ \A q \in Queued : Earlier(sent'[i], q)
    BY <1>1 DEF OrderOfSent, Earlier
  <2>1. CASE i \in DOMAIN sent
    BY <2>1, <1>1, <1>2, <1>3 DEF OrderInv, OrderOfSent, Queued
  <2>2. CASE i = Len(sent) + 1
    BY <2>2, <1>1, <1>2, <1>3 DEF OrderInv, OrderOfFlight, Queued
  <2> QED
    BY <1>2, <2>1, <2>2
<1>6. Accounted'
  <2> SUFFICES ASSUME NEW r \in Requests, seq[r] > 0,
                      r \notin queue \cup canceled
               PROVE  \E i \in DOMAIN sent' : sent'[i] = r
    BY <1>1 DEF Accounted
  <2>1. r = cur \/ \E i \in DOMAIN sent : sent[i] = r
    BY DEF OrderInv, Accounted
  <2>2. Len(sent) + 1 \in DOMAIN sent' /\ DOMAIN sent \subseteq DOMAIN sent'
    BY <1>2
  <2> QED
    BY <1>2, <2>1, <2>2
<1>7. FiresInDeadlineOrder'
  <2> SUFFICES ASSUME NEW j \in DOMAIN sent'
               PROVE  /\ due[sent'[j]] <= now
                      /\ \A i \in 1..(j - 1) : Earlier(sent'[i], sent'[j])
    BY <1>1 DEF FiresInDeadlineOrder, Earlier
  <2>1. CASE j \in DOMAIN sent
    <3>1. 1..(j - 1) \subseteq DOMAIN sent
      BY <1>2, <2>1
    <3>2. \A i \in 1..(j - 1) : Earlier(sent[i], sent[j])
      BY <2>1 DEF OrderInv, FiresInDeadlineOrder, Earlier
    <3> QED
      BY <1>2, <2>1, <3>1, <3>2 DEF OrderInv, FiresInDeadlineOrder
  <2>2. CASE j = Len(sent) + 1
    <3>1. 1..(j - 1) = DOMAIN sent
      BY <1>2, <2>2
    <3> QED
      BY <1>1, <1>2, <2>2, <3>1 DEF OrderInv, OrderOfSent, OrderOfFlight
  <2> QED
    BY <1>2, <2>1, <2>2
<1>8. Numbered'
  BY <1>1 DEF OrderInv, Numbered, Scheduled
<1> QED
  BY <1>4, <1>5, <1>6, <1>7, <1>8 DEF OrderInv

LEMMA OrderInvStep == OrderInv /\ [Next]_vars => OrderInv'
<1> SUFFICES ASSUME OrderInv, [Next]_vars
             PROVE  OrderInv'
  OBVIOUS
<1> USE RequestsAssumption, TimeAssumption
<1>c. CancelInv'
  BY CancelInvStep DEF OrderInv
<1>t. TypeOK /\ Lifecycle
  BY DEF OrderInv, CancelInv
<1> USE DEF Queued, InFlight
<1>1. ASSUME NEW c \in Callers, NEW r \in Requests, NEW d \in Delays,
             ScheduleEnter(c, r, d)
      PROVE  OrderInv'
  BY <1>1, <1>c, OrderEnter
<1>2. ASSUME NEW c \in Callers, ScheduleFinish(c)
      PROVE  OrderInv'
  BY <1>2, <1>c, <1>t, OrderFrame DEF ScheduleFinish, TypeOK, Events
<1>3. ASSUME NEW c \in Callers, NEW a \in CancelArgs, CancelRequest(c, a)
      PROVE  OrderInv'
  BY <1>3, <1>c, OrderFrame DEF CancelRequest
<1>4. ASSUME NEW c \in Callers, CancelBegin(c)
      PROVE  OrderInv'
  BY <1>4, <1>c, OrderFrame DEF CancelBegin
<1>5. ASSUME NEW c \in Callers, NEW r \in Requests, CancelOne(c, r)
      PROVE  OrderInv'
  BY <1>5, <1>c, OrderFrame DEF CancelOne
<1>6. ASSUME NEW c \in Callers, CancelEnd(c)
      PROVE  OrderInv'
  BY <1>6, <1>c, OrderFrame DEF CancelEnd
<1>7. CASE Tick
  BY <1>7, <1>c, OrderFrame DEF Tick
<1>8. CASE Check
  BY <1>8, <1>c, OrderFrame DEF Check
<1>9. CASE Plan
  BY <1>9, <1>c, OrderFrame DEF Plan
<1>10. CASE Wake
  BY <1>10, <1>c, OrderFrame DEF Wake
<1>11. CASE Clear
  BY <1>11, <1>c, OrderFrame DEF Clear
<1>12. CASE Pop
  BY <1>12, <1>c, OrderPop
<1>13. CASE RunReturn
  BY <1>13, <1>c, OrderFrame DEF RunReturn
<1>14. CASE Wrap
  <2>1. cur \in canceled \/ cur \notin ran \cup canceled
    BY <1>14, <1>t DEF Wrap, Lifecycle
  <2>2. /\ now' = now /\ due' = due /\ seq' = seq /\ sent' = sent
        /\ queue' = queue /\ canceled' = canceled
        /\ \/ cur' = cur /\ pc' = "act"
           \/ cur \in canceled /\ cur' = Nobody /\ pc' = "run"
    BY <1>14, <2>1 DEF Wrap
  <2> QED
    BY <1>14, <1>c, <2>2, OrderFrame DEF Wrap
<1>15. CASE Act
  BY <1>15, <1>c, OrderAct
<1>16. CASE ActFails
  BY <1>16, <1>c, OrderFrame DEF ActFails
<1>17. CASE PurgeInactive
  BY <1>17, <1>c, OrderFrame DEF PurgeInactive
<1>18. CASE PurgeReschedule
  BY <1>18, <1>c, <1>t, OrderFrame DEF PurgeReschedule, TypeOK, Events
<1>19. CASE UNCHANGED vars
  BY <1>19, <1>c, OrderFrame DEF vars
<1> QED
  BY <1>1, <1>2, <1>3, <1>4, <1>5, <1>6, <1>7, <1>8, <1>9, <1>10, <1>11,
     <1>12, <1>13, <1>14, <1>15, <1>16, <1>17, <1>18, <1>19
     DEF Next, CallerSteps, HandlerSteps

\* Requests are sent in the order of their deadlines, never early, never twice.
THEOREM RequestsFireInDeadlineOrder == Spec => []FiresInDeadlineOrder
<1>1. OrderInv => FiresInDeadlineOrder
  BY DEF OrderInv
<1> QED
  BY <1>1, OrderInvInit, OrderInvStep, PTL DEF Spec

-----------------------------------------------------------------------------
(* Refinement.  schedule() is Submit at the moment the event enters the     *)
(* scheduler, TrackedEvent.cancel is Withdraw at the moment it removes it,  *)
(* the wrapper's action is Deliver, and every other step is a stutter.      *)

Deadlines == [r \in Requests |-> due[r]]

LEMMA RefinesInit == Init => Abstract!Init
  BY DEF Init, Abstract!Init, Events

\* A step that changes nothing a caller can see.
LEMMA RefinesStutter ==
  ASSUME now' = now, seq' = seq, sent' = sent, canceled' = canceled,
         \A r \in Requests : due'[r] = due[r]
  PROVE  UNCHANGED Abstract!vars
  BY DEF Abstract!vars

LEMMA RefinesStep == OrderInv /\ [Next]_vars => [Abstract!Next]_(Abstract!vars)
<1> SUFFICES ASSUME OrderInv, [Next]_vars
             PROVE  Abstract!Next \/ UNCHANGED Abstract!vars
  OBVIOUS
<1> USE RequestsAssumption, TimeAssumption
<1>t. TypeOK /\ Lifecycle
  BY DEF OrderInv, CancelInv
<1>1. ASSUME NEW c \in Callers, NEW r \in Requests, NEW d \in Delays,
             ScheduleEnter(c, r, d)
      PROVE  Abstract!Submit(r, d)
  <2>1. [q \in Requests |-> due'[q]] = [Deadlines EXCEPT ![r] = now + d]
    BY <1>1, <1>t DEF ScheduleEnter, TypeOK, Events, Deadlines
  <2>2. Scheduled = Abstract!Submitted /\ r \notin Scheduled
    BY <1>1 DEF ScheduleEnter, Scheduled, Abstract!Submitted
  <2>3. /\ seq' = [seq EXCEPT ![r] = seq'[r]]
        /\ \A q \in Requests : seq[q] < seq'[r]
    <3>1. seq \in [Requests -> Nat]
      BY <1>t DEF TypeOK
    <3>2. Cardinality(Scheduled) + 1 \in Nat \ {0}
      BY <3>1, SequenceNumberType
    <3>3. Cardinality(Scheduled) \in Nat
      BY RequestsAssumption, FS_Subset, FS_CardinalityType DEF Scheduled
    <3>4. seq' = [seq EXCEPT ![r] = Cardinality(Scheduled) + 1]
      BY <1>1 DEF ScheduleEnter
    <3> QED
      BY <3>1, <3>3, <3>4 DEF OrderInv, Numbered
  <2>4. now' = now /\ sent' = sent /\ canceled' = canceled
    BY <1>1 DEF ScheduleEnter
  <2> QED
    BY <2>1, <2>2, <2>3, <2>4 DEF Abstract!Submit, Deadlines
<1>2. ASSUME NEW c \in Callers, ScheduleFinish(c)
      PROVE  UNCHANGED Abstract!vars
  BY <1>2, <1>t, RefinesStutter DEF ScheduleFinish, TypeOK, Events
<1>3. ASSUME NEW c \in Callers, NEW a \in CancelArgs, CancelRequest(c, a)
      PROVE  UNCHANGED Abstract!vars
  BY <1>3, RefinesStutter DEF CancelRequest
<1>4. ASSUME NEW c \in Callers, CancelBegin(c)
      PROVE  UNCHANGED Abstract!vars
  BY <1>4, RefinesStutter DEF CancelBegin
<1>5. ASSUME NEW c \in Callers, NEW r \in Requests, CancelOne(c, r)
      PROVE  Abstract!Withdraw(r) \/ UNCHANGED Abstract!vars
  <2>1. CASE Matches(arg[c], r) /\ Removable(r)
    <3>1. r \in Abstract!Pending
      BY <2>1, <1>t
         DEF Removable, Lifecycle, Abstract!Pending, Abstract!Submitted,
             Abstract!Settled
    <3> QED
      BY <1>5, <2>1, <3>1 DEF CancelOne, Abstract!Withdraw
  <2>2. CASE ~(Matches(arg[c], r) /\ Removable(r))
    BY <1>5, <2>2, RefinesStutter DEF CancelOne
  <2> QED
    BY <2>1, <2>2
<1>6. ASSUME NEW c \in Callers, CancelEnd(c)
      PROVE  UNCHANGED Abstract!vars
  BY <1>6, RefinesStutter DEF CancelEnd
<1>7. CASE Tick
  BY <1>7 DEF Tick, Abstract!Next, Abstract!Advance
<1>8. CASE Check
  BY <1>8, RefinesStutter DEF Check
<1>9. CASE Plan
  BY <1>9, RefinesStutter DEF Plan
<1>10. CASE Wake
  BY <1>10, RefinesStutter DEF Wake
<1>11. CASE Clear
  BY <1>11, RefinesStutter DEF Clear
<1>12. CASE Pop
  BY <1>12, RefinesStutter DEF Pop
<1>13. CASE RunReturn
  BY <1>13, RefinesStutter DEF RunReturn
<1>14. CASE Wrap
  BY <1>14, RefinesStutter DEF Wrap
<1>15. CASE Act
  <2>1. cur \in Requests /\ InFlight = {cur}
    BY <1>15, <1>t DEF Act, TypeOK, InFlight
  <2>2. cur \in Abstract!Pending
    <3>1. seq[cur] > 0 /\ cur \notin canceled
      BY <1>15, <2>1, <1>t DEF Act, Lifecycle
    <3>2. \A i \in DOMAIN sent : Earlier(sent[i], cur)
      BY <2>1 DEF OrderInv, OrderOfSent
    <3>3. ~ Earlier(cur, cur)
      BY <2>1, <1>t DEF Earlier, TypeOK, Events
    <3> QED
      BY <2>1, <3>1, <3>2, <3>3
         DEF Abstract!Pending, Abstract!Submitted, Abstract!Settled
  <2>3. due[cur] <= now
    BY <2>1 DEF OrderInv, OrderOfFlight
  <2>4. \A r \in Abstract!Pending \ {cur} : Abstract!Before(cur, r)
    <3> SUFFICES ASSUME NEW r \in Abstract!Pending, r # cur
                 PROVE  Abstract!Before(cur, r)
      OBVIOUS
    <3>1. /\ r \in Requests /\ seq[r] > 0 /\ r \notin canceled
          /\ ~ \E i \in DOMAIN sent : sent[i] = r
      BY DEF Abstract!Pending, Abstract!Submitted, Abstract!Settled
    <3>2. r \in queue
      BY <3>1 DEF OrderInv, Accounted
    <3>3. Earlier(cur, r)
      BY <2>1, <3>1, <3>2 DEF OrderInv, OrderOfFlight, Queued
    <3> QED
      BY <2>1, <3>1, <3>3 DEF Earlier, Abstract!Before
  <2>5. Abstract!Deliver(cur)
    BY <1>15, <2>1, <2>2, <2>3, <2>4 DEF Act, Abstract!Deliver
  <2> QED
    BY <2>1, <2>5 DEF Abstract!Next
<1>16. CASE ActFails
  BY <1>16, RefinesStutter DEF ActFails
<1>17. CASE PurgeInactive
  BY <1>17, RefinesStutter DEF PurgeInactive
<1>18. CASE PurgeReschedule
  BY <1>18, <1>t, RefinesStutter DEF PurgeReschedule, TypeOK, Events
<1>19. CASE UNCHANGED vars
  BY <1>19, RefinesStutter DEF vars
<1> QED
  BY <1>1, <1>2, <1>3, <1>4, <1>5, <1>6, <1>7, <1>8, <1>9, <1>10, <1>11,
     <1>12, <1>13, <1>14, <1>15, <1>16, <1>17, <1>18, <1>19
     DEF Next, CallerSteps, HandlerSteps, Abstract!Next

\* The threads, the cache, the condition and the event of DelayHandler
\* implement the scheduler of DelayedRequests, on the server and on a client.
THEOREM DelayHandlerImplementsDelayedRequests ==
  Spec => ImplementsDelayedRequests
<1>1. Init => Abstract!Init
  BY RefinesInit
<1>2. OrderInv /\ [Next]_vars => [Abstract!Next]_(Abstract!vars)
  BY RefinesStep
<1> QED
  BY <1>1, <1>2, OrderInvInit, OrderInvStep, PTL
     DEF Spec, ImplementsDelayedRequests, Abstract!Spec


-----------------------------------------------------------------------------
(* The handler's sleep                                                      *)

LEMMA WakesInit == Init => WakesInTime
  BY DEF Init, WakesInTime, NoLostWakeup, NoOversleep

\* The deadline that Plan computes is that of the head of the queue, or the present.
LEMMA PlannedInTime ==
  ASSUME TypeOK, NEW e \in queue, Earliest(e), NEW f \in queue
  PROVE  (IF due[e] > now THEN due[e] ELSE now) <= due[f] \/ due[e] <= now
<1>1. due[e] \in Nat /\ due[f] \in Nat /\ now \in Nat
  BY DEF TypeOK
<1>2. due[e] <= due[f]
  BY <1>1 DEF Earliest, Precedes
<1> QED
  BY <1>1, <1>2

LEMMA WakesStep == TypeOK /\ WakesInTime /\ [Next]_vars => WakesInTime'
<1> USE RequestsAssumption, TimeAssumption DEF WakesInTime, NoLostWakeup, NoOversleep
<1> SUFFICES ASSUME TypeOK, WakesInTime, [Next]_vars
             PROVE  WakesInTime'
  OBVIOUS
<1>1. CASE Tick
  BY <1>1 DEF TypeOK, Tick
<1>2. ASSUME NEW c \in Callers, NEW r \in Requests, NEW d \in Delays,
             ScheduleEnter(c, r, d)
      PROVE  WakesInTime'
  <2>1. entering' # Nobody
    BY <1>2 DEF ScheduleEnter, Events
  <2> QED
    BY <2>1
<1>3. ASSUME NEW c \in Callers, ScheduleFinish(c)
      PROVE  WakesInTime'
  BY <1>3 DEF ScheduleFinish, Notifies
<1>4. ASSUME NEW c \in Callers, NEW a \in CancelArgs, CancelRequest(c, a)
      PROVE  WakesInTime'
  BY <1>4 DEF CancelRequest
<1>5. ASSUME NEW c \in Callers, CancelBegin(c)
      PROVE  WakesInTime'
  BY <1>5 DEF CancelBegin
<1>6. ASSUME NEW c \in Callers, NEW r \in Requests, CancelOne(c, r)
      PROVE  WakesInTime'
  <2>1. queue' \subseteq queue
    BY <1>6 DEF CancelOne
  <2> QED
    BY <1>6, <2>1 DEF CancelOne
<1>7. ASSUME NEW c \in Callers, CancelEnd(c)
      PROVE  WakesInTime'
  BY <1>7 DEF CancelEnd
<1>8. CASE Check
  BY <1>8 DEF Check
<1>9. CASE Plan
  <2>1. CASE queue = {}
    BY <1>9, <2>1 DEF Plan
  <2>2. CASE queue # {}
    <3>1. PICK e \in queue : Earliest(e) /\ wakeAt' = IF due[e] > now THEN due[e] ELSE now
      BY <1>9, <2>2 DEF Plan
    <3>2. due[e] \in Nat /\ now \in Nat /\ UNCHANGED <<now, queue, due>> /\ pc' # "waiting"
      BY <1>9 DEF TypeOK, Plan
    <3>3. \A f \in queue : wakeAt' <= due[f] \/ wakeAt' <= now
      <4> SUFFICES ASSUME NEW f \in queue PROVE wakeAt' <= due[f] \/ wakeAt' <= now
        OBVIOUS
      <4>1. (IF due[e] > now THEN due[e] ELSE now) <= due[f] \/ due[e] <= now
        BY <3>1, PlannedInTime
      <4> QED
        BY <3>1, <3>2, <4>1
    <3> QED
      BY <3>2, <3>3
  <2> QED
    BY <2>1, <2>2
<1>10. CASE Wake \/ Clear \/ Pop \/ RunReturn \/ Wrap \/ Act
  <2>1. pc' \notin {"waiting", "sleep"}
    BY <1>10 DEF Wake, Clear, Pop, RunReturn, Wrap, Act, TypeOK
  <2> QED
    BY <2>1
<1>11. CASE PurgeInactive \/ PurgeReschedule \/ ActFails
  <2>1. pc' \notin {"waiting", "sleep"}
    BY <1>11 DEF PurgeInactive, PurgeReschedule, ActFails
  <2> QED
    BY <2>1
<1>12. CASE UNCHANGED vars
  BY <1>12 DEF vars
<1> QED
  BY <1>1, <1>2, <1>3, <1>4, <1>5, <1>6, <1>7, <1>8, <1>9, <1>10, <1>11, <1>12
     DEF Next, HandlerSteps, CallerSteps

\* The handler is never asleep when it should be at work: it does not wait over a request
\* it was not told of, nor sleep beyond the deadline of the queue's head, whoever schedules
\* and cancels meanwhile (DelayHandler.run, schedule).
THEOREM HandlerWakesInTime == Spec => []WakesInTime
<1>1. TypeOK /\ TypeOK' /\ WakesInTime /\ [Next]_vars => WakesInTime'
  BY WakesStep
<1> QED
  BY <1>1, WakesInit, TypeCorrect, PTL DEF Spec
=============================================================================
