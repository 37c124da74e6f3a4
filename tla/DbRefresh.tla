------------------------------ MODULE DbRefresh ------------------------------
(***************************************************************************)
(* pdi/base3_db_refresh_manager.py: queries of the Base's data base are    *)
(* debounced per engine.  Requests mark a bucket as pending; one worker    *)
(* thread collects, under the lock, the buckets that have been quiet long  *)
(* enough or have waited too long, and sends their queries after it has    *)
(* released the lock.                                                      *)
(* Time passes in ticks.  A step of the worker takes no time: RefreshTick waits   *)
(* until the worker has nothing to do.                                     *)
(***************************************************************************)
EXTENDS Naturals, FiniteSetsExt

CONSTANTS RefreshKeys,   \* scope and address of the engines asked about
          QuietFor,         \* _debounce_s, in ticks
          MaxDelay,      \* _max_delay_s
          RefreshPoll,          \* the timeout of the outer wait
          KeepIdle,      \* _bucket_ttl_s
          RefreshStops   \* bound: how often stop is called

ASSUME RefreshConstants ==
  /\ {QuietFor, MaxDelay, RefreshPoll, KeepIdle} \subseteq Nat \ {0} /\ RefreshStops \in Nat

VARIABLES
  fBuckets,  \* the keys that have a bucket
  fPending,  \* keys whose bucket is pending
  fQuiet,    \* ticks since last_t of a pending key
  fAge,      \* ticks since first_t of a pending key
  fIdle,     \* ticks since last_activity_t of a key
  fPc,       \* _run: "none", "wait", "collect", "send", "nap"
  fSleep,    \* ticks left of the worker's current wait
  fWake,     \* the event _wake
  fStop,     \* the event _stop
  fSend,     \* to_send
  fStops,    \* calls of stop so far
  fOwed      \* keys with a request that no query sent later has answered

refreshVars == << fBuckets, fPending, fQuiet, fAge, fIdle, fPc, fSleep, fWake, fStop,
                  fSend, fStops, fOwed >>
clocks == << fQuiet, fAge, fIdle >>

RefreshTypeOK ==
  /\ fPending \subseteq fBuckets /\ fBuckets \subseteq RefreshKeys
  /\ fOwed \subseteq RefreshKeys /\ fSend \subseteq RefreshKeys
  /\ fQuiet \in [RefreshKeys -> Nat] /\ fAge \in [RefreshKeys -> Nat]
  /\ fIdle \in [RefreshKeys -> Nat]
  /\ fPc \in {"none", "wait", "collect", "send", "nap"}
  /\ fSleep \in Nat /\ fWake \in BOOLEAN /\ fStop \in BOOLEAN /\ fStops \in 0 .. RefreshStops

RefreshInit ==
  /\ fBuckets = {} /\ fPending = {} /\ fSend = {} /\ fOwed = {}
  /\ fQuiet = [k \in RefreshKeys |-> 0] /\ fAge = fQuiet /\ fIdle = fQuiet
  /\ fPc = "none" /\ fSleep = 0 /\ fWake = FALSE /\ fStop = FALSE /\ fStops = 0

\* _ensure_started: a thread that is alive is kept, also one that is about to stop
Started == IF fPc = "none" THEN fPc' = "wait" /\ fSleep' = RefreshPoll /\ fStop' = FALSE
                           ELSE UNCHANGED << fPc, fSleep, fStop >>

\* as if the bucket were taken to be in the table
MutRequestRefresh(k) ==
  /\ Started
  /\ fPending' = fPending \cup {k}
  /\ fQuiet' = [fQuiet EXCEPT ![k] = 0] /\ fIdle' = [fIdle EXCEPT ![k] = 0]
  /\ fAge' = IF k \in fPending THEN fAge ELSE [fAge EXCEPT ![k] = 0]
  /\ fWake' = TRUE /\ fOwed' = fOwed \cup {k}
  /\ UNCHANGED << fBuckets, fSend, fStops >>
\* request_refresh: _ensure_started, then _enqueue
RequestRefresh(k) ==
  /\ Started
  /\ fBuckets' = fBuckets \cup {k} /\ fPending' = fPending \cup {k}
  /\ fQuiet' = [fQuiet EXCEPT ![k] = 0] /\ fIdle' = [fIdle EXCEPT ![k] = 0]
  /\ fAge' = IF k \in fPending THEN fAge ELSE [fAge EXCEPT ![k] = 0]
  /\ fWake' = TRUE /\ fOwed' = fOwed \cup {k}
  /\ UNCHANGED << fSend, fStops >>

\* flush: the bucket counts as quiet for longer than the debounce
Flush(k) ==
  /\ Started
  /\ fBuckets' = fBuckets \cup {k} /\ fPending' = fPending \cup {k}
  /\ fQuiet' = [fQuiet EXCEPT ![k] = QuietFor] /\ fAge' = [fAge EXCEPT ![k] = 0]
  /\ fIdle' = [fIdle EXCEPT ![k] = 0]
  /\ fWake' = TRUE /\ fOwed' = fOwed \cup {k}
  /\ UNCHANGED << fSend, fStops >>

\* stop: sets both events (and joins the thread for two seconds)
StopRefresh ==
  /\ fStops < RefreshStops /\ fStops' = fStops + 1
  /\ fStop' = TRUE /\ fWake' = TRUE
  /\ UNCHANGED << fBuckets, fPending, clocks, fPc, fSleep, fSend, fOwed >>

-----------------------------------------------------------------------------
\* The worker, _run

\* the outer wait returns on the event or after RefreshPoll; then the event is cleared
EndWait ==
  /\ fPc = "wait" /\ (fWake \/ fSleep = 0)
  /\ fWake' = FALSE
  /\ fPc' = IF fStop THEN "none" ELSE "collect"
  /\ UNCHANGED << fBuckets, fPending, clocks, fSleep, fStop, fSend, fStops, fOwed >>

\* as if only quiet buckets were sent
MutShouldSend(k) == fQuiet[k] >= QuietFor
ShouldSend(k) == fQuiet[k] >= QuietFor \/ fAge[k] >= MaxDelay

\* how long until a pending bucket is due
DueIn(k) == Max({0, Min({QuietFor - fQuiet[k], MaxDelay - fAge[k]})})

KeyIdle(k) == k \notin fPending /\ fIdle[k] >= KeepIdle

\* back to the loop's test
Again == IF fStop THEN fPc' = "none" /\ UNCHANGED fSleep
                  ELSE fPc' = "wait" /\ fSleep' = RefreshPoll

\* under _lock: the cleanup, when its time has come, and the choice of what is due.
\* The flag is reset here, before the query is sent
Collect ==
  \E kept \in {fBuckets, {k \in fBuckets : ~KeyIdle(k)}} :
    LET due == {k \in fPending \cap kept : ShouldSend(k)}
        later == {DueIn(k) : k \in (fPending \cap kept) \ due}
    IN /\ fPc = "collect"
       /\ fBuckets' = kept /\ fSend' = due /\ fPending' = (fPending \cap kept) \ due
       /\ IF due # {} THEN fPc' = "send" /\ UNCHANGED fSleep
          ELSE IF later # {} THEN fPc' = "nap" /\ fSleep' \in later /\ \A d \in later : fSleep' <= d
          ELSE Again
       /\ UNCHANGED << clocks, fWake, fStop, fStops, fOwed >>

\* a query of the Base, sent outside the lock; a request made meanwhile stands
SendQuery ==
  /\ fPc = "send"
  /\ IF fSend = {} THEN Again /\ UNCHANGED << fSend, fOwed >>
     ELSE \E k \in fSend : /\ fSend' = fSend \ {k} /\ fOwed' = fOwed \ {k}
                           /\ UNCHANGED << fPc, fSleep >>
  /\ UNCHANGED << fBuckets, fPending, clocks, fWake, fStop, fStops >>

\* the short wait until the first bucket is due
EndNap ==
  /\ fPc = "nap" /\ (fWake \/ fSleep = 0)
  /\ fWake' = FALSE /\ Again
  /\ UNCHANGED << fBuckets, fPending, clocks, fStop, fSend, fStops, fOwed >>

-----------------------------------------------------------------------------
Waiting == fPc = "none" \/ (fPc \in {"wait", "nap"} /\ ~fWake /\ fSleep > 0)

\* clocks stop at the largest value that something is compared with (a bound)
Later(clock, most) == [k \in RefreshKeys |-> Min({clock[k] + 1, most})]

RefreshTick ==
  /\ Waiting
  /\ fQuiet' = Later(fQuiet, QuietFor)
  /\ fAge' = Later(fAge, MaxDelay + RefreshPoll + QuietFor)
  /\ fIdle' = Later(fIdle, KeepIdle)
  /\ fSleep' = IF fPc = "none" THEN fSleep ELSE fSleep - 1
  /\ UNCHANGED << fBuckets, fPending, fPc, fWake, fStop, fSend, fStops, fOwed >>

WorkerStep == EndWait \/ Collect \/ SendQuery \/ EndNap

RefreshNext == \/ \E k \in RefreshKeys : RequestRefresh(k) \/ Flush(k)
               \/ StopRefresh \/ WorkerStep \/ RefreshTick

RefreshSpec == RefreshInit /\ [][RefreshNext]_refreshVars

-----------------------------------------------------------------------------
\* properties

\* A request is never forgotten: until a query for its engine has gone out after it,
\* its bucket is there and pending, or chosen and about to be sent.
OwedIsPending == fOwed \subseteq fPending \cup fSend

\* However often the requests are repeated, no engine waits much longer than the
\* maximal delay for its query: the outer wait may add its period.  A request that
\* meets a worker about to stop waits for the next one, however long that takes.
NobodyWaitsTooLong ==
  \A k \in fPending : fStops = 0 => fAge[k] <= MaxDelay + RefreshPoll

\* A request for a refresh is neither forgotten nor put off for ever.
RefreshSafety == OwedIsPending /\ NobodyWaitsTooLong
=============================================================================
