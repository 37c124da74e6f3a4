-------------------------- MODULE ControlsProofs ---------------------------
(*****************************************************************************)
(* Theorems about the controls an operator touches: HoldButton, for any      *)
(* times and bounds and any sets of callbacks; HandThrottle, for any keys,   *)
(* buttons and roster; DeckInput, for any profile of buttons and chords.     *)
(*****************************************************************************)
EXTENDS HoldButton, HandThrottle, DeckInput, FiniteSetTheorems, WellFoundedInduction, TLAPS

-----------------------------------------------------------------------------
(* Timers and touches                                                        *)

\* What the argument needs to know of a button's record.
IsButton(b) == {"after", "fired"} \subseteq DOMAIN b

\* c is a button whose timer is b's, or is off, and that has called nobody since b.
Tidied(b, c) == IsButton(c) /\ c.after \in {b.after, Off} /\ c.fired = b.fired
\* The same, with the timer off.
Stopped(b, c) == Tidied(b, c) /\ c.after = Off
\* c is a button whose timer may have been started, and that has called nobody since b.
Started(b, c) == IsButton(c) /\ c.fired = b.fired

-----------------------------------------------------------------------------
(* What the handlers leave: the timer of the hold, and the callback         *)

LEMMA Tidying ==
  ASSUME NEW b, IsButton(b)
  PROVE  /\ Stopped(b, GiveUp(b))
         /\ Tidied(b, NoLeave(b)) /\ NoLeave(b).after = b.after
         /\ Tidied(b, NoteAbandoned(b))
         /\ Started(b, Inherit(b))
<1> USE DEF IsButton, Tidied, Stopped, Started
<1>1. Stopped(b, GiveUp(b))
  BY DEF GiveUp
<1>2. Tidied(b, NoLeave(b)) /\ NoLeave(b).after = b.after
  BY DEF NoLeave
<1>3. Tidied(b, NoteAbandoned(b))
  BY DEF NoteAbandoned
<1>4. Started(b, Inherit(b))
  BY DEF Inherit
<1> QED
  BY <1>1, <1>2, <1>3, <1>4

\* A press, and what resumes one, calls nobody.
LEMMA Pressing ==
  ASSUME NEW b, IsButton(b)
  PROVE  /\ Started(b, Press(b)) /\ Started(b, Contact(b)) /\ Started(b, Enter(b))
<1>1. ASSUME NEW c, IsButton(c)
      PROVE  Started(c, Resume(c))
  <2> DEFINE n == NoLeave(c)
  <2>1. IsButton(n) /\ n.fired = c.fired
    BY <1>1, Tidying DEF Tidied
  <2>2. Resume(c) = [n EXCEPT !.releaseIn = Off, !.releasePending = FALSE, !.pressed = TRUE,
                              !.run = 0, !.after = HoldThreshold - c.bank]
    BY DEF Resume
  <2> HIDE DEF n
  <2> QED
    BY <2>1, <2>2 DEF IsButton, Started
<1>2. Started(b, Press(b))
  <2> DEFINE m == NoLeave(b)
             n == [m EXCEPT !.pressed = TRUE, !.bank = 0, !.run = 0, !.held = FALSE,
                            !.repeating = FALSE, !.handled = FALSE,
                            !.overlay = TRUE, !.after = HoldThreshold]
  <2>1. IsButton(m) /\ m.fired = b.fired
    BY Tidying DEF Tidied
  <2> HIDE DEF m
  <2>2. IsButton(n) /\ n.fired = b.fired
    BY <2>1 DEF IsButton
  <2> HIDE DEF n
  <2>3. Started(b, Inherit(n))
    BY <2>2, Tidying DEF Started
  <2>4. Started(b, GiveUp(b)) /\ Started(b, Resume(b))
    BY <1>1, Tidying DEF Started, Stopped, Tidied
  <2>5. Press(b) = GiveUp(b) \/ Press(b) = Resume(b) \/ Press(b) = Inherit(n)
    BY DEF Press, n, m
  <2> QED
    BY <2>3, <2>4, <2>5
<1>3. ASSUME NEW c, IsButton(c)
      PROVE  Started(c, Contact(c))
  BY <1>1, <1>3 DEF Contact, Started
<1>4. Started(b, Enter(b))
  <2>1. IsButton(NoLeave(b)) /\ NoLeave(b).fired = b.fired
    BY Tidying DEF Tidied
  <2> QED
    BY <1>3, <2>1 DEF Enter, Started
<1> QED
  BY <1>2, <1>3, <1>4

\* A release stops the timer, at once or put off, and calls "press" at most.
Released(b, c) == IsButton(c) /\ c.after = Off /\ c.fired \in {b.fired, "press", "none"}

LEMMA Releasing ==
  ASSUME NEW b, IsButton(b)
  PROVE  /\ Released(b, Release(b))
         /\ IsButton(ConfirmRelease(b)) /\ ConfirmRelease(b).after \in {Off, b.after}
         /\ ConfirmRelease(b).fired \in {b.fired, "press", "none"}
<1>1. ASSUME NEW c, IsButton(c)
      PROVE  Released(c, DoRelease(c))
  <2> DEFINE g == GiveUp(NoteAbandoned(c))
             up == [g EXCEPT !.repeating = c.repeating /\ c.enabled]
             free == [up EXCEPT !.bank = 0]
             ended == [up EXCEPT !.bank = 0, !.repeating = FALSE]
  <2>1. IsButton(g) /\ g.after = Off /\ g.fired = c.fired
    <3>1. IsButton(NoteAbandoned(c)) /\ NoteAbandoned(c).fired = c.fired
      BY <1>1, Tidying DEF Tidied
    <3> QED
      BY <3>1, Tidying DEF Stopped, Tidied
  <2> HIDE DEF g
  <2>2. IsButton(up) /\ up.after = Off /\ up.fired = c.fired
    BY <2>1 DEF IsButton
  <2> HIDE DEF up
  <2>3. IsButton(free) /\ free.after = Off /\ free.fired = c.fired
    BY <2>2 DEF IsButton
  <2>4. IsButton(ended) /\ ended.after = Off /\ ended.fired = c.fired
    BY <2>2 DEF IsButton
  <2> HIDE DEF free, ended
  <2>5. Released(c, Fire(free, "press"))
    BY <2>3 DEF Fire, IsButton, Released
  <2>6. \/ DoRelease(c) = up \/ DoRelease(c) = free \/ DoRelease(c) = ended
        \/ DoRelease(c) = Fire(free, "press")
    BY DEF DoRelease, up, free, ended, g
  <2> QED
    BY <2>2, <2>3, <2>4, <2>5, <2>6 DEF Released
<1>2. Released(b, Defer(b))
  BY DEF Defer, IsButton, Released
<1>3. Released(b, Release(b))
  BY <1>1, <1>2 DEF Release
<1>4. /\ IsButton(ConfirmRelease(b)) /\ ConfirmRelease(b).after \in {Off, b.after}
      /\ ConfirmRelease(b).fired \in {b.fired, "press", "none"}
  <2> DEFINE due == [b EXCEPT !.releaseIn = Off]
             over == [due EXCEPT !.releasePending = FALSE]
  <2>1. IsButton(due) /\ due.after = b.after /\ due.fired = b.fired
    BY DEF IsButton
  <2> HIDE DEF due
  <2>2. IsButton(over) /\ over.fired = b.fired
    BY <2>1 DEF IsButton
  <2> HIDE DEF over
  <2>3. Released(b, DoRelease(over))
    BY <1>1, <2>2 DEF Released
  <2>4. ConfirmRelease(b) = due \/ ConfirmRelease(b) = DoRelease(over)
    BY DEF ConfirmRelease, due, over
  <2> QED
    BY <2>1, <2>3, <2>4 DEF Released
<1> QED
  BY <1>3, <1>4

\* A cancellation stops the timer, and calls nobody.
LEMMA Cancelling ==
  ASSUME NEW b, IsButton(b)
  PROVE  Stopped(b, Cancel(b)) /\ Stopped(b, CancelInteraction(b))
<1>1. Stopped(b, Cancel(b))
  <2> DEFINE a == NoteAbandoned(b)
             g == GiveUp(a)
             n == NoLeave(g)
  <2>1. IsButton(a) /\ a.fired = b.fired
    BY Tidying DEF Tidied
  <2> HIDE DEF a
  <2>2. IsButton(g) /\ g.after = Off /\ g.fired = b.fired
    BY <2>1, Tidying DEF Stopped, Tidied
  <2> HIDE DEF g
  <2>3. IsButton(n) /\ n.after = Off /\ n.fired = b.fired
    BY <2>2, Tidying DEF Tidied
  <2>4. Cancel(b) = [n EXCEPT !.releasePending = FALSE, !.releaseIn = Off, !.bank = 0]
    BY DEF Cancel, n, g, a
  <2> HIDE DEF n
  <2> QED
    BY <2>3, <2>4 DEF Stopped, Tidied, IsButton
<1>2. Stopped(b, CancelInteraction(b))
  <2> DEFINE g == GiveUp(b)
  <2>1. IsButton(g) /\ g.after = Off /\ g.fired = b.fired
    BY Tidying DEF Stopped, Tidied
  <2>2. CancelInteraction(b) = [g EXCEPT !.held = TRUE, !.handled = TRUE, !.run = Off]
    BY DEF CancelInteraction
  <2> HIDE DEF g
  <2> QED
    BY <2>1, <2>2 DEF Stopped, Tidied, IsButton
<1> QED
  BY <1>1, <1>2

\* A leave, reported or confirmed, does not start the timer and calls nobody.
LEMMA Leaving ==
  ASSUME NEW b, IsButton(b), NEW outside \in BOOLEAN
  PROVE  Tidied(b, LeaveEvent(b)) /\ Tidied(b, ConfirmLeave(b, outside))
<1>1. Tidied(b, LeaveEvent(b))
  BY DEF LeaveEvent, Tidied, IsButton
<1>2. Tidied(b, [b EXCEPT !.leaveIn = Off])
  BY DEF Tidied, IsButton
<1>3. Tidied(b, Cancel(b)) /\ Tidied(b, NoLeave(b))
  BY Cancelling, Tidying DEF Stopped
<1> QED
  BY <1>1, <1>2, <1>3 DEF ConfirmLeave

LEMMA Firing ==
  ASSUME NEW b, IsButton(b)
  PROVE  IsButton(HoldTimeout(b))
<1> USE DEF IsButton
<1>1. IsButton(GiveUp(b))
  BY DEF GiveUp
<1>2. IsButton(RepeatFire(b))
  BY <1>1 DEF RepeatFire, Fire
<1>3. IsButton(Trigger(b))
  BY <1>1 DEF Trigger, Fire
<1> QED
  BY <1>2, <1>3 DEF HoldTimeout

-----------------------------------------------------------------------------
(* The timer of the hold only runs under a finger or a chord                *)

\* The touch that the timer belongs to is still there: it is what every handler has to
\* see to, for a timer that outlives its touch fires on its own.
TimerHasATouch == button.after # Off => chord \/ (finger # "up" /\ contact)

TouchInvariant ==
    IsButton(button) /\ contact \in BOOLEAN /\ chord \in BOOLEAN /\ TimerHasATouch

CallsUnderTheFinger == button'.fired \in {"hold", "repeat"} => finger # "up" \/ chord

LEMMA TouchInit == HoldInit => TouchInvariant
BY DEF HoldInit, TouchInvariant, IsButton, TimerHasATouch, Off

LEMMA TouchStep ==
  ASSUME TouchInvariant, HoldNext
  PROVE  TouchInvariant' /\ CallsUnderTheFinger
<1> DEFINE q == Quietly
<1>1. IsButton(button) /\ contact \in BOOLEAN /\ chord \in BOOLEAN /\ TimerHasATouch
  BY DEF TouchInvariant
<1>2. IsButton(q) /\ q.after = button.after /\ q.fired = "none"
  BY <1>1 DEF IsButton, Quietly
<1>3. ASSUME IsButton(button'), contact' \in BOOLEAN, chord' \in BOOLEAN,
             button'.fired \in {"press", "none"},
             button'.after = Off \/ chord' \/ (finger' # "up" /\ contact')
      PROVE  TouchInvariant' /\ CallsUnderTheFinger
  BY <1>3 DEF TouchInvariant, TimerHasATouch, CallsUnderTheFinger, IsButton
<1>4. ASSUME HandlePress PROVE IsButton(button') /\ button'.fired = "none"
  <2>1. button' = Press(q)
    BY <1>4 DEF HandlePress, Quietly
  <2> QED
    BY <2>1, <1>2, Pressing DEF Started
<1> HIDE DEF q
<1>5. CASE FingerDown
  BY <1>1, <1>3, <1>4, <1>5 DEF FingerDown
<1>6. CASE FingerUp
  <2>1. CASE contact
    <3>1. button' = Release(q)
      BY <1>6, <2>1 DEF FingerUp, Handle, q
    <3> QED
      BY <3>1, <1>1, <1>2, <1>3, <1>6, Releasing DEF FingerUp, Released
  <2>2. CASE ~contact
    <3>1. button' = q
      BY <1>6, <2>2 DEF FingerUp, Handle, q
    <3> QED
      BY <3>1, <1>1, <1>2, <1>3, <1>6, <2>2 DEF FingerUp, TimerHasATouch
  <2> QED
    BY <2>1, <2>2
<1>7. CASE SlideOut
  <2>1. button' = LeaveEvent(q)
    BY <1>7 DEF SlideOut, Handle, q
  <2> QED
    BY <2>1, <1>1, <1>2, <1>3, <1>7, Leaving DEF SlideOut, Tidied, TimerHasATouch
<1>8. CASE SlideBack
  <2>1. CASE contact
    <3>1. button' = Enter(q)
      BY <1>8, <2>1 DEF SlideBack, Handle, q
    <3> QED
      BY <3>1, <1>1, <1>2, <1>3, <1>8, <2>1, Pressing DEF SlideBack, Started
  <2>2. CASE ~contact
    <3>1. button' = NoLeave(q)
      BY <1>8, <2>2 DEF SlideBack, Handle, q
    <3> QED
      BY <3>1, <1>1, <1>2, <1>3, <1>8, Tidying DEF SlideBack, Tidied, TimerHasATouch
  <2> QED
    BY <2>1, <2>2
<1>9. CASE ContactLost
  <2>1. button' = Release(q)
    BY <1>9 DEF ContactLost, Handle, q
  <2> QED
    BY <2>1, <1>1, <1>2, <1>3, <1>9, Releasing DEF ContactLost, Released
<1>10. CASE ContactFound
  <2>1. HandlePress \/ button' = Contact(q)
    BY <1>10 DEF ContactFound, Handle, q
  <2>2. IsButton(button') /\ button'.fired = "none"
    BY <2>1, <1>2, <1>4, Pressing DEF Started
  <2> QED
    BY <2>2, <1>1, <1>3, <1>10 DEF ContactFound
<1>11. CASE FalseLeave
  <2>1. button' = LeaveEvent(q)
    BY <1>11 DEF FalseLeave, Handle, q
  <2> QED
    BY <2>1, <1>1, <1>2, <1>3, <1>11, Leaving DEF FalseLeave, Tidied, TimerHasATouch
<1>12. CASE ChordDown
  BY <1>1, <1>3, <1>4, <1>12 DEF ChordDown
<1>13. CASE ChordUp
  <2>1. button' = Cancel(q)
    BY <1>13 DEF ChordUp, Handle, q
  <2> QED
    BY <2>1, <1>1, <1>2, <1>3, <1>13, Cancelling DEF ChordUp, Stopped, Tidied
<1>14. CASE HostActs
  <2>1. CASE Handle([q EXCEPT !.enabled = ~@])
    <3>1. IsButton(button') /\ button'.after = button.after /\ button'.fired = "none"
      BY <2>1, <1>2 DEF Handle, IsButton
    <3> QED
      BY <3>1, <1>1, <1>3, <1>14 DEF HostActs, TimerHasATouch
  <2>2. CASE Handle(CancelInteraction(q))
    <3>1. button' = CancelInteraction(q)
      BY <2>2 DEF Handle
    <3> QED
      BY <3>1, <1>1, <1>2, <1>3, <1>14, Cancelling DEF HostActs, Stopped, Tidied
  <2> QED
    BY <2>1, <2>2, <1>14 DEF HostActs, q
<1>15. CASE Expire
  <2> UNCHANGED <<finger, contact, chord>>
    BY <1>15 DEF Expire, Untouched
  <2>1. CASE button.after = 0 /\ Handle(HoldTimeout(q))
    <3>1. IsButton(button')
      BY <2>1, <1>2, Firing DEF Handle
    <3>2. chord \/ (finger # "up" /\ contact)
      BY <2>1, <1>1 DEF TimerHasATouch, Off
    <3> QED
      BY <3>1, <3>2, <1>1 DEF TouchInvariant, TimerHasATouch, CallsUnderTheFinger, IsButton
  <2>2. CASE Handle(ConfirmRelease(q))
    <3>1. button' = ConfirmRelease(q)
      BY <2>2 DEF Handle
    <3> QED
      BY <3>1, <1>1, <1>2, <1>3, Releasing DEF TimerHasATouch
  <2>3. CASE Handle(ConfirmLeave(q, finger # "on"))
    <3>1. button' = ConfirmLeave(q, finger # "on")
      BY <2>3 DEF Handle
    <3> QED
      BY <3>1, <1>1, <1>2, <1>3, Leaving DEF Tidied, TimerHasATouch
  <2> QED
    BY <2>1, <2>2, <2>3, <1>15 DEF Expire, q
<1>16. CASE ProgressTick
  <2>1. button' = GiveUp(q)
    BY <1>16 DEF ProgressTick, Handle, q
  <2> QED
    BY <2>1, <1>1, <1>2, <1>3, <1>16, Tidying DEF ProgressTick, Untouched, Stopped, Tidied
<1>17. CASE HoldTick
  <2>1. button' = [q EXCEPT !.after = Sooner(@), !.releaseIn = Sooner(@),
                            !.leaveIn = Sooner(@), !.run = Older(@), !.lostAge = Older(@)]
    BY <1>17 DEF HoldTick, q
  <2>2. IsButton(button') /\ button'.after = Sooner(button.after) /\ button'.fired = "none"
    BY <2>1, <1>2 DEF IsButton
  <2>3. button'.after # Off => button.after # Off
    BY <2>2 DEF Sooner
  <2> QED
    BY <2>2, <2>3, <1>1, <1>3, <1>17 DEF HoldTick, TimerHasATouch
<1> QED
  BY <1>5, <1>6, <1>7, <1>8, <1>9, <1>10, <1>11, <1>12, <1>13, <1>14, <1>15, <1>16, <1>17
     DEF HoldNext

\* In every behaviour a hold or a repetition only fires while the finger touches the
\* screen or the chord is held, for any times, any jitter of the touch stream and any
\* acts of the host.
THEOREM HoldsNeedAFinger == HoldSpec => FiresUnderTheFinger
<1>1. ASSUME TouchInvariant, [HoldNext]_holdVars
      PROVE  TouchInvariant' /\ [CallsUnderTheFinger]_holdVars
  <2>1. CASE HoldNext
    BY <1>1, <2>1, TouchStep
  <2>2. CASE UNCHANGED holdVars
    BY <1>1, <2>2 DEF TouchInvariant, IsButton, TimerHasATouch, holdVars
  <2> QED
    BY <1>1, <2>1, <2>2
<1>2. [CallsUnderTheFinger]_holdVars
      => [button'.fired \in {"hold", "repeat"} => finger # "up" \/ chord]_holdVars
  BY DEF CallsUnderTheFinger
<1> QED
  BY TouchInit, <1>1, <1>2, PTL DEF HoldSpec, FiresUnderTheFinger

-----------------------------------------------------------------------------
(* Types, times and counts                                                   *)

LEMMA Times ==
  /\ HoldThreshold \in Nat /\ HoldThreshold # 0 /\ LeaveConfirm \in Nat /\ RepeatEvery \in Nat
  /\ RepeatEvery # 0 /\ RecoveryWindow \in Nat /\ RestartResume \in Nat /\ Debounce \in Nat
  /\ HoldTouches \in Nat /\ HoldTricks \in Nat
BY HoldAssumption

\* The values that the handlers put into the timers and the times.
LEMMA Ranges ==
  /\ \A t \in {Off, HoldThreshold, RepeatEvery} : t \in Off .. HoldThreshold + RepeatEvery
  /\ \A i \in 0 .. HoldThreshold : HoldThreshold - i \in Off .. HoldThreshold + RepeatEvery
  /\ Off \in Off .. Late /\ 0 \in Off .. Late /\ 0 \in 0 .. Late
  /\ Off \in Off .. RecoveryWindow /\ RecoveryWindow \in Off .. RecoveryWindow
  /\ Off \in Off .. LeaveConfirm /\ LeaveConfirm \in Off .. LeaveConfirm
  /\ Off # 0 /\ HoldThreshold # Off /\ HoldThreshold # 0
BY Times DEF Off, Late

LEMMA ElapsedIsTime ==
  ASSUME NEW b \in Buttons
  PROVE  /\ Elapsed(b) \in 0 .. Late
         /\ b.run # Off /\ b.bank + b.run <= HoldThreshold => Elapsed(b) = b.bank + b.run
         /\ b.run = Off => Elapsed(b) = b.bank
<1>1. b.run \in Off .. Late /\ b.bank \in 0 .. Late
  BY DEF Buttons
<1> QED
  BY <1>1, Times DEF Elapsed, Off, Late

\* What two records of a button have in common: all but the contact's times and the
\* callback; that and neither a press nor its timers; and less when a press is resumed.
Settings(b, c) == c.callbacks = b.callbacks /\ c.enabled = b.enabled
Holding(b, c) == Settings(b, c) /\ c.held = b.held /\ c.handled = b.handled
Alike(b, c) ==
  /\ Holding(b, c) /\ c.pressed = b.pressed /\ c.repeating = b.repeating /\ c.after = b.after
  /\ c.run = b.run /\ c.bank = b.bank /\ c.overlay = b.overlay
  /\ c.releasePending = b.releasePending
\* c is b given up.
Ended(b, c) ==
  /\ Holding(b, c) /\ c.run = b.run /\ ~c.pressed /\ c.after = Off /\ ~c.overlay
  /\ c.repeating => b.repeating
\* c is b resumed, with the time it has made.
Resumed(b, c) ==
  /\ Holding(b, c) /\ c.pressed /\ c.repeating = b.repeating /\ c.bank = b.bank
  /\ c.overlay = b.overlay /\ c.run = 0 /\ c.after = HoldThreshold - b.bank
  /\ ~c.releasePending
\* c is b pressed anew.
Pressed(b, c) ==
  /\ Settings(b, c) /\ ~c.held /\ ~c.handled /\ c.pressed /\ ~c.repeating
  /\ c.run = 0 /\ c.after = HoldThreshold /\ c.releasePending = b.releasePending
  /\ b.lostAge = Off => c.bank = 0

LEMMA SmallSteps ==
  ASSUME NEW b \in Buttons
  PROVE  /\ NoLeave(b) \in Buttons /\ Alike(b, NoLeave(b)) /\ NoLeave(b).lostAge = b.lostAge
         /\ NoLeave(b).fired = b.fired /\ NoLeave(b).releaseIn = b.releaseIn
         /\ NoteAbandoned(b) \in Buttons /\ Alike(b, NoteAbandoned(b))
         /\ NoteAbandoned(b).fired = b.fired
         /\ GiveUp(b) \in Buttons /\ Ended(b, GiveUp(b)) /\ ~GiveUp(b).repeating
         /\ GiveUp(b).bank = b.bank /\ GiveUp(b).releasePending = b.releasePending
         /\ GiveUp(b).fired = b.fired
         /\ \A t \in {"press", "hold", "repeat"} :
              Fire(b, t) \in Buttons /\ Fire(b, t).fired \in {t, "none"} /\ Alike(b, Fire(b, t))
<1> USE DEF Buttons, Alike, Holding, Settings
<1>1. NoLeave(b) \in Buttons /\ Alike(b, NoLeave(b)) /\ NoLeave(b).lostAge = b.lostAge
      /\ NoLeave(b).fired = b.fired /\ NoLeave(b).releaseIn = b.releaseIn
  BY Ranges DEF NoLeave
<1>2. NoteAbandoned(b) \in Buttons /\ Alike(b, NoteAbandoned(b)) /\ NoteAbandoned(b).fired = b.fired
  <2> DEFINE u == [b EXCEPT !.lost = Elapsed(b), !.lostAge = 0]
  <2>1. Elapsed(b) \in 0 .. Late
    BY ElapsedIsTime
  <2>2. 0 \in Off .. Late
    BY Ranges
  <2>3. u \in Buttons /\ Alike(b, u) /\ u.fired = b.fired
    BY <2>1, <2>2
  <2>4. Alike(b, b)
    OBVIOUS
  <2>5. NoteAbandoned(b) \in {u, b}
    BY DEF NoteAbandoned
  <2> HIDE DEF u
  <2> QED
    BY <2>3, <2>4, <2>5
<1>3. /\ GiveUp(b) \in Buttons /\ Ended(b, GiveUp(b)) /\ ~GiveUp(b).repeating
      /\ GiveUp(b).bank = b.bank /\ GiveUp(b).releasePending = b.releasePending
      /\ GiveUp(b).fired = b.fired
  BY Ranges DEF GiveUp, Ended
<1>4. ASSUME NEW t \in {"press", "hold", "repeat"}
      PROVE  Fire(b, t) \in Buttons /\ Fire(b, t).fired \in {t, "none"} /\ Alike(b, Fire(b, t))
  BY DEF Fire
<1> QED
  BY <1>1, <1>2, <1>3, <1>4

LEMMA ResumeDoes ==
  ASSUME NEW b \in Buttons, b.bank <= HoldThreshold
  PROVE  Resume(b) \in Buttons /\ Resumed(b, Resume(b)) /\ Resume(b).fired = b.fired
<1> DEFINE n == NoLeave(b)
           left == HoldThreshold - b.bank
<1>1. n \in Buttons /\ Alike(b, n) /\ n.fired = b.fired
  BY SmallSteps
<1>2. left \in Off .. HoldThreshold + RepeatEvery
  BY Times, Ranges DEF Buttons
<1>3. Resume(b) = [n EXCEPT !.releaseIn = Off, !.releasePending = FALSE, !.pressed = TRUE,
                            !.run = 0, !.after = left]
  BY DEF Resume
<1> HIDE DEF n, left
<1>4. Resume(b) \in Buttons
  BY ZenonT(60), <1>1, <1>2, <1>3, Ranges DEF Buttons
<1>5. left = HoldThreshold - n.bank => Resumed(n, Resume(b)) /\ Resume(b).fired = n.fired
  BY <1>1, <1>3 DEF Buttons, Resumed, Holding, Settings
<1>6. left = HoldThreshold - n.bank
  BY <1>1 DEF Alike, left
<1> QED
  BY <1>1, <1>4, <1>5, <1>6 DEF Resumed, Alike, Holding, Settings

LEMMA PressDoes ==
  ASSUME NEW b \in Buttons, b.releasePending => b.bank < HoldThreshold
  PROVE  /\ Press(b) \in Buttons /\ Press(b).fired = b.fired
         /\ ~b.enabled => Press(b) = GiveUp(b)
         /\ b.enabled /\ b.releasePending => Resumed(b, Press(b))
         /\ b.enabled /\ ~b.releasePending => Pressed(b, Press(b))
<1>1. CASE ~b.enabled
  BY <1>1, SmallSteps DEF Press
<1>2. CASE b.enabled /\ b.releasePending
  <2>1. b.bank <= HoldThreshold
    BY <1>2, Times DEF Buttons
  <2> QED
    BY <1>2, <2>1, ResumeDoes DEF Press
<1>3. CASE b.enabled /\ ~b.releasePending
  <2> DEFINE m == NoLeave(b)
             n == [m EXCEPT !.pressed = TRUE, !.bank = 0, !.run = 0, !.held = FALSE,
                            !.repeating = FALSE, !.handled = FALSE,
                            !.overlay = TRUE, !.after = HoldThreshold]
             i == [n EXCEPT !.lostAge = Off, !.lost = 0,
                            !.bank = IF n.lostAge <= RestartResume THEN n.lost ELSE @]
  <2>1. m \in Buttons /\ Alike(b, m) /\ m.fired = b.fired /\ m.lostAge = b.lostAge
    BY SmallSteps
  <2> HIDE DEF m
  <2>2. n \in Buttons
    BY <2>1, Ranges DEF Buttons
  <2>3. Pressed(m, n) /\ n.fired = m.fired /\ n.lostAge = m.lostAge /\ n.bank = 0
    BY <2>1 DEF Pressed, Buttons, Settings
  <2> HIDE DEF n
  <2>4. i \in Buttons /\ i.fired = n.fired
    BY <2>2, Ranges DEF Buttons
  <2>5. n.lostAge # Off => Pressed(m, i)
    BY <2>2, <2>3 DEF Buttons, Pressed, Settings
  <2>6. Press(b) = IF n.lostAge = Off THEN n ELSE i
    BY <1>3 DEF Press, Inherit, n, m
  <2> HIDE DEF i
  <2>7. Pressed(m, Press(b)) /\ Press(b) \in Buttons /\ Press(b).fired = b.fired
    BY <2>1, <2>2, <2>3, <2>4, <2>5, <2>6
  <2> QED
    BY <1>3, <2>1, <2>7 DEF Pressed, Alike, Holding, Settings
<1> QED
  BY <1>1, <1>2, <1>3

\* A release that is put off banks the time; one that is carried out calls "press" at most,
\* and nobody when the hold was handled.
Deferred(b, c) ==
  /\ Holding(b, c) /\ c.pressed = b.pressed /\ c.repeating = b.repeating /\ c.overlay = b.overlay
  /\ c.bank = Elapsed(b) /\ c.run = Off /\ c.after = Off /\ c.releasePending
  /\ c.releaseIn = RecoveryWindow
Lifted(b, c) ==
  /\ Ended(b, c) /\ c.releasePending = b.releasePending /\ c.bank \in {0, b.bank}
  /\ c.fired \in {b.fired, "press", "none"}
  /\ b.held /\ b.handled => c.fired = b.fired

LEMMA DoReleaseDoes ==
  ASSUME NEW b \in Buttons
  PROVE  DoRelease(b) \in Buttons /\ Lifted(b, DoRelease(b))
<1> DEFINE a == NoteAbandoned(b)
           g == GiveUp(a)
           up == [g EXCEPT !.repeating = b.repeating /\ b.enabled]
           free == [up EXCEPT !.bank = 0]
           ended == [up EXCEPT !.bank = 0, !.repeating = FALSE]
<1>1. a \in Buttons /\ Alike(b, a) /\ a.fired = b.fired
  BY SmallSteps
<1> HIDE DEF a
<1>2. g \in Buttons /\ Ended(a, g) /\ g.bank = a.bank /\ g.releasePending = a.releasePending
      /\ g.fired = a.fired
  BY <1>1, SmallSteps
<1>3. Ended(b, g) /\ g.bank = b.bank /\ g.releasePending = b.releasePending /\ g.fired = b.fired
  BY <1>1, <1>2 DEF Ended, Alike, Holding, Settings
<1> HIDE DEF g
<1>4. (b.repeating /\ b.enabled) \in BOOLEAN
  OBVIOUS
<1>5. up \in Buttons /\ Ended(b, up) /\ up.bank = b.bank /\ up.releasePending = b.releasePending
      /\ up.fired = b.fired
  BY <1>2, <1>3, <1>4 DEF Buttons, Ended, Holding, Settings
<1> HIDE DEF up
<1>6. free \in Buttons /\ Ended(b, free) /\ free.bank = 0 /\ free.releasePending = b.releasePending
      /\ free.fired = b.fired
  BY <1>5, Ranges DEF Buttons, Ended, Holding, Settings
<1>7. ended \in Buttons /\ Ended(b, ended) /\ ended.bank = 0 /\ ended.releasePending = b.releasePending
      /\ ended.fired = b.fired
  BY ZenonT(60), <1>5, Ranges DEF Buttons, Ended, Holding, Settings
<1> HIDE DEF free, ended
<1>8. /\ Fire(free, "press") \in Buttons /\ Ended(b, Fire(free, "press"))
      /\ Fire(free, "press").bank = 0 /\ Fire(free, "press").releasePending = b.releasePending
      /\ Fire(free, "press").fired \in {"press", "none"}
  BY <1>6, SmallSteps DEF Alike, Ended, Holding, Settings
<1>9. \/ DoRelease(b) \in {up, free, ended}
      \/ DoRelease(b) = Fire(free, "press") /\ ~(b.held /\ b.handled)
  BY DEF DoRelease, up, free, ended, g, a
<1> QED
  BY <1>5, <1>6, <1>7, <1>8, <1>9 DEF Lifted

LEMMA DeferDoes ==
  ASSUME NEW b \in Buttons
  PROVE  Defer(b) \in Buttons /\ Deferred(b, Defer(b)) /\ Defer(b).fired = b.fired
<1> DEFINE e == Elapsed(b)
<1>1. e \in 0 .. Late
  BY ElapsedIsTime
<1>2. Defer(b) = [b EXCEPT !.bank = e, !.run = Off, !.releasePending = TRUE, !.after = Off,
                           !.releaseIn = RecoveryWindow]
  BY DEF Defer
<1> HIDE DEF e
<1>3. Defer(b) \in Buttons
  BY ZenonT(60), <1>1, <1>2, Ranges DEF Buttons
<1>4. e = Elapsed(b) => Deferred(b, Defer(b)) /\ Defer(b).fired = b.fired
  BY <1>2 DEF Buttons, Deferred, Holding, Settings
<1> QED
  BY <1>3, <1>4 DEF e

LEMMA ConfirmReleaseDoes ==
  ASSUME NEW b \in Buttons
  PROVE  /\ ConfirmRelease(b) \in Buttons
         /\ ~b.releasePending => Alike(b, ConfirmRelease(b)) /\ ConfirmRelease(b).fired = b.fired
         /\ b.releasePending => Ended(b, ConfirmRelease(b)) /\ ~ConfirmRelease(b).releasePending
         /\ ConfirmRelease(b).fired \in {b.fired, "press", "none"}
<1> DEFINE due == [b EXCEPT !.releaseIn = Off]
           over == [due EXCEPT !.releasePending = FALSE]
<1>1. due \in Buttons /\ Alike(b, due) /\ due.fired = b.fired
  BY Ranges DEF Buttons, Alike, Holding, Settings
<1> HIDE DEF due
<1>2. /\ over \in Buttons /\ Holding(due, over) /\ over.run = due.run /\ over.bank = due.bank
      /\ over.repeating = due.repeating /\ over.fired = due.fired /\ ~over.releasePending
  BY <1>1 DEF Buttons, Holding, Settings
<1> HIDE DEF over
<1>3. DoRelease(over) \in Buttons /\ Lifted(over, DoRelease(over))
  BY <1>2, DoReleaseDoes
<1>4. CASE b.releasePending
  <2>1. ConfirmRelease(b) = DoRelease(over)
    BY <1>4 DEF ConfirmRelease, due, over
  <2> DEFINE c == DoRelease(over)
  <2>2. Lifted(over, c) /\ c \in Buttons
    BY <1>3
  <2> HIDE DEF c
  <2>3. Ended(b, c)
    BY <1>1, <1>2, <2>2 DEF Lifted, Ended, Alike, Holding, Settings
  <2>4. ~c.releasePending /\ c.fired \in {b.fired, "press", "none"}
    BY <1>1, <1>2, <2>2 DEF Lifted
  <2> QED
    BY <1>4, <2>1, <2>2, <2>3, <2>4 DEF c
<1>5. CASE ~b.releasePending
  <2>1. ConfirmRelease(b) = due
    BY <1>5 DEF ConfirmRelease, due
  <2> QED
    BY <1>1, <1>5, <2>1
<1> QED
  BY <1>4, <1>5

LEMMA CancelDoes ==
  ASSUME NEW b \in Buttons
  PROVE  /\ Cancel(b) \in Buttons /\ Ended(b, Cancel(b)) /\ ~Cancel(b).releasePending
         /\ Cancel(b).fired = b.fired
         /\ CancelInteraction(b) \in Buttons /\ CancelInteraction(b).fired = b.fired
         /\ LET c == CancelInteraction(b) IN
            /\ Settings(b, c) /\ c.held /\ c.handled /\ ~c.pressed /\ ~c.repeating /\ ~c.overlay
            /\ c.after = Off /\ c.run = Off /\ c.bank = b.bank /\ c.releasePending = b.releasePending
<1>1. /\ Cancel(b) \in Buttons /\ Ended(b, Cancel(b)) /\ ~Cancel(b).releasePending
      /\ Cancel(b).fired = b.fired
  <2> DEFINE a == NoteAbandoned(b)
             g == GiveUp(a)
             n == NoLeave(g)
  <2>1. a \in Buttons /\ Alike(b, a) /\ a.fired = b.fired
    BY SmallSteps
  <2> HIDE DEF a
  <2>2. g \in Buttons /\ Ended(a, g) /\ g.fired = a.fired
    BY <2>1, SmallSteps
  <2> HIDE DEF g
  <2>3. n \in Buttons /\ Alike(g, n) /\ n.fired = g.fired
    BY <2>2, SmallSteps
  <2>4. Cancel(b) = [n EXCEPT !.releasePending = FALSE, !.releaseIn = Off, !.bank = 0]
    BY DEF Cancel, n, g, a
  <2> HIDE DEF n
  <2>5. Ended(b, n)
    BY <2>1, <2>2, <2>3 DEF Ended, Alike, Holding, Settings
  <2>6. Cancel(b) \in Buttons /\ ~Cancel(b).releasePending /\ Cancel(b).fired = n.fired
    BY ZenonT(60), <2>3, <2>4, Ranges DEF Buttons
  <2>7. Ended(b, Cancel(b))
    BY <2>3, <2>4, <2>5 DEF Buttons, Ended, Holding, Settings
  <2> QED
    BY <2>1, <2>2, <2>3, <2>6, <2>7
<1>2. /\ CancelInteraction(b) \in Buttons /\ CancelInteraction(b).fired = b.fired
      /\ LET c == CancelInteraction(b) IN
            /\ Settings(b, c) /\ c.held /\ c.handled /\ ~c.pressed /\ ~c.repeating /\ ~c.overlay
            /\ c.after = Off /\ c.run = Off /\ c.bank = b.bank /\ c.releasePending = b.releasePending
  <2> DEFINE g == GiveUp(b)
  <2>1. /\ g \in Buttons /\ Ended(b, g) /\ ~g.repeating /\ g.bank = b.bank
        /\ g.releasePending = b.releasePending /\ g.fired = b.fired
    BY SmallSteps
  <2>2. CancelInteraction(b) = [g EXCEPT !.held = TRUE, !.handled = TRUE, !.run = Off]
    BY DEF CancelInteraction
  <2> DEFINE c == CancelInteraction(b)
  <2> HIDE DEF g
  <2>3. c \in Buttons
    BY <2>1, <2>2, Ranges DEF Buttons
  <2>4. /\ c.held /\ c.handled /\ c.run = Off /\ c.bank = g.bank /\ c.fired = g.fired
        /\ c.pressed = g.pressed /\ c.repeating = g.repeating /\ c.overlay = g.overlay
        /\ c.after = g.after /\ c.releasePending = g.releasePending /\ Settings(g, c)
    BY <2>1, <2>2 DEF Buttons, Settings
  <2> HIDE DEF c
  <2>5. /\ ~g.pressed /\ ~g.overlay /\ g.after = Off /\ Settings(b, g)
    BY <2>1 DEF Ended, Holding
  <2>6. Settings(b, c)
    BY <2>4, <2>5 DEF Settings
  <2> QED
    BY <2>1, <2>3, <2>4, <2>5, <2>6 DEF c
<1> QED
  BY <1>1, <1>2

LEMMA LeaveDoes ==
  ASSUME NEW b \in Buttons, NEW outside \in BOOLEAN
  PROVE  /\ LeaveEvent(b) \in Buttons /\ Alike(b, LeaveEvent(b)) /\ LeaveEvent(b).fired = b.fired
         /\ LeaveEvent(b).releaseIn = b.releaseIn
         /\ ConfirmLeave(b, outside) \in Buttons /\ ConfirmLeave(b, outside).fired = b.fired
         /\ \/ Alike(b, ConfirmLeave(b, outside)) /\ ConfirmLeave(b, outside).releaseIn = b.releaseIn
            \/ /\ outside /\ Ended(b, ConfirmLeave(b, outside))
               /\ ~ConfirmLeave(b, outside).releasePending
<1>1. /\ LeaveEvent(b) \in Buttons /\ Alike(b, LeaveEvent(b)) /\ LeaveEvent(b).fired = b.fired
      /\ LeaveEvent(b).releaseIn = b.releaseIn
  BY ZenonT(60), Ranges DEF LeaveEvent, Buttons, Alike, Holding, Settings
<1> DEFINE c == [b EXCEPT !.leaveIn = Off]
<1>2. c \in Buttons /\ Alike(b, c) /\ c.fired = b.fired /\ c.releaseIn = b.releaseIn
  BY Ranges DEF Buttons, Alike, Holding, Settings
<1>3. \/ ConfirmLeave(b, outside) = c \/ ConfirmLeave(b, outside) = NoLeave(b)
      \/ outside /\ ConfirmLeave(b, outside) = Cancel(b)
  BY DEF ConfirmLeave
<1> HIDE DEF c
<1> QED
  BY <1>1, <1>2, <1>3, SmallSteps, CancelDoes

\* When the countdown is over, the hold is handled, or it goes on repeating.
LEMMA TimeoutDoes ==
  ASSUME NEW b \in Buttons
  PROVE  LET c == HoldTimeout(b) IN
         /\ c \in Buttons /\ Settings(b, c)
         /\ ~b.enabled => c = GiveUp(b)
         /\ b.enabled /\ b.repeating =>
              /\ Holding(b, c) /\ c.repeating /\ c.overlay = b.overlay /\ c.pressed = b.pressed
              /\ c.run = b.run /\ c.bank = b.bank /\ c.releasePending = b.releasePending
              /\ c.fired \in {"repeat", "none"}
         /\ b.enabled /\ ~b.repeating =>
              /\ c.held /\ c.handled /\ c.overlay = b.overlay /\ c.pressed = b.pressed
              /\ c.run = b.run /\ c.bank = b.bank /\ c.releasePending = b.releasePending
              /\ "repeat" \in b.callbacks => c.repeating /\ c.fired \in {"repeat", "none"}
              /\ "repeat" \notin b.callbacks => ~c.repeating /\ c.after = Off
<1>1. CASE ~b.enabled
  BY <1>1, SmallSteps DEF HoldTimeout, RepeatFire, Trigger, Ended, Holding
<1>2. CASE b.enabled /\ b.repeating
  <2> DEFINE r == [b EXCEPT !.after = RepeatEvery]
  <2>1. /\ r \in Buttons /\ Holding(b, r) /\ r.repeating /\ r.overlay = b.overlay /\ r.pressed = b.pressed
        /\ r.run = b.run /\ r.bank = b.bank /\ r.releasePending = b.releasePending
    BY <1>2, Ranges DEF Buttons, Holding, Settings
  <2>2. HoldTimeout(b) = Fire(r, "repeat")
    BY <1>2 DEF HoldTimeout, RepeatFire
  <2> HIDE DEF r
  <2>3. /\ Fire(r, "repeat") \in Buttons /\ Alike(r, Fire(r, "repeat"))
        /\ Fire(r, "repeat").fired \in {"repeat", "none"}
    BY <2>1, SmallSteps
  <2> QED
    BY <1>2, <2>1, <2>2, <2>3 DEF Alike, Holding, Settings
<1>3. CASE b.enabled /\ ~b.repeating
  <2> DEFINE t == [b EXCEPT !.held = TRUE, !.handled = TRUE, !.after = Off]
             r == [t EXCEPT !.repeating = TRUE, !.after = RepeatEvery]
  <2>1. /\ t \in Buttons /\ Settings(b, t) /\ t.held /\ t.handled /\ ~t.repeating /\ t.after = Off
        /\ t.overlay = b.overlay /\ t.pressed = b.pressed /\ t.run = b.run /\ t.bank = b.bank
        /\ t.releasePending = b.releasePending
    BY <1>3, Ranges DEF Buttons, Settings
  <2>2. HoldTimeout(b) = IF "repeat" \in b.callbacks THEN Fire(r, "repeat")
                         ELSE Fire(t, IF "hold" \in b.callbacks THEN "hold" ELSE "press")
    BY <1>3 DEF HoldTimeout, Trigger, r, t
  <2> HIDE DEF t
  <2>3. /\ r \in Buttons /\ Settings(t, r) /\ r.held = t.held /\ r.handled = t.handled /\ r.repeating
        /\ r.overlay = t.overlay /\ r.pressed = t.pressed /\ r.run = t.run /\ r.bank = t.bank
        /\ r.releasePending = t.releasePending
    BY ZenonT(60), <2>1, Ranges DEF Buttons, Settings
  <2> HIDE DEF r
  <2>4. /\ Fire(r, "repeat") \in Buttons /\ Alike(r, Fire(r, "repeat"))
        /\ Fire(r, "repeat").fired \in {"repeat", "none"}
    BY <2>3, SmallSteps
  <2>5. \A k \in {"hold", "press"} : Fire(t, k) \in Buttons /\ Alike(t, Fire(t, k))
    BY <2>1, SmallSteps
  <2>6. CASE "repeat" \in b.callbacks
    BY <1>3, <2>1, <2>2, <2>3, <2>4, <2>6 DEF Alike, Holding, Settings
  <2>7. CASE "repeat" \notin b.callbacks
    BY <1>3, <2>1, <2>2, <2>5, <2>7 DEF Alike, Holding, Settings
  <2> QED
    BY <2>6, <2>7
<1> QED
  BY <1>1, <1>2, <1>3

\* The time that passes.
LEMMA TickDoes ==
  ASSUME NEW b \in Buttons, 0 \notin {b.after, b.releaseIn, b.leaveIn}
  PROVE  LET c == [b EXCEPT !.after = Sooner(@), !.releaseIn = Sooner(@),
                            !.leaveIn = Sooner(@), !.run = Older(@), !.lostAge = Older(@)] IN
         /\ c \in Buttons /\ Holding(b, c) /\ c.fired = b.fired /\ c.overlay = b.overlay
         /\ c.pressed = b.pressed /\ c.repeating = b.repeating /\ c.bank = b.bank
         /\ c.releasePending = b.releasePending /\ c.after = Sooner(b.after)
         /\ c.run = Older(b.run) /\ c.releaseIn = Sooner(b.releaseIn)
<1>1. /\ Sooner(b.after) \in Off .. HoldThreshold + RepeatEvery
      /\ Sooner(b.releaseIn) \in Off .. RecoveryWindow /\ Sooner(b.leaveIn) \in Off .. LeaveConfirm
      /\ Older(b.run) \in Off .. Late /\ Older(b.lostAge) \in Off .. Late
  BY Times DEF Buttons, Sooner, Older, Off, Late
<1> QED
  BY <1>1 DEF Buttons, Holding, Settings

-----------------------------------------------------------------------------
(* What a touch is entitled to                                              *)

\* The contact is counted, and the countdown is what is left of the threshold.
Counting ==
  /\ finger = "on" /\ contact /\ button.pressed /\ ~button.releasePending /\ button.run # Off
  /\ button.bank + button.run = touched /\ button.after = HoldThreshold - touched
  /\ touched <= HoldThreshold
\* The release waits to be confirmed, and the time so far is banked; the window is not over
\* while the finger is there.
Waiting ==
  /\ ~contact /\ button.releasePending /\ button.bank = touched /\ touched < HoldThreshold
  /\ finger = "on" => button.releaseIn # 0
TimeIsKept ==
  /\ clean => finger # "out"
  /\ /\ clean /\ "hold" \in button.callbacks /\ "repeat" \notin button.callbacks
     /\ finger = "on" \/ button.releasePending
     => /\ button.enabled
        /\ button.handled => ~button.releasePending /\ touched >= HoldThreshold
        /\ ~button.handled => Counting \/ Waiting

Paused ==
  button.releasePending => button.after = Off /\ button.run = Off /\ button.bank < HoldThreshold

\* Once a press was answered, nothing is left of it that could answer it again.
Answered ==
  /\ ~button.releasePending
  /\ \/ button.held /\ button.handled /\ (button.after = Off \/ button.repeating)
     \/ ~button.pressed /\ button.after = Off /\ ~contact
CountIsRight ==
  /\ answers # 2
  /\ answers = 0 /\ button.releasePending => ~contact
  /\ answers = 1 => Answered

RepeatsAreAsked == button.repeating => "repeat" \in button.callbacks

Entitled ==
  HoldTypeOK /\ TimeIsKept /\ Paused /\ CountIsRight /\ RepeatsAreAsked /\ BarMeansPressed

LEMMA EntitledInit == HoldInit => Entitled
<1> SUFFICES ASSUME HoldInit PROVE Entitled
  OBVIOUS
<1>1. button \in Buttons
  BY Ranges DEF HoldInit, Buttons
<1>2. /\ ~button.pressed /\ ~button.repeating /\ ~button.releasePending /\ ~button.overlay
      /\ finger = "up" /\ contact = FALSE /\ chord = FALSE /\ touched = 0 /\ answers = 0
  BY DEF HoldInit
<1>3. HoldTypeOK
  <2>1. clean \in BOOLEAN /\ touchesLeft = HoldTouches /\ tricksLeft = HoldTricks
    BY DEF HoldInit
  <2>2. 0 \in 0 .. Ignored /\ HoldTouches \in 0 .. HoldTouches /\ HoldTricks \in 0 .. HoldTricks
    BY Times DEF Ignored
  <2> QED
    BY <1>1, <1>2, <2>1, <2>2, Ranges DEF HoldTypeOK
<1> QED
  BY <1>2, <1>3 DEF Entitled, TimeIsKept, Paused, CountIsRight, RepeatsAreAsked, BarMeansPressed

\* A press, whoever makes it.
LEMMA EntitledPress ==
  ASSUME Entitled, HandlePress
  PROVE  /\ button' \in Buttons /\ answers' \in 0 .. Ignored /\ Settings(button, button')
         /\ Paused' /\ CountIsRight' /\ RepeatsAreAsked' /\ BarMeansPressed'
         /\ button.enabled /\ button.releasePending => Resumed(button, button')
         /\ button.enabled /\ ~button.releasePending => Pressed(button, button')
<1> DEFINE q == Quietly
<1>1. /\ button \in Buttons /\ Paused /\ CountIsRight /\ RepeatsAreAsked /\ BarMeansPressed
      /\ answers \in 0 .. Ignored
  BY DEF Entitled, HoldTypeOK
<1>2. q \in Buttons /\ Alike(button, q) /\ q.lostAge = button.lostAge
  BY <1>1 DEF Quietly, Buttons, Alike, Holding, Settings
<1>3. button' = Press(q)
  BY DEF HandlePress, Quietly
<1>4. answers' = IF ~button.releasePending THEN 0 ELSE IF button.enabled THEN answers ELSE Ignored
  BY DEF HandlePress
<1> HIDE DEF q
<1>5. /\ Press(q) \in Buttons
      /\ ~q.enabled => Press(q) = GiveUp(q)
      /\ q.enabled /\ q.releasePending => Resumed(q, Press(q))
      /\ q.enabled /\ ~q.releasePending => Pressed(q, Press(q))
  BY <1>1, <1>2, PressDoes DEF Paused, Alike
<1>6. answers' \in 0 .. Ignored
  BY <1>1, <1>4 DEF Ignored
<1>7. CASE ~button.enabled
  <2>1. /\ Ended(button, button') /\ ~button'.repeating /\ button'.bank = button.bank
        /\ button'.releasePending = button.releasePending
    BY <1>2, <1>3, <1>5, <1>7, SmallSteps DEF Ended, Alike, Holding, Settings
  <2>2. Paused'
    BY <1>1, <2>1 DEF Paused, Ended
  <2>3. CountIsRight'
    BY <1>4, <1>7, <2>1 DEF CountIsRight, Ignored
  <2>4. RepeatsAreAsked' /\ BarMeansPressed'
    BY <2>1 DEF RepeatsAreAsked, BarMeansPressed, Ended
  <2> QED
    BY <1>3, <1>5, <1>6, <1>7, <2>1, <2>2, <2>3, <2>4 DEF Ended, Holding
<1>8. CASE button.enabled /\ button.releasePending
  <2>1. Resumed(button, button')
    BY <1>2, <1>3, <1>5, <1>8 DEF Resumed, Alike, Holding, Settings
  <2>2. Paused' /\ RepeatsAreAsked' /\ BarMeansPressed'
    BY <1>1, <2>1 DEF Paused, RepeatsAreAsked, BarMeansPressed, Resumed, Holding, Settings
  <2>3. CountIsRight'
    BY <1>1, <1>4, <1>8, <2>1 DEF CountIsRight, Answered, Resumed
  <2> QED
    BY <1>3, <1>5, <1>6, <1>8, <2>1, <2>2, <2>3 DEF Resumed, Holding
<1>9. CASE button.enabled /\ ~button.releasePending
  <2>1. Pressed(button, button')
    BY <1>2, <1>3, <1>5, <1>9 DEF Pressed, Alike, Holding, Settings
  <2>2. Paused' /\ RepeatsAreAsked' /\ BarMeansPressed'
    BY <1>1, <1>9, <2>1 DEF Paused, RepeatsAreAsked, BarMeansPressed, Pressed
  <2>3. CountIsRight'
    BY <1>4, <1>9, <2>1 DEF CountIsRight, Pressed
  <2> QED
    BY <1>3, <1>5, <1>6, <1>9, <2>1, <2>2, <2>3 DEF Pressed
<1> QED
  BY <1>7, <1>8, <1>9

LEMMA EntitledStep ==
  ASSUME Entitled, HoldNext
  PROVE  Entitled'
<1> DEFINE q == Quietly
           b == button'
<1>1. /\ button \in Buttons /\ finger \in {"up", "on", "out"} /\ contact \in BOOLEAN /\ chord \in BOOLEAN
      /\ touched \in 0 .. Late /\ clean \in BOOLEAN /\ answers \in 0 .. Ignored
      /\ touchesLeft \in 0 .. HoldTouches /\ tricksLeft \in 0 .. HoldTricks
      /\ TimeIsKept /\ Paused /\ CountIsRight /\ RepeatsAreAsked /\ BarMeansPressed
  BY DEF Entitled, HoldTypeOK
<1>2. q \in Buttons /\ Alike(button, q) /\ q.lostAge = button.lostAge /\ q.fired = "none"
      /\ q.releaseIn = button.releaseIn /\ q.leaveIn = button.leaveIn
  BY <1>1 DEF Quietly, Buttons, Alike, Holding, Settings
<1> HIDE DEF q
\* What is left to show of a step, once its fields are known.
<1>3. ASSUME b \in Buttons, Handle(b), CountIsRight'
      PROVE  answers' \in 0 .. Ignored
  BY <1>1, <1>3 DEF Handle, HoldAnswers, Ignored
<1>4. ASSUME b \in Buttons, answers' \in 0 .. Ignored,
             TimeIsKept', Paused', CountIsRight', RepeatsAreAsked', BarMeansPressed'
      PROVE  Entitled'
  <2>1. /\ finger' \in {"up", "on", "out"} /\ contact' \in BOOLEAN /\ chord' \in BOOLEAN
        /\ clean' \in BOOLEAN
    BY <1>1 DEF HoldNext, FingerDown, FingerUp, SlideOut, SlideBack, ContactLost, ContactFound, FalseLeave,
                ChordDown, ChordUp, HostActs, Expire, ProgressTick, HoldTick, Untouched
  <2>2. touched' \in 0 .. Late
    <3>1. 0 \in 0 .. Late /\ Older(touched) \in 0 .. Late
      BY <1>1, Times DEF Older, Late, Off
    <3> QED
      BY <1>1, <3>1 DEF HoldNext, FingerDown, FingerUp, SlideOut, SlideBack, ContactLost, ContactFound,
                FalseLeave, ChordDown, ChordUp, HostActs, Expire, ProgressTick, HoldTick, Untouched
  <2>3. touchesLeft' \in 0 .. HoldTouches /\ tricksLeft' \in 0 .. HoldTricks
    BY <1>1, Times DEF HoldNext, FingerDown, FingerUp, SlideOut, SlideBack, ContactLost, ContactFound,
                FalseLeave, ChordDown, ChordUp, HostActs, Expire, ProgressTick, HoldTick, Untouched
  <2> QED
    BY <1>4, <2>1, <2>2, <2>3 DEF Entitled, HoldTypeOK
\* A handler that changes nothing of all this.
<1>5. ASSUME b \in Buttons, Alike(button, b), b.fired = "none", Handle(b), contact' = contact
      PROVE  /\ answers' = answers /\ Paused' /\ CountIsRight' /\ RepeatsAreAsked' /\ BarMeansPressed'
  <2>1. answers' = answers
    BY <1>5 DEF Handle, HoldAnswers
  <2> QED
    BY <1>1, <1>5, <2>1 DEF Paused, CountIsRight, Answered, RepeatsAreAsked, BarMeansPressed, Alike,
                            Holding, Settings
\* A press that has ended, and that calls nobody.
<1>6. ASSUME b \in Buttons, Ended(button, b), b.fired = "none", Handle(b),
             contact' = contact \/ contact' = FALSE, b.releasePending => button.releasePending,
             b.releasePending => b.bank = button.bank
      PROVE  /\ answers' = answers /\ Paused' /\ CountIsRight' /\ RepeatsAreAsked' /\ BarMeansPressed'
  <2>1. answers' = answers
    BY <1>6 DEF Handle, HoldAnswers
  <2>2. Paused' /\ RepeatsAreAsked' /\ BarMeansPressed'
    BY <1>1, <1>6 DEF Paused, RepeatsAreAsked, BarMeansPressed, Ended, Holding, Settings
  <2>3. CountIsRight'
    BY <1>1, <1>6, <2>1 DEF CountIsRight, Answered, Ended, Holding
  <2> QED
    BY <2>1, <2>2, <2>3
\* A touch that is carried on has its time.
<1>7. ASSUME button.releasePending, Settings(button, b), button.enabled => Resumed(button, b),
              finger' = "on", contact' = TRUE, touched' = touched, clean' => clean
       PROVE  TimeIsKept'
  <2> SUFFICES ASSUME clean, "hold" \in button.callbacks, "repeat" \notin button.callbacks
               PROVE  b.enabled /\ ~b.handled /\ Counting'
    BY <1>7 DEF TimeIsKept, Settings
  <2>1. button.enabled /\ ~button.handled /\ Waiting
    BY <1>1, <1>7 DEF TimeIsKept, Counting
  <2>2. Resumed(button, b) /\ button.bank = touched /\ touched < HoldThreshold /\ 0 # Off
    BY <1>7, <2>1 DEF Waiting, Off
  <2>3. touched + 0 = touched /\ touched <= HoldThreshold
    BY <1>1, <2>2, Times DEF Late
  <2> QED
    BY <1>7, <2>1, <2>2, <2>3 DEF Resumed, Counting, Holding, Settings
<1>8. CASE FingerDown
  <2>1. /\ finger' = "on" /\ contact' = TRUE
        /\ IF button.releasePending
           THEN UNCHANGED <<touched, clean>>
           ELSE touched' = 0 /\ clean' = (button.enabled /\ ~chord /\ button.lostAge = Off)
        /\ HandlePress
    BY <1>8 DEF FingerDown
  <2>2. TimeIsKept'
    <3>1. CASE button.releasePending
      BY <1>7, <2>1, <3>1, EntitledPress
    <3>2. CASE ~button.releasePending
      BY <1>1, <2>1, <3>2, EntitledPress, Times DEF TimeIsKept, Counting, Pressed, Settings, Off, Buttons
    <3> QED
      BY <3>1, <3>2
  <2> QED
    BY <1>4, <2>1, <2>2, EntitledPress
\* A deferred release that is taken back.
<1>9. ASSUME b = Resume(q) \/ b = Resume(NoLeave(q)), button.releasePending
       PROVE  /\ b \in Buttons /\ Resumed(button, b) /\ b.fired = "none"
              /\ Handle(b) => Paused' /\ CountIsRight' /\ RepeatsAreAsked' /\ BarMeansPressed'
  <2>1. ASSUME NEW c \in Buttons, Alike(button, c), c.fired = "none"
        PROVE  Resume(c) \in Buttons /\ Resumed(button, Resume(c)) /\ Resume(c).fired = "none"
    <3>1. c.bank <= HoldThreshold
      BY <1>1, <1>9, <2>1, Times DEF Paused, Buttons, Alike
    <3> QED
      BY <2>1, <3>1, ResumeDoes DEF Resumed, Alike, Holding, Settings
  <2>2. NoLeave(q) \in Buttons /\ Alike(button, NoLeave(q)) /\ NoLeave(q).fired = "none"
    BY <1>2, SmallSteps DEF Alike, Holding, Settings
  <2>3. b \in Buttons /\ Resumed(button, b) /\ b.fired = "none"
    BY <1>2, <1>9, <2>1, <2>2
  <2>4. ASSUME Handle(b)
        PROVE  Paused' /\ CountIsRight' /\ RepeatsAreAsked' /\ BarMeansPressed'
    <3>1. answers' = answers
      BY <2>3, <2>4 DEF Handle, HoldAnswers
    <3> QED
      BY <1>1, <1>9, <2>3, <3>1 DEF Paused, CountIsRight, Answered, RepeatsAreAsked, BarMeansPressed,
                                     Resumed, Holding, Settings
  <2> QED
    BY <2>3, <2>4
<1>10. CASE FingerUp \/ ContactLost
  <2>1. /\ Handle(b) /\ contact' = FALSE /\ touched' = touched /\ finger # "up"
        /\ \/ finger' = "up" /\ clean' = clean
           \/ finger' = finger /\ clean' = (clean /\ (DeferredRelease(button) \/ ~button.pressed)) /\ contact
    BY <1>10 DEF FingerUp, ContactLost, Handle
  <2>2. CASE ~contact
    <3>1. b = q
      BY <1>10, <2>2 DEF FingerUp, ContactLost, Handle, q
    <3>2. TimeIsKept'
      BY <1>1, <1>2, <2>1, <2>2, <3>1 DEF TimeIsKept, Counting, Waiting, Alike, Holding, Settings
    <3> QED
      BY <1>1, <1>2, <1>4, <1>5, <2>1, <2>2, <3>1, <3>2
  <2>3. CASE contact
    <3>1. b = Release(q)
      BY <1>10, <2>3 DEF FingerUp, ContactLost, Handle, q
    <3>2. Elapsed(q) = Elapsed(button) /\ DeferredRelease(q) = DeferredRelease(button)
      BY <1>2 DEF Elapsed, DeferredRelease, Alike, Holding, Settings
    <3>3. CASE DeferredRelease(button)
      <4>1. b \in Buttons /\ Deferred(q, b) /\ b.fired = "none"
        BY <1>2, <3>1, <3>2, <3>3, DeferDoes DEF Release
      <4>2. Deferred(button, b)
        BY <1>2, <3>2, <4>1 DEF Deferred, Alike, Holding, Settings
      <4>3. button.pressed /\ ~button.handled /\ Elapsed(button) < HoldThreshold /\ RecoveryWindow > 0
        BY <3>3 DEF DeferredRelease
      <4>4. answers' = answers
        BY <2>1, <4>1 DEF Handle, HoldAnswers
      <4>5. Paused' /\ CountIsRight' /\ RepeatsAreAsked' /\ BarMeansPressed'
        BY <1>1, <2>1, <4>2, <4>3, <4>4 DEF Paused, CountIsRight, Answered, RepeatsAreAsked,
                                            BarMeansPressed, Deferred, Holding, Settings
      <4>6. Counting => Elapsed(button) = touched
        BY <1>1, ElapsedIsTime DEF Counting
      <4>7. TimeIsKept'
        BY <1>1, <2>1, <2>3, <4>2, <4>3, <4>6 DEF TimeIsKept, Waiting, Deferred, Holding, Settings
      <4> QED
        BY <1>1, <1>3, <1>4, <2>1, <4>1, <4>5, <4>7
    <3>4. CASE ~DeferredRelease(button)
      <4>1. b \in Buttons /\ Lifted(q, b)
        BY <1>2, <3>1, <3>2, <3>4, DoReleaseDoes DEF Release
      <4>2. /\ Ended(button, b) /\ b.releasePending = button.releasePending
            /\ b.bank \in {0, button.bank} /\ b.fired \in {"press", "none"}
            /\ button.held /\ button.handled => b.fired = "none"
        BY <1>2, <4>1 DEF Lifted, Ended, Alike, Holding, Settings
      <4>3. answers' = IF b.fired = "press" /\ answers < 2 THEN answers + 1 ELSE answers
        BY <2>1, <4>2 DEF Handle, HoldAnswers
      <4>4. Paused' /\ RepeatsAreAsked' /\ BarMeansPressed'
        BY <1>1, <4>2, Times DEF Paused, RepeatsAreAsked, BarMeansPressed, Ended, Holding, Settings
      <4>5. CountIsRight'
        <5>1. CASE answers = 0
          BY <1>1, <2>1, <2>3, <4>2, <4>3, <5>1 DEF CountIsRight, Answered, Ended
        <5>2. CASE answers = 1
          BY <1>1, <2>1, <2>3, <4>2, <4>3, <5>2 DEF CountIsRight, Answered, Ended, Holding
        <5>3. CASE answers = 3
          BY <4>3, <5>3 DEF CountIsRight
        <5> QED
          BY <1>1, <5>1, <5>2, <5>3 DEF CountIsRight, Ignored
      <4>6. TimeIsKept'
        <5>1. /\ b.callbacks = button.callbacks /\ b.enabled = button.enabled /\ b.handled = button.handled
          BY <4>2 DEF Ended, Holding, Settings
        <5>2. clean' => clean /\ (finger' # "up" => ~button.pressed)
          BY <2>1, <3>4
        <5>3. TimeIsKept => (clean => finger = "on")
          BY <1>1, <2>1 DEF TimeIsKept
        <5>4. clean /\ "hold" \in button.callbacks /\ "repeat" \notin button.callbacks
              => /\ button.enabled /\ ~button.releasePending
                 /\ button.handled => touched >= HoldThreshold
                 /\ ~button.handled => button.pressed
          BY <1>1, <2>3, <5>3 DEF TimeIsKept, Counting, Waiting
        <5> QED
          BY <1>1, <2>1, <4>2, <5>1, <5>2, <5>3, <5>4 DEF TimeIsKept
      <4> QED
        BY <1>3, <1>4, <2>1, <4>1, <4>4, <4>5, <4>6
    <3> QED
      BY <3>3, <3>4
  <2> QED
    BY <1>1, <2>2, <2>3
<1>11. CASE SlideOut \/ FalseLeave
  <2>1. b = LeaveEvent(q) /\ Handle(b) /\ contact' = contact /\ touched' = touched
    BY <1>11 DEF SlideOut, FalseLeave, Handle, q
  <2>2. clean' = FALSE \/ (clean' = clean /\ finger' = finger)
    BY <1>11 DEF SlideOut, FalseLeave
  <2>3. b \in Buttons /\ Alike(button, b) /\ b.fired = "none" /\ b.releaseIn = button.releaseIn
    BY <1>2, <2>1, LeaveDoes DEF Alike, Holding, Settings
  <2>4. TimeIsKept'
    BY <1>1, <2>1, <2>3, <2>2 DEF TimeIsKept, Counting, Waiting, Alike, Holding, Settings
  <2> QED
    BY <1>1, <1>4, <1>5, <2>1, <2>3, <2>4
<1>12. CASE SlideBack
  <2>1. finger = "out" /\ clean' = clean /\ contact' = contact /\ touched' = touched
    BY <1>12 DEF SlideBack
  <2>2. TimeIsKept'
    BY <1>1, <2>1 DEF TimeIsKept
  <2>3. Handle(b) /\ (b = NoLeave(q) \/ (contact /\ b = Contact(NoLeave(q))))
    BY <1>12 DEF SlideBack, Handle, Enter, q
  <2>4. NoLeave(q) \in Buttons /\ Alike(button, NoLeave(q)) /\ NoLeave(q).fired = "none"
    BY <1>2, SmallSteps DEF Alike, Holding, Settings
  <2>5. CASE b = NoLeave(q)
    BY <1>1, <1>4, <1>5, <2>1, <2>2, <2>3, <2>4, <2>5
  <2>6. CASE b # NoLeave(q)
    <3>1. b = Resume(NoLeave(q)) /\ button.releasePending /\ contact
      BY <2>3, <2>4, <2>6 DEF Contact, Alike
    <3>2. b = Resume(q) \/ b = Resume(NoLeave(q))
      BY <3>1
    <3> QED
      BY <1>3, <1>4, <1>9, <2>2, <2>3, <3>1, <3>2
  <2> QED
    BY <2>5, <2>6
<1>13. CASE ContactFound
  <2>1. /\ finger = "on" /\ ~contact /\ contact' = TRUE /\ finger' = finger /\ touched' = touched
        /\ clean' = (clean /\ button.releasePending)
        /\ HandlePress \/ (button.releasePending /\ Handle(b) /\ b = Resume(q))
    BY <1>2, <1>13 DEF ContactFound, Handle, Contact, q, Alike
  <2>2. ASSUME Settings(button, b), button.releasePending /\ button.enabled => Resumed(button, b)
        PROVE  TimeIsKept'
    <3>1. CASE button.releasePending
      BY <1>7, <2>1, <2>2, <3>1
    <3>2. CASE ~button.releasePending
      BY <2>1, <3>2 DEF TimeIsKept
    <3> QED
      BY <3>1, <3>2
  <2>3. CASE HandlePress
    BY <1>4, <2>2, <2>3, EntitledPress
  <2>4. CASE ~HandlePress
    BY <1>3, <1>4, <1>9, <2>1, <2>2, <2>4 DEF Resumed, Holding
  <2> QED
    BY <2>3, <2>4
<1>14. CASE ChordDown
  <2>1. HandlePress /\ clean' = FALSE
    BY <1>14 DEF ChordDown
  <2> QED
    BY <1>4, <2>1, EntitledPress DEF TimeIsKept
<1>15. CASE ChordUp
  <2>1. b = Cancel(q) /\ Handle(b) /\ clean' = FALSE /\ contact' = contact
    BY <1>15 DEF ChordUp, Handle, q
  <2>2. b \in Buttons /\ Ended(button, b) /\ b.fired = "none" /\ ~b.releasePending
    BY <1>2, <2>1, CancelDoes DEF Ended, Alike, Holding, Settings
  <2> QED
    BY <1>1, <1>4, <1>6, <2>1, <2>2 DEF TimeIsKept
<1>16. CASE HostActs
  <2>1. clean' = FALSE /\ contact' = contact /\ Handle(b)
        /\ (b = [q EXCEPT !.enabled = ~@] \/ b = CancelInteraction(q))
    BY <1>16 DEF HostActs, Handle, q
  <2>2. CASE b = [q EXCEPT !.enabled = ~@]
    <3>1. /\ b \in Buttons /\ b.fired = "none" /\ b.callbacks = button.callbacks /\ b.held = button.held
          /\ b.handled = button.handled /\ b.pressed = button.pressed /\ b.repeating = button.repeating
          /\ b.after = button.after /\ b.run = button.run /\ b.bank = button.bank
          /\ b.overlay = button.overlay /\ b.releasePending = button.releasePending
      BY <1>2, <2>2 DEF Buttons, Alike, Holding, Settings
    <3>2. answers' = answers
      BY <2>1, <3>1 DEF Handle, HoldAnswers
    <3>3. Paused' /\ CountIsRight' /\ RepeatsAreAsked' /\ BarMeansPressed'
      BY <1>1, <2>1, <3>1, <3>2 DEF Paused, CountIsRight, Answered, RepeatsAreAsked, BarMeansPressed
    <3> QED
      BY <1>1, <1>4, <2>1, <3>1, <3>2, <3>3 DEF TimeIsKept
  <2>3. CASE b = CancelInteraction(q)
    <3>1. /\ b \in Buttons /\ b.fired = "none" /\ b.callbacks = button.callbacks /\ b.held /\ b.handled
          /\ ~b.pressed /\ ~b.repeating /\ ~b.overlay /\ b.after = Off /\ b.run = Off
          /\ b.bank = button.bank /\ b.releasePending = button.releasePending
      BY <1>2, <2>3, CancelDoes DEF Alike, Holding, Settings
    <3>2. answers' = answers
      BY <2>1, <3>1 DEF Handle, HoldAnswers
    <3>3. Paused' /\ CountIsRight' /\ RepeatsAreAsked' /\ BarMeansPressed'
      BY <1>1, <2>1, <3>1, <3>2 DEF Paused, CountIsRight, Answered, RepeatsAreAsked, BarMeansPressed
    <3> QED
      BY <1>1, <1>4, <2>1, <3>1, <3>2, <3>3 DEF TimeIsKept
  <2> QED
    BY <2>1, <2>2, <2>3
<1>17. CASE Expire
  <2>1. /\ UNCHANGED <<finger, contact, clean, touched>> /\ Handle(b)
        /\ \/ button.after = 0 /\ b = HoldTimeout(q)
           \/ button.releaseIn = 0 /\ b = ConfirmRelease(q)
           \/ b = ConfirmLeave(q, finger # "on")
    BY <1>17 DEF Expire, Untouched, Handle, q
  <2>2. CASE button.after = 0 /\ b = HoldTimeout(q)
    <3>1. ~button.releasePending /\ button.after # Off
      BY <1>1, <2>2, Ranges DEF Paused
    <3>2. CASE ~button.enabled
      <4>1. b = GiveUp(q)
        BY <1>2, <2>2, <3>2, TimeoutDoes DEF Alike, Holding, Settings
      <4>2. /\ b \in Buttons /\ Ended(button, b) /\ b.fired = "none" /\ ~b.releasePending
        BY <1>2, <3>1, <4>1, SmallSteps DEF Ended, Alike, Holding, Settings
      <4>3. TimeIsKept'
        BY <1>1, <2>1, <3>2, <4>2 DEF TimeIsKept, Ended, Holding, Settings
      <4> QED
        BY <1>1, <1>4, <1>6, <2>1, <4>2, <4>3
    <3>3. CASE button.enabled /\ button.repeating
      <4>1. /\ b \in Buttons /\ Holding(button, b) /\ b.repeating /\ b.overlay = button.overlay
            /\ b.pressed = button.pressed /\ ~b.releasePending /\ b.fired \in {"repeat", "none"}
        BY <1>2, <2>2, <3>1, <3>3, TimeoutDoes DEF Alike, Holding, Settings
      <4>2. answers' = answers
        BY <2>1, <4>1 DEF Handle, HoldAnswers
      <4>3. Paused' /\ CountIsRight' /\ RepeatsAreAsked' /\ BarMeansPressed'
        BY <1>1, <3>1, <3>3, <4>1, <4>2 DEF Paused, CountIsRight, Answered, RepeatsAreAsked, BarMeansPressed,
                                      Holding, Settings
      <4>4. TimeIsKept'
        BY <1>1, <2>1, <3>3, <4>1 DEF TimeIsKept, RepeatsAreAsked, Holding, Settings
      <4> QED
        BY <1>1, <1>4, <4>1, <4>2, <4>3, <4>4
    <3>4. CASE button.enabled /\ ~button.repeating
      <4>1. /\ b \in Buttons /\ Settings(button, b) /\ b.held /\ b.handled /\ b.overlay = button.overlay
            /\ b.pressed = button.pressed /\ ~b.releasePending
            /\ "repeat" \in button.callbacks => b.repeating /\ b.fired \in {"repeat", "none"}
            /\ "repeat" \notin button.callbacks => ~b.repeating /\ b.after = Off
        BY <1>2, <2>2, <3>1, <3>4, TimeoutDoes DEF Alike, Holding, Settings
      <4>2. Paused' /\ RepeatsAreAsked' /\ BarMeansPressed' /\ Answered'
        BY <1>1, <4>1 DEF Paused, Answered, RepeatsAreAsked, BarMeansPressed, Settings
      <4>3. answers = 1 => answers' = 1
        BY <1>1, <2>1, <3>1, <3>4, <4>1 DEF Handle, HoldAnswers, CountIsRight, Answered
      <4>4. CountIsRight'
        BY <1>1, <2>1, <4>1, <4>2, <4>3 DEF CountIsRight, Handle, HoldAnswers, Ignored
      <4>5. TimeIsKept'
        BY <1>1, <2>1, <2>2, <3>1, <3>4, <4>1, Times DEF TimeIsKept, Counting, Waiting, Settings
      <4> QED
        BY <1>3, <1>4, <2>1, <4>1, <4>2, <4>4, <4>5
    <3> QED
      BY <3>2, <3>3, <3>4
  <2>3. CASE button.releaseIn = 0 /\ b = ConfirmRelease(q)
    <3>1. CASE ~button.releasePending
      <4>1. b \in Buttons /\ Alike(button, b) /\ b.fired = "none"
        BY <1>2, <2>3, <3>1, ConfirmReleaseDoes DEF Alike, Holding, Settings
      <4>2. TimeIsKept'
        BY <1>1, <2>1, <3>1, <4>1 DEF TimeIsKept, Counting, Waiting, Alike, Holding, Settings
      <4> QED
        BY <1>1, <1>4, <1>5, <2>1, <4>1, <4>2
    <3>2. CASE button.releasePending
      <4>1. /\ b \in Buttons /\ Ended(button, b) /\ ~b.releasePending /\ b.fired \in {"press", "none"}
        BY <1>2, <2>3, <3>2, ConfirmReleaseDoes DEF Alike, Ended, Holding, Settings
      <4>2. Paused' /\ RepeatsAreAsked' /\ BarMeansPressed'
        BY <1>1, <4>1 DEF Paused, RepeatsAreAsked, BarMeansPressed, Ended, Holding, Settings
      <4>3. CountIsRight'
        BY <1>1, <2>1, <3>2, <4>1 DEF CountIsRight, Answered, Handle, HoldAnswers, Ended, Ignored
      <4>4. TimeIsKept'
        BY <1>1, <2>1, <2>3, <3>2, <4>1 DEF TimeIsKept, Counting, Waiting, Ended, Holding, Settings
      <4> QED
        BY <1>3, <1>4, <2>1, <4>1, <4>2, <4>3, <4>4
    <3> QED
      BY <3>1, <3>2
  <2>4. CASE b = ConfirmLeave(q, finger # "on")
    <3>1. (finger # "on") \in BOOLEAN
      OBVIOUS
    <3>2. b \in Buttons /\ b.fired = "none"
      BY <1>2, <2>4, <3>1, LeaveDoes
    <3>3. \/ Alike(button, b) /\ b.releaseIn = button.releaseIn
          \/ finger # "on" /\ Ended(button, b) /\ ~b.releasePending
      <4> DEFINE out == finger # "on"
      <4>1. \/ Alike(q, b) /\ b.releaseIn = q.releaseIn
            \/ out /\ Ended(q, b) /\ ~b.releasePending
        <5>1. q \in Buttons /\ out \in BOOLEAN
          BY <1>2
        <5> HIDE DEF out
        <5>2. \/ Alike(q, ConfirmLeave(q, out)) /\ ConfirmLeave(q, out).releaseIn = q.releaseIn
              \/ /\ out /\ Ended(q, ConfirmLeave(q, out))
                 /\ ~ConfirmLeave(q, out).releasePending
          BY <5>1, LeaveDoes
        <5>3. b = ConfirmLeave(q, out)
          BY <2>4 DEF out
        <5> HIDE DEF b
        <5> QED
          BY <5>2, <5>3
      <4> HIDE DEF out
      <4> QED
        BY <1>2, <4>1 DEF Alike, Ended, Holding, Settings, out
    <3>4. TimeIsKept'
      BY <1>1, <2>1, <3>3 DEF TimeIsKept, Counting, Waiting, Alike, Ended, Holding, Settings
    <3>5. CASE Alike(button, b)
      BY <1>1, <1>4, <1>5, <2>1, <3>2, <3>4, <3>5
    <3>6. CASE Ended(button, b) /\ ~b.releasePending
      BY <1>1, <1>4, <1>6, <2>1, <3>2, <3>4, <3>6
    <3> QED
      BY <3>3, <3>5, <3>6
  <2> QED
    BY <2>1, <2>2, <2>3, <2>4
<1>18. CASE ProgressTick
  <2>1. /\ UNCHANGED <<finger, contact, clean, touched>> /\ Handle(b) /\ b = GiveUp(q) /\ ~button.enabled
    BY <1>18 DEF ProgressTick, BarNotices, Untouched, Handle, q
  <2>2. /\ b \in Buttons /\ Ended(button, b) /\ b.fired = "none"
        /\ b.releasePending = button.releasePending /\ b.bank = button.bank
    BY <1>2, <2>1, SmallSteps DEF Ended, Alike, Holding, Settings
  <2>3. TimeIsKept'
    BY <1>1, <2>1, <2>2 DEF TimeIsKept, Ended, Holding, Settings
  <2> QED
    BY <1>1, <1>4, <1>6, <2>1, <2>2, <2>3
<1>19. CASE HoldTick
  <2>1. /\ UNCHANGED <<finger, contact, clean, answers>>
        /\ 0 \notin {button.after, button.releaseIn, button.leaveIn}
        /\ finger # "on" \/ contact \/ button.releaseIn # 1
        /\ touched' = IF finger = "on" /\ contact THEN Older(touched) ELSE touched
        /\ b = [q EXCEPT !.after = Sooner(@), !.releaseIn = Sooner(@),
                         !.leaveIn = Sooner(@), !.run = Older(@), !.lostAge = Older(@)]
    BY <1>19 DEF HoldTick, q
  <2>2. 0 \notin {q.after, q.releaseIn, q.leaveIn}
    BY <1>2, <2>1 DEF Alike
  <2>3. /\ b \in Buttons /\ Holding(button, b) /\ b.overlay = button.overlay
        /\ b.pressed = button.pressed /\ b.repeating = button.repeating /\ b.bank = button.bank
        /\ b.releasePending = button.releasePending /\ b.after = Sooner(button.after)
        /\ b.run = Older(button.run) /\ b.releaseIn = Sooner(button.releaseIn)
    <3>1. /\ b \in Buttons /\ Holding(q, b) /\ b.overlay = q.overlay
          /\ b.pressed = q.pressed /\ b.repeating = q.repeating /\ b.bank = q.bank
          /\ b.releasePending = q.releasePending /\ b.after = Sooner(q.after)
          /\ b.run = Older(q.run) /\ b.releaseIn = Sooner(q.releaseIn)
      BY <1>2, <2>1, <2>2, TickDoes
    <3> QED
      BY <1>2, <3>1 DEF Alike, Holding, Settings
  <2>4. Older(Off) = Off /\ Sooner(Off) = Off
    BY DEF Older, Sooner
  <2>5. Paused' /\ CountIsRight' /\ RepeatsAreAsked' /\ BarMeansPressed'
    BY <1>1, <2>1, <2>3, <2>4 DEF Paused, CountIsRight, Answered, RepeatsAreAsked, BarMeansPressed,
                                  Holding, Settings
  <2>6. Counting => Counting'
    <3>1. ASSUME Counting PROVE Counting'
      <4>1. /\ finger = "on" /\ contact /\ button.pressed /\ ~button.releasePending /\ button.run # Off
            /\ button.bank + button.run = touched /\ button.after = HoldThreshold - touched
            /\ touched <= HoldThreshold /\ button.after # 0
            /\ button.bank \in 0 .. Late /\ button.run \in Off .. Late
        BY <1>1, <2>1, <3>1 DEF Counting, Buttons
      <4>2. /\ touched' = touched + 1 /\ Older(button.run) = button.run + 1
            /\ Sooner(button.after) = button.after - 1 /\ touched + 1 <= HoldThreshold
            /\ button.run + 1 # Off
        BY <1>1, <2>1, <4>1, Times DEF Older, Sooner, Off, Late
      <4>3. /\ button.bank + (button.run + 1) = touched + 1
            /\ button.after - 1 = HoldThreshold - (touched + 1)
        BY <1>1, <4>1, Times DEF Off, Late
      <4> QED
        BY <2>1, <2>3, <4>1, <4>2, <4>3 DEF Counting
    <3> QED
      BY <3>1
  <2>7. Waiting => Waiting'
    <3>1. button.releaseIn \in Int /\ button.releaseIn # 0
      BY <1>1, <2>1, Times DEF Buttons, Off
    <3>2. button.releaseIn # 1 => Sooner(button.releaseIn) # 0
      BY <3>1 DEF Sooner, Off
    <3> QED
      BY <2>1, <2>3, <3>2 DEF Waiting
  <2>8. touched >= HoldThreshold => touched' >= HoldThreshold
    BY <1>1, <2>1, Times DEF Older, Late, Off
  <2>9. TimeIsKept'
    BY <1>1, <2>1, <2>3, <2>6, <2>7, <2>8 DEF TimeIsKept, Holding, Settings
  <2> QED
    BY <1>1, <1>4, <2>1, <2>3, <2>5, <2>9
<1> QED
  BY <1>8, <1>10, <1>11, <1>12, <1>13, <1>14, <1>15, <1>16, <1>17, <1>18, <1>19 DEF HoldNext

LEMMA EntitledHolds == HoldSpec => []Entitled
<1>1. Entitled /\ UNCHANGED holdVars => Entitled'
  BY DEF Entitled, holdVars, HoldTypeOK, TimeIsKept, Counting, Waiting, Paused, CountIsRight, Answered,
         RepeatsAreAsked, BarMeansPressed
<1> QED
  BY <1>1, EntitledInit, EntitledStep, PTL DEF HoldSpec

\* The fields of the button keep their types, for any times and any acts of the host.
THEOREM HoldTypeCorrect == HoldSpec => []HoldTypeOK
<1>1. Entitled => HoldTypeOK
  BY DEF Entitled
<1> QED
  BY <1>1, EntitledHolds, PTL

\* For any times, any jitter of the touch stream and any acts of the host: a hold takes
\* exactly its threshold of contact, a press is answered once unless the button ignored a
\* press meanwhile, and the bar is up only while a press is in progress (HoldButton).
THEOREM HoldIsSafe == HoldSpec => []HoldSafety
<1>1. Entitled => HoldSafety
  <2> SUFFICES ASSUME Entitled PROVE HoldSafety
    OBVIOUS
  <2>1. touched \in 0 .. Late
    BY DEF Entitled, HoldTypeOK
  <2>2. JitterKeepsTheHold
    BY <2>1, Times DEF Entitled, TimeIsKept, Counting, Waiting, JitterKeepsTheHold, Late
  <2> QED
    BY <2>2 DEF Entitled, CountIsRight, AnsweredOnce, HoldSafety
<1> QED
  BY <1>1, EntitledHolds, PTL

-----------------------------------------------------------------------------
(* Functions computed key by key *)

LEMMA NatMin ==
  ASSUME NEW T \in SUBSET Nat, T # {}
  PROVE \E x \in T : \A y \in T : x <= y
<1>1. \E R : IsWellFoundedOn(R, Nat) /\ \A x, y \in Nat : x < y => <<x, y>> \in R
  <2>1. IsWellFoundedOn(OpToRel(<,Nat), Nat)
    BY NatLessThanWellFounded
  <2>2. \A x, y \in Nat : x < y => <<x, y>> \in OpToRel(<,Nat)
    BY Zenon DEF OpToRel
  <2> WITNESS OpToRel(<,Nat)
  <2> QED
    BY <2>1, <2>2
<1>2. PICK R : IsWellFoundedOn(R, Nat) /\ \A x, y \in Nat : x < y => <<x, y>> \in R
  BY <1>1
<1>0. T \subseteq Nat
  OBVIOUS
<1>a. IsWellFoundedOn(R, Nat)
  BY <1>2
<1>3. PICK x \in T : \A y \in T : ~ (<<y, x>> \in R)
  BY <1>0, <1>a, WFMin
<1>4. \A y \in T : x <= y
  <2> TAKE y \in T
  <2>1. x \in Nat /\ y \in Nat
    BY <1>0
  <2>2. ~(y < x)
    BY <1>2, <1>3, <2>1
  <2> QED
    BY <2>1, <2>2
<1> QED BY <1>4

\* Induction: a set of numbers with 0 and with every successor up to N has all of them.
LEMMA UpTo ==
  ASSUME NEW N \in Nat, NEW P, 0 \in P, \A n \in 0 .. N : n # 0 /\ n - 1 \in P => n \in P
  PROVE  \A n \in 0 .. N : n \in P
<1> DEFINE T == {n \in 0 .. N : n \notin P}
<1> SUFFICES ASSUME T # {} PROVE FALSE
  OBVIOUS
<1>1. T \in SUBSET Nat
  OBVIOUS
<1>2. PICK x \in T : \A y \in T : x <= y
  BY <1>1, NatMin
<1>3. x \in 0 .. N /\ x # 0 /\ x \notin P
  OBVIOUS
<1>4. x - 1 \in 0 .. N /\ ~(x <= x - 1)
  BY <1>3
<1>5. x - 1 \notin T
  BY <1>2, <1>4
<1> QED
  BY <1>3, <1>4, <1>5

-----------------------------------------------------------------------------
\* A function can be built step by step: R holds the steps, from X to X.
Steppable(N, X, base, R) ==
  N \in Nat /\ base \in X /\ \A i \in 1 .. N : \A x \in X : \E y \in X : <<i, x, y>> \in R

LEMMA StepByStep ==
  ASSUME NEW N, NEW X, NEW base, NEW R, Steppable(N, X, base, R)
  PROVE  \E f \in [0 .. N -> X] : f[0] = base /\ \A i \in 1 .. N : <<i, f[i - 1], f[i]>> \in R
<1>0. N \in Nat /\ base \in X /\ \A i \in 1 .. N : \A x \in X : \E y \in X : <<i, x, y>> \in R
  BY DEF Steppable
<1> USE <1>0
<1> DEFINE F(f, n) == /\ f \in [0 .. n -> X] /\ f[0] = base
                      /\ \A i \in 1 .. n : <<i, f[i - 1], f[i]>> \in R
           P == {n \in 0 .. N : \E f : F(f, n)}
<1>1. 0 \in P
  <2>1. F([i \in 0 .. 0 |-> base], 0)
    OBVIOUS
  <2>2. \E f : F(f, 0)
    BY <2>1
  <2> HIDE DEF F
  <2> QED
    BY <2>2
<1>2. ASSUME NEW n \in 0 .. N, n # 0, n - 1 \in P PROVE n \in P
  <2>1. PICK f : F(f, n - 1)
    BY <1>2
  <2>2. n \in 1 .. N /\ n - 1 \in 0 .. n - 1 /\ 0 \in 0 .. n - 1
    BY <1>2
  <2>3. PICK y \in X : <<n, f[n - 1], y>> \in R
    BY <2>1, <2>2
  <2> DEFINE g == [i \in 0 .. n |-> IF i = n THEN y ELSE f[i]]
  <2>4. g \in [0 .. n -> X] /\ g[0] = base /\ g[n] = y /\ \A i \in 0 .. n - 1 : g[i] = f[i]
    BY <2>1, <2>2
  <2> HIDE DEF g
  <2>5. \A i \in 1 .. n : <<i, g[i - 1], g[i]>> \in R
    <3> TAKE i \in 1 .. n
    <3>1. CASE i = n
      BY <2>2, <2>3, <2>4, <3>1
    <3>2. CASE i # n
      <4>1. i \in 1 .. n - 1 /\ i \in 0 .. n - 1 /\ i - 1 \in 0 .. n - 1
        BY <2>2, <3>2
      <4> QED
        BY <2>1, <2>4, <4>1
    <3> QED
      BY <3>1, <3>2
  <2>6. \E h : F(h, n)
    BY <2>4, <2>5
  <2> HIDE DEF F
  <2> QED
    BY <2>6
<1>3. N \in P
  <2> HIDE DEF P
  <2>1. \A n \in 0 .. N : n # 0 /\ n - 1 \in P => n \in P
    BY <1>2
  <2>2. \A n \in 0 .. N : n \in P
    BY <1>1, <2>1, UpTo
  <2> QED
    BY <2>2
<1>4. PICK f : F(f, N)
  BY <1>3
<1> QED
  BY <1>4


-----------------------------------------------------------------------------
Known == Roster \cup {NoMotive}
Queues == [deque : Seq(Keys), keypress : BOOLEAN, eol : BOOLEAN, clear : BOOLEAN, digit : BOOLEAN]
Sents == [to : Addresses, among : SUBSET (Roster \cup {NoMotive, Unaddressed})]

\* HandTypeOK in groups.
KeyTypes ==
  /\ keyQueue \in Queues /\ key \in Keys \cup {"none"}
  /\ typed \in Seq(Digits) /\ entered \in Seq(Digits) /\ keysLeft \in 0 .. KeyPresses
ChoiceTypes ==
  /\ scope \in HandScopes /\ tmccId \in Seq(Digits) /\ found \in BOOLEAN
  /\ motives \in Seq(Roster) /\ Len(motives) <= NumLasts /\ IsInjective(motives)
BindTypes ==
  /\ chosen \in Known /\ leaving \in Known /\ toBind \subseteq HandButtons
  /\ address \in [Syntaxes -> [HandButtons -> Addresses]] /\ half \in toBind \cup {"none"}
  /\ bound \in [HandButtons -> Syntaxes \cup {"none"}]
PressTypes ==
  /\ fingers \subseteq HandButtons /\ presses \in Seq(HandPress)
  /\ answering \in HandPress \cup {NoPress}
  /\ sentTo \in Sents /\ pressesLeft \in 0 .. ButtonPresses
Places == {"wait", "woken", "decide", "bind", "dead"}

\* What is chosen is in the store; buttons are bound only in update_engine.
Choosing ==
  /\ found => <<scope, tmccId>> \in Roster
  /\ hPc = "bind" => found /\ chosen = <<scope, tmccId>>
  /\ hPc # "bind" => toBind = {} /\ leaving = NoMotive
\* A press that is being answered has the command it found.
Found == answering # NoPress => answering.syntax \in Syntaxes

HandTypes ==
  KeyTypes /\ ChoiceTypes /\ BindTypes /\ PressTypes /\ hPc \in Places /\ Choosing /\ Found

LEMMA HandTypesMean == HandTypes => HandTypeOK
BY DEF HandTypes, HandTypeOK, KeyTypes, ChoiceTypes, BindTypes, PressTypes, Known, Queues, Sents, Places

LEMMA Names ==
  /\ HandButtons \subseteq {"forward", "boost", "bell", "startUp", "shutdown", "aux1"}
  /\ "none" \notin HandButtons
  /\ \A s \in Syntaxes : Entered(s) \subseteq HandButtons
  /\ \A m : SyntaxOf(m) \in Syntaxes
  /\ Unaddressed \in Addresses
  /\ \A m \in Roster : /\ m[1] \in HandScopes /\ m[2] \in Seq(Digits) /\ m = <<m[1], m[2]>>
                       /\ m # NoMotive /\ m \in Addresses
  /\ \A a \in Addresses, m \in Roster : <<a[1], m[2]>> \in Addresses
<1>1. DOMAIN Tmcc2Table = {"forward", "boost", "bell", "startUp", "shutdown", "aux1"}
  BY DEF Tmcc2Table
<1>2. HandButtons \subseteq DOMAIN Tmcc2Table
  BY HandAssumption
<1>3. \A s \in Syntaxes : Entered(s) \subseteq HandButtons
  BY DEF Entered
<1>4. \A m : SyntaxOf(m) \in Syntaxes
  BY DEF SyntaxOf, Syntaxes
<1>5. Roster \subseteq HandScopes \X Seq(Digits) /\ NoMotive \notin Roster
  BY HandAssumption
<1>6. \A m \in Roster : /\ m[1] \in HandScopes /\ m[2] \in Seq(Digits) /\ m = <<m[1], m[2]>>
  BY <1>5
<1>7. Unaddressed = <<Unaddressed[1], Unaddressed[2]>>
  BY DEF Unaddressed
<1>8. \A m \in Roster \cup {Unaddressed} : m \in Addresses
  BY <1>6, <1>7 DEF Addresses
<1>9. ASSUME NEW a \in Addresses, NEW m \in Roster PROVE <<a[1], m[2]>> \in Addresses
  <2>1. PICK x \in Roster \cup {Unaddressed}, y \in Roster \cup {Unaddressed} : a = <<x[1], y[2]>>
    BY DEF Addresses
  <2>2. <<a[1], m[2]>> = <<x[1], m[2]>>
    BY <2>1
  <2> QED
    BY <2>2 DEF Addresses
<1> QED
  BY <1>1, <1>2, <1>3, <1>4, <1>5, <1>6, <1>8, <1>9

LEMMA Joined ==
  ASSUME NEW m \in Roster, NEW p \in HandPress
  PROVE  LET q == [p EXCEPT !.among = @ \cup {m}] IN
         /\ q \in HandPress /\ q.button = p.button /\ q.syntax = p.syntax /\ q.at = p.at
         /\ q.among = p.among \cup {m}
BY DEF HandPress

LEMMA AllJoined ==
  ASSUME NEW m \in Roster, presses \in Seq(HandPress)
  PROVE  LET ps == [i \in DOMAIN presses |-> [presses[i] EXCEPT !.among = @ \cup {m}]] IN
         /\ ps \in Seq(HandPress) /\ Len(ps) = Len(presses)
         /\ \A i \in 1 .. Len(presses) : ps[i].among = presses[i].among \cup {m}
<1>1. \A i \in 1 .. Len(presses) : presses[i] \in HandPress
  OBVIOUS
<1>2. DOMAIN presses = 1 .. Len(presses) /\ Len(presses) \in Nat
  OBVIOUS
<1> DEFINE ps == [i \in DOMAIN presses |-> [presses[i] EXCEPT !.among = @ \cup {m}]]
<1>3. \A i \in 1 .. Len(presses) : ps[i] \in HandPress /\ ps[i].among = presses[i].among \cup {m}
  BY <1>1, <1>2, Joined
<1>4. ps = [i \in 1 .. Len(presses) |-> ps[i]]
  BY <1>2
<1> HIDE DEF ps
<1>5. ps \in Seq(HandPress) /\ Len(ps) = Len(presses)
  BY <1>2, <1>3, <1>4
<1> QED
  BY <1>3, <1>5 DEF ps

LEMMA NoPressIsNone == NoPress \notin HandPress
BY Names DEF NoPress, HandPress

LEMMA Updated ==
  ASSUME HandTypes, hPc = "decide", NEW s \in HandScopes, NEW id \in Seq(Digits), NEW queue \in Queues,
         UpdateMotive(s, id, queue), key' = key, typed' = typed, entered' = entered, keysLeft' = keysLeft,
         motives' \in Seq(Roster), Len(motives') <= NumLasts, IsInjective(motives')
  PROVE  HandTypes'
<1>1. scope' = s /\ tmccId' = id
  BY DEF UpdateMotive
<1>2. UNCHANGED <<address, half, bound, fingers, sentTo, pressesLeft>>
  BY DEF UpdateMotive
<1>3. toBind = {} /\ half = "none" /\ leaving = NoMotive
  BY DEF HandTypes, Choosing, BindTypes
<1>4. CASE <<s, id>> \in Roster
  <2>1. /\ found' = TRUE /\ leaving' = chosen /\ chosen' = <<s, id>>
        /\ toBind' = Entered(SyntaxOf(<<s, id>>)) /\ keyQueue' = queue /\ hPc' = "bind"
    BY <1>4 DEF UpdateMotive
  <2>2. presses' \in Seq(HandPress)
    <3>1. presses' = [i \in DOMAIN presses |-> [presses[i] EXCEPT !.among = @ \cup {<<s, id>>}]]
      BY <1>4 DEF UpdateMotive
    <3>2. presses \in Seq(HandPress)
      BY DEF HandTypes, PressTypes
    <3> QED
      BY ONLY <1>4, <3>1, <3>2, AllJoined
  <2>3. /\ answering' \in HandPress \cup {NoPress}
        /\ answering' # NoPress => answering'.syntax \in Syntaxes
    <3>1. answering' = IF answering = NoPress THEN NoPress
                       ELSE [answering EXCEPT !.among = @ \cup {<<s, id>>}]
      BY <1>4 DEF UpdateMotive
    <3>2. answering \in HandPress \cup {NoPress} /\ (answering # NoPress => answering.syntax \in Syntaxes)
      BY DEF HandTypes, PressTypes, Found
    <3> QED
      BY <1>4, <3>1, <3>2, Joined
  <2>4. toBind' \subseteq HandButtons
    BY <2>1, Names
  <2>5. BindTypes'
    BY <1>2, <1>3, <1>4, <2>1, <2>4 DEF BindTypes, HandTypes, Known
  <2>6. PressTypes'
    BY <1>2, <2>2, <2>3 DEF PressTypes, HandTypes
  <2>7. KeyTypes' /\ ChoiceTypes'
    BY <1>1, <2>1 DEF HandTypes, KeyTypes, ChoiceTypes
  <2>8. Choosing' /\ hPc' \in Places
    BY <1>1, <1>4, <2>1 DEF Choosing, Places
  <2> QED
    BY <2>3, <2>5, <2>6, <2>7, <2>8 DEF HandTypes, Found
<1>5. CASE <<s, id>> \notin Roster
  <2>1. /\ found' = FALSE /\ keyQueue' = NoKeys /\ hPc' = "wait"
        /\ UNCHANGED <<chosen, leaving, toBind, presses, answering>>
    BY <1>5 DEF UpdateMotive
  <2>2. NoKeys \in Queues
    BY DEF NoKeys, Queues
  <2>3. KeyTypes' /\ ChoiceTypes'
    BY <1>1, <2>1, <2>2 DEF HandTypes, KeyTypes, ChoiceTypes
  <2>4. BindTypes' /\ PressTypes' /\ Found'
    BY <1>2, <2>1 DEF HandTypes, BindTypes, PressTypes, Found
  <2>5. Choosing' /\ hPc' \in Places
    BY <1>3, <2>1 DEF Choosing, Places
  <2> QED
    BY <2>3, <2>4, <2>5 DEF HandTypes
<1> QED
  BY <1>4, <1>5

-----------------------------------------------------------------------------
\* What key_presses leaves of the deque.
LEMMA KeptAre ==
  ASSUME NEW s \in Seq(Keys)
  PROVE  /\ KeysRead(s)[0] = <<>>
         /\ \A n \in 1 .. Len(s) : KeysRead(s)[n] = KeysRead(s)[n - 1] \o KeyRead(s[n])
         /\ \A n \in 0 .. Len(s) : KeysRead(s)[n] \in Seq(Digits \cup ScopeKeys)
<1> DEFINE N == Len(s)
           X == Seq(Digits \cup ScopeKeys)
           F(f) == f = [i \in 0 .. N |-> IF i = 0 THEN <<>> ELSE f[i - 1] \o KeyRead(s[i])]
           R == {t \in Nat \X X \X X : t[3] = t[2] \o KeyRead(s[t[1]])}
<1>0. N \in Nat /\ \A i \in 1 .. N : s[i] \in Keys
  OBVIOUS
<1>1. N \in Nat /\ \A i \in 1 .. N : KeyRead(s[i]) \in X
  <2>1. ASSUME NEW k \in Keys PROVE KeyRead(k) \in X
    <3>1. CASE k \in OtherKeys
      BY <3>1 DEF KeyRead
    <3>2. CASE k \notin OtherKeys
      <4>1. k \in Digits \cup ScopeKeys
        BY <3>2 DEF Keys
      <4>2. KeyRead(k) = <<k>>
        BY <3>2 DEF KeyRead
      <4> QED
        BY <4>1, <4>2
    <3> QED
      BY <3>1, <3>2
  <2> HIDE DEF X
  <2> QED
    BY <1>0, <2>1
<1>a. <<>> \in X /\ \A x, y \in X : x \o y \in X
  OBVIOUS
<1>2. \E f : F(f)
  <2>1. \A i \in 1 .. N : \A x \in X : \E y \in X : <<i, x, y>> \in R
    <3> TAKE i \in 1 .. N
    <3> TAKE x \in X
    <3> HIDE DEF X
    <3>1. x \o KeyRead(s[i]) \in X /\ i \in Nat
      BY <1>1, <1>a
    <3> QED
      BY <3>1
  <2> HIDE DEF R, X
  <2>3. \E f \in [0 .. N -> X] : f[0] = <<>> /\ \A i \in 1 .. N : <<i, f[i - 1], f[i]>> \in R
    <3>1. Steppable(N, X, <<>>, R)
      BY <1>1, <1>a, <2>1 DEF Steppable
    <3> HIDE DEF N
    <3> QED
      BY <3>1, StepByStep
  <2>4. PICK f \in [0 .. N -> X] : f[0] = <<>> /\ \A i \in 1 .. N : <<i, f[i - 1], f[i]>> \in R
    BY <2>3
  <2> HIDE DEF N
  <2>5. \A i \in 0 .. N : f[i] = IF i = 0 THEN <<>> ELSE f[i - 1] \o KeyRead(s[i])
    <3> TAKE i \in 0 .. N
    <3>1. CASE i = 0
      BY <2>4, <3>1
    <3>2. CASE i # 0
      <4>1. i \in 1 .. N
        BY <1>1, <3>2
      <4>2. <<i, f[i - 1], f[i]>> \in R
        BY <2>4, <4>1
      <4> QED
        BY <3>2, <4>2 DEF R
    <3> QED
      BY <3>1, <3>2
  <2>6. F(f)
    BY <2>4, <2>5
  <2> QED
    BY <2>6
<1>3. KeysRead(s) = CHOOSE f : F(f)
  BY Zenon DEF KeysRead
<1>4. F(KeysRead(s))
  BY Zenon, <1>2, <1>3
<1> HIDE DEF N
<1>5. \A i \in 0 .. N : KeysRead(s)[i] = IF i = 0 THEN <<>> ELSE KeysRead(s)[i - 1] \o KeyRead(s[i])
  BY <1>4
<1>6. KeysRead(s)[0] = <<>> /\ \A n \in 1 .. N : KeysRead(s)[n] = KeysRead(s)[n - 1] \o KeyRead(s[n])
  <2>1. KeysRead(s)[0] = <<>>
    <3>1. 0 \in 0 .. N
      BY ONLY <1>1
    <3>2. KeysRead(s)[0] = IF 0 = 0 THEN <<>> ELSE KeysRead(s)[0 - 1] \o KeyRead(s[0])
      BY ONLY <1>5, <3>1
    <3> QED
      BY ONLY <3>2
  <2>2. ASSUME NEW n \in 1 .. N PROVE KeysRead(s)[n] = KeysRead(s)[n - 1] \o KeyRead(s[n])
    <3>1. n \in 0 .. N /\ n # 0
      BY <1>1
    <3> QED
      BY <1>5, <3>1
  <2> QED
    BY <2>1, <2>2
<1>7. \A n \in 0 .. N : KeysRead(s)[n] \in X
  <2> HIDE DEF X
  <2> DEFINE P == {n \in 0 .. N : KeysRead(s)[n] \in X}
  <2>1. 0 \in P
    BY <1>1, <1>6, <1>a
  <2>2. \A n \in 0 .. N : n # 0 /\ n - 1 \in P => n \in P
    <3> SUFFICES ASSUME NEW n \in 0 .. N, n # 0, n - 1 \in P PROVE n \in P
      OBVIOUS
    <3>1. n \in 1 .. N
      BY <1>1
    <3>2. KeysRead(s)[n] = KeysRead(s)[n - 1] \o KeyRead(s[n])
      BY <1>6, <3>1
    <3> QED
      BY <1>1, <1>a, <3>1, <3>2
  <2> HIDE DEF P
  <2>3. \A n \in 0 .. N : n \in P
    BY <1>1, <2>1, <2>2, UpTo
  <2> QED
    BY <2>3 DEF P
<1> QED
  BY <1>6, <1>7 DEF N

Left(s) == KeysRead(s)[Len(s)]

LEMMA LeftIs ==
  /\ Left(<<>>) = <<>>
  /\ \A s \in Seq(Keys) : Left(s) \in Seq(Digits \cup ScopeKeys)
<1>1. <<>> \in Seq(Keys) /\ Len(<<>>) = 0
  OBVIOUS
<1>2. \A s \in Seq(Keys) : Len(s) \in 0 .. Len(s)
  OBVIOUS
<1> QED
  BY <1>1, <1>2, KeptAre DEF Left

\* One key more.
LEMMA LeftGrows ==
  ASSUME NEW s \in Seq(Keys), NEW k \in Keys
  PROVE  Left(Append(s, k)) = Left(s) \o KeyRead(k)
<1> DEFINE N == Len(s)
           t == Append(s, k)
<1>1. N \in Nat /\ t \in Seq(Keys) /\ Len(t) = N + 1 /\ t[N + 1] = k /\ \A i \in 1 .. N : t[i] = s[i]
  OBVIOUS
<1> HIDE DEF t
<1>2. KeysRead(s)[0] = <<>> /\ \A n \in 1 .. N : KeysRead(s)[n] = KeysRead(s)[n - 1] \o KeyRead(s[n])
  BY KeptAre
<1>3. KeysRead(t)[0] = <<>> /\ \A n \in 1 .. N + 1 : KeysRead(t)[n] = KeysRead(t)[n - 1] \o KeyRead(t[n])
  BY <1>1, KeptAre
<1> HIDE DEF N
<1> DEFINE P == {n \in 0 .. N : KeysRead(t)[n] = KeysRead(s)[n]}
<1>4. 0 \in P
  BY <1>1, <1>2, <1>3
<1>5. \A n \in 0 .. N : n # 0 /\ n - 1 \in P => n \in P
  <2> SUFFICES ASSUME NEW n \in 0 .. N, n # 0, n - 1 \in P PROVE n \in P
    OBVIOUS
  <2>1. n \in 1 .. N /\ n \in 1 .. N + 1
    BY <1>1
  <2>2. KeysRead(t)[n] = KeysRead(t)[n - 1] \o KeyRead(t[n])
    BY <1>3, <2>1
  <2>3. KeysRead(s)[n] = KeysRead(s)[n - 1] \o KeyRead(s[n])
    BY <1>2, <2>1
  <2>4. t[n] = s[n]
    BY <1>1, <2>1
  <2> QED
    BY <2>2, <2>3, <2>4
<1> HIDE DEF P
<1>6. \A n \in 0 .. N : n \in P
  BY <1>1, <1>4, <1>5, UpTo
<1>7. KeysRead(t)[N] = KeysRead(s)[N]
  BY <1>1, <1>6 DEF P
<1>8. N + 1 \in 1 .. N + 1 /\ (N + 1) - 1 = N
  BY <1>1
<1>9. KeysRead(t)[N + 1] = KeysRead(t)[N] \o KeyRead(t[N + 1])
  BY <1>3, <1>8
<1>10. KeysRead(t)[N + 1] = KeysRead(s)[N] \o KeyRead(k)
  BY <1>1, <1>7, <1>9
<1>11. Left(t) = KeysRead(t)[N + 1] /\ Left(s) = KeysRead(s)[N]
  BY <1>1 DEF Left, N
<1> QED
  BY <1>10, <1>11 DEF t

-----------------------------------------------------------------------------
\* UniqueDeque.push keeps the motives apart, and no more of them than it may.
LEMMA Behind ==
  ASSUME NEW S, NEW q \in Seq(S), NEW x \in 1 .. Len(q), NEW b, b = SubSeq(q, x + 1, Len(q))
  PROVE  b \in Seq(S) /\ Len(b) = Len(q) - x /\ \A i \in 1 .. Len(q) - x : b[i] = q[x + i]
<1>0. Len(q) \in Nat /\ x \in Nat /\ \A i \in 1 .. Len(q) : q[i] \in S
  OBVIOUS
<1>1. CASE x = Len(q)
  <2>1. b = <<>>
    BY <1>0, <1>1
  <2>2. b \in Seq(S) /\ Len(b) = 0
    BY ONLY <2>1
  <2> QED
    BY <1>0, <1>1, <2>2
<1>2. CASE x # Len(q)
  <2>1. b = [i \in 1 .. Len(q) - x |-> q[x + i]]
    BY <1>0, <1>2
  <2>2. \A i \in 1 .. Len(q) - x : x + i \in 1 .. Len(q)
    BY <1>0
  <2>3. Len(q) - x \in Nat
    BY <1>0
  <2> QED
    BY ONLY <1>0, <2>1, <2>2, <2>3
<1> QED
  BY <1>1, <1>2

LEMMA Joining ==
  ASSUME NEW S, NEW a \in Seq(S), NEW b \in Seq(S)
  PROVE  a \o b \in Seq(S) /\ Len(a \o b) = Len(a) + Len(b)
OBVIOUS

LEMMA Unlisted ==
  ASSUME NEW S, NEW q \in Seq(S), IsInjective(q), NEW m, NEW r, r = RemoveFirst(q, m)
  PROVE  r \in Seq(S) /\ IsInjective(r) /\ Len(r) <= Len(q) /\ \A i \in 1 .. Len(r) : r[i] # m
<1>0. Len(q) \in Nat /\ DOMAIN q = 1 .. Len(q)
  OBVIOUS
<1>1. CASE ~ \E i \in 1 .. Len(q) : q[i] = m
  BY <1>0, <1>1 DEF RemoveFirst
<1>2. CASE \E i \in 1 .. Len(q) : q[i] = m
  <2> DEFINE x == SelectInSeq(q, LAMBDA v : v = m)
  <2>1. r = RemoveAt(q, x)
    BY <1>2 DEF RemoveFirst
  <2>2. x \in 1 .. Len(q) /\ q[x] = m
    <3> DEFINE I == {i \in 1 .. Len(q) : q[i] = m}
    <3>1. I \in SUBSET Nat /\ I # {}
      BY <1>0, <1>2
    <3>2. PICK y \in I : \A z \in I : y <= z
      BY <3>1, NatMin
    <3>3. x = IF I # {} THEN Min(I) ELSE 0
      BY DEF SelectInSeq
    <3>4. Min(I) \in I
      <4> HIDE DEF I
      <4> QED
        BY <3>2 DEF Min
    <3> QED
      BY <3>1, <3>3, <3>4
  <2> HIDE DEF x
  <2>3. r = SubSeq(q, 1, x - 1) \o SubSeq(q, x + 1, Len(q))
    BY <2>1 DEF RemoveAt
  <2> DEFINE a == SubSeq(q, 1, x - 1)
             b == SubSeq(q, x + 1, Len(q))
  <2>4. a \in Seq(S) /\ Len(a) = x - 1 /\ \A i \in 1 .. x - 1 : a[i] = q[i]
    BY <1>0, <2>2
  <2>5. b \in Seq(S) /\ Len(b) = Len(q) - x /\ \A i \in 1 .. Len(q) - x : b[i] = q[x + i]
    BY <2>2, Behind
  <2> HIDE DEF a, b
  <2>6. r \in Seq(S) /\ Len(r) = Len(q) - 1
    <3>1. r = a \o b
      BY <2>3 DEF a, b
    <3>2. r \in Seq(S) /\ Len(r) = Len(a) + Len(b)
      BY <2>4, <2>5, <3>1, Joining
    <3> QED
      BY <1>0, <2>2, <2>4, <2>5, <3>2
  <2> DEFINE g(i) == IF i < x THEN i ELSE i + 1
  <2>7. \A i \in 1 .. Len(r) : r[i] = q[g(i)] /\ g(i) \in 1 .. Len(q) /\ g(i) # x
    <3> TAKE i \in 1 .. Len(r)
    <3>1. r = a \o b
      BY <2>3 DEF a, b
    <3>2. CASE i < x
      <4>1. i \in 1 .. Len(a)
        BY <1>0, <2>2, <2>4, <3>2
      <4>2. r[i] = a[i]
        BY <2>4, <2>5, <3>1, <4>1
      <4> QED
        BY <1>0, <2>2, <2>4, <2>6, <3>2, <4>1, <4>2
    <3>3. CASE ~(i < x)
      <4>1. i - Len(a) \in 1 .. Len(b) /\ i - Len(a) = i - x + 1
        BY <1>0, <2>2, <2>4, <2>5, <2>6, <3>3
      <4>2. r[i] = b[i - Len(a)]
        BY <2>4, <2>5, <3>1, <4>1
      <4>3. r[i] = b[i - x + 1]
        BY <4>1, <4>2
      <4>4. i - x + 1 \in 1 .. Len(q) - x
        BY <2>5, <4>1
      <4>5. b[i - x + 1] = q[x + (i - x + 1)]
        BY <2>5, <4>4
      <4>6. x + (i - x + 1) = i + 1
        BY <1>0, <2>2, <2>6
      <4> QED
        BY <1>0, <2>2, <2>6, <3>3, <4>3, <4>5, <4>6
    <3> QED
      BY <3>2, <3>3
  <2>8. \A i, j \in 1 .. Len(r) : g(i) = g(j) => i = j
    BY <1>0, <2>2, <2>6
  <2> HIDE DEF g
  <2>9. \A i, j \in 1 .. Len(q) : q[i] = q[j] => i = j
    BY <1>0 DEF IsInjective
  <2>10. \A i \in 1 .. Len(r) : r[i] # m
    <3> TAKE i \in 1 .. Len(r)
    <3>1. r[i] = q[g(i)] /\ g(i) \in 1 .. Len(q) /\ g(i) # x
      BY <2>7
    <3> QED
      BY <2>2, <2>9, <3>1
  <2>11. \A i, j \in 1 .. Len(r) : r[i] = r[j] => i = j
    <3> TAKE i, j \in 1 .. Len(r)
    <3>1. r[i] = q[g(i)] /\ g(i) \in 1 .. Len(q)
      BY <2>7
    <3>2. r[j] = q[g(j)] /\ g(j) \in 1 .. Len(q)
      BY <2>7
    <3> QED
      BY <2>8, <2>9, <3>1, <3>2
  <2>12. DOMAIN r = 1 .. Len(r)
    BY <2>6
  <2> QED
    BY <1>0, <2>6, <2>10, <2>11, <2>12 DEF IsInjective
<1> QED
  BY <1>1, <1>2

LEMMA PushedIs ==
  ASSUME ChoiceTypes, NEW m \in Roster
  PROVE  Pushed(m) \in Seq(Roster) /\ Len(Pushed(m)) <= NumLasts /\ IsInjective(Pushed(m))
<1> DEFINE others == RemoveFirst(motives, m)
           n == IF Len(others) < NumLasts THEN Len(others) + 1 ELSE NumLasts
           all == <<m>> \o others
<1>1. /\ others \in Seq(Roster) /\ IsInjective(others)
      /\ \A i \in 1 .. Len(others) : others[i] # m
  BY Unlisted DEF ChoiceTypes
<1>2. NumLasts \in Nat /\ NumLasts > 0
  BY HandAssumption
<1> HIDE DEF others
<1>3. all \in Seq(Roster) /\ Len(all) = Len(others) + 1 /\ Len(others) \in Nat /\ all[1] = m
      /\ \A i \in 2 .. Len(all) : all[i] = others[i - 1]
  BY <1>1
<1>4. \A i, j \in 1 .. Len(all) : all[i] = all[j] => i = j
  <2> SUFFICES ASSUME NEW i \in 1 .. Len(all), NEW j \in 1 .. Len(all), all[i] = all[j] PROVE i = j
    OBVIOUS
  <2>1. \A h, k \in 1 .. Len(others) : others[h] = others[k] => h = k
    BY <1>1 DEF IsInjective
  <2> HIDE DEF all
  <2>2. \A h \in 2 .. Len(all) : h - 1 \in 1 .. Len(others) /\ all[h] # m
    <3> TAKE h \in 2 .. Len(all)
    <3>1. Len(all) = Len(others) + 1 /\ Len(others) \in Nat /\ all[h] = others[h - 1]
      BY <1>3
    <3>2. h - 1 \in 1 .. Len(others)
      BY ONLY <3>1
    <3> QED
      BY ONLY <1>1, <3>1, <3>2
  <2>3. CASE i = 1 \/ j = 1
    BY <1>3, <2>2, <2>3
  <2>4. CASE i # 1 /\ j # 1
    <3>1. i \in 2 .. Len(all) /\ j \in 2 .. Len(all)
      BY <1>3, <2>4
    <3>2. others[i - 1] = others[j - 1]
      BY <1>3, <3>1
    <3>3. i - 1 = j - 1
      BY <2>1, <2>2, <3>1, <3>2
    <3> QED
      BY <3>1, <3>3
  <2> QED
    BY <2>3, <2>4
<1>5. n \in 1 .. Len(all) /\ n <= NumLasts /\ n \in Nat
  BY <1>2, <1>3
<1> HIDE DEF all, n
<1> DEFINE r == SubSeq(all, 1, n)
<1>6. r \in Seq(Roster) /\ Len(r) = n /\ \A i \in 1 .. n : r[i] = all[i] /\ i \in 1 .. Len(all)
  BY <1>3, <1>5
<1>7. Pushed(m) = r
  BY DEF Pushed, others, all, n
<1> HIDE DEF r
<1>8. \A i, j \in 1 .. n : r[i] = r[j] => i = j
  BY <1>4, <1>6
<1>9. DOMAIN r = 1 .. n
  BY <1>6
<1> QED
  BY <1>5, <1>6, <1>7, <1>8, <1>9 DEF IsInjective

-----------------------------------------------------------------------------
LEMMA KeysStep ==
  ASSUME HandTypes, (\E k \in Keys : PressKey(k)) \/ KeyWakes \/ ForgetKeypress
  PROVE  HandTypes'
<1>1. UNCHANGED <<choiceVars, bindVars, pressVars>>
  BY DEF PressKey, KeyWakes, ForgetKeypress
<1>2. ChoiceTypes' /\ BindTypes' /\ PressTypes' /\ Found'
  BY <1>1 DEF HandTypes, ChoiceTypes, BindTypes, PressTypes, Found, choiceVars, bindVars, pressVars
<1>3. /\ keyQueue.deque \in Seq(Keys) /\ keyQueue \in Queues
      /\ typed \in Seq(Digits) /\ entered \in Seq(Digits) /\ hPc \in Places /\ Choosing
      /\ key \in Keys \cup {"none"} /\ keysLeft \in 0 .. KeyPresses
  BY DEF HandTypes, KeyTypes, Queues
<1>4. ASSUME NEW k \in Keys, PressKey(k) PROVE KeyTypes' /\ hPc' = hPc
  <2>1. keyQueue' \in Queues
    <3>1. Append(keyQueue.deque, k) \in Seq(Keys) /\ <<>> \in Seq(Keys)
      BY <1>3
    <3>2. keyQueue.digit \in BOOLEAN
      BY <1>3 DEF Queues
    <3> QED
      BY <1>3, <1>4, <3>1, <3>2 DEF PressKey, Queues
  <2>2. typed' \in Seq(Digits)
    <3>1. k \in Digits => <<k>> \in Seq(Digits) /\ Append(typed, k) \in Seq(Digits)
      BY <1>3
    <3> QED
      BY <1>3, <1>4, <3>1 DEF PressKey
  <2>3. entered' \in Seq(Digits)
    BY <1>3, <1>4 DEF PressKey
  <2>4. keysLeft' \in 0 .. KeyPresses
    BY <1>3, <1>4, HandAssumption DEF PressKey
  <2>5. key' = key /\ hPc' = hPc
    BY <1>4 DEF PressKey
  <2> QED
    BY <1>3, <2>1, <2>2, <2>3, <2>4, <2>5 DEF KeyTypes
<1>5. ASSUME KeyWakes PROVE KeyTypes' /\ hPc = "wait" /\ hPc' = "woken"
  <2>1. keyQueue.deque # <<>> => Last(keyQueue.deque) \in Keys
    BY <1>3 DEF Last
  <2>2. key' \in Keys \cup {"none"}
    BY <1>5, <2>1 DEF KeyWakes
  <2> QED
    BY <1>3, <1>5, <2>2 DEF KeyWakes, KeyTypes
<1>6. ASSUME ForgetKeypress PROVE KeyTypes' /\ hPc = "woken" /\ hPc' = "decide"
  <2>1. keyQueue' \in Queues
    BY <1>3, <1>6 DEF ForgetKeypress, Queues
  <2> QED
    BY <1>3, <1>6, <2>1 DEF ForgetKeypress, KeyTypes
<1>7. KeyTypes' /\ (hPc' = hPc \/ (hPc \in {"wait", "woken"} /\ hPc' \in {"woken", "decide"}))
  BY <1>4, <1>5, <1>6
<1>8. Choosing' /\ hPc' \in Places
  BY <1>1, <1>3, <1>7 DEF Choosing, Places, choiceVars, bindVars
<1> QED
  BY <1>2, <1>7, <1>8 DEF HandTypes

\* A step of Decide that binds nothing.
LEMMA NothingBound ==
  ASSUME HandTypes, hPc = "decide", hPc' \in Places \ {"bind"}, ChoiceTypes', keyQueue' \in Queues,
         UNCHANGED <<bindVars, pressVars>>, UNCHANGED <<key, typed, entered, keysLeft>>,
         found' => <<scope', tmccId'>> \in Roster
  PROVE  HandTypes'
<1>1. KeyTypes'
  BY DEF HandTypes, KeyTypes
<1>2. BindTypes' /\ PressTypes' /\ Found'
  BY DEF HandTypes, BindTypes, PressTypes, Found, bindVars, pressVars
<1>3. toBind' = {} /\ leaving' = NoMotive
  BY DEF HandTypes, Choosing, bindVars
<1>4. Choosing'
  BY <1>3 DEF Choosing
<1> QED
  BY <1>1, <1>2, <1>4 DEF HandTypes

LEMMA DecideStep == ASSUME HandTypes, Decide PROVE HandTypes'
<1>0. /\ hPc = "decide" /\ UNCHANGED <<key, typed, entered, keysLeft>>
      /\ keyQueue \in Queues /\ keyQueue.deque \in Seq(Keys)
      /\ scope \in HandScopes /\ tmccId \in Seq(Digits) /\ found \in BOOLEAN
      /\ ChoiceTypes /\ (found => <<scope, tmccId>> \in Roster)
      /\ motives \in Seq(Roster) /\ Len(motives) <= NumLasts /\ IsInjective(motives)
  BY DEF Decide, HandTypes, KeyTypes, ChoiceTypes, Choosing, Queues
<1>1. NoKeys \in Queues
  BY DEF NoKeys, Queues
<1>2. {"wait", "dead"} \subseteq Places \ {"bind"}
  BY DEF Places
<1>3. KeysTyped \in Seq(Digits \cup ScopeKeys)
  BY <1>0, LeftIs DEF KeysTyped, Left
<1>r. ASSUME ResetQueue PROVE HandTypes'
  <2>1. hPc' = "wait" /\ keyQueue' = NoKeys /\ UNCHANGED <<choiceVars, bindVars, pressVars>>
    BY <1>r DEF ResetQueue
  <2>2. ChoiceTypes' /\ (found' => <<scope', tmccId'>> \in Roster)
    BY <1>0, <2>1 DEF ChoiceTypes, choiceVars
  <2> QED
    BY <1>0, <1>1, <1>2, <2>1, <2>2, NothingBound
<1>n. ASSUME hPc' = "wait" \/ hPc' = "dead", UNCHANGED <<keyQueue, choiceVars, bindVars, pressVars>>
      PROVE  HandTypes'
  <2>1. ChoiceTypes' /\ (found' => <<scope', tmccId'>> \in Roster)
    BY <1>0, <1>n DEF ChoiceTypes, choiceVars
  <2> QED
    BY <1>0, <1>2, <1>n, <2>1, NothingBound
<1>e. ASSUME EnterNumber PROVE HandTypes'
  <2>1. CASE \E i \in DOMAIN KeysTyped : KeysTyped[i] \in ScopeKeys
    BY <1>e, <1>n, <2>1 DEF EnterNumber
  <2>2. CASE ~ \E i \in DOMAIN KeysTyped : KeysTyped[i] \in ScopeKeys
    <3>1. UpdateMotive(scope, KeysTyped, keyQueue) /\ motives' = motives
      BY <1>e, <2>2 DEF EnterNumber
    <3>2. KeysTyped \in Seq(Digits)
      <4> DEFINE t == KeysTyped
      <4>1. t \in Seq(Digits \cup ScopeKeys) /\ ~ \E i \in DOMAIN t : t[i] \in ScopeKeys
        BY <1>3, <2>2
      <4> HIDE DEF t
      <4>2. DOMAIN t = 1 .. Len(t) /\ Len(t) \in Nat /\ \A i \in 1 .. Len(t) : t[i] \in Digits
        BY <4>1
      <4>3. t = [i \in 1 .. Len(t) |-> t[i]]
        BY <4>1
      <4>4. t \in Seq(Digits)
        BY <4>2, <4>3
      <4> QED
        BY <4>4 DEF t
    <3> QED
      BY <1>0, <3>1, <3>2, Updated
  <2> QED
    BY <2>1, <2>2
<1>4. CASE ClearKey
  <2>1. CASE tmccId # <<>> /\ found
    BY <1>0, <1>1, <1>4, <2>1, Updated DEF ClearKey
  <2>2. CASE ~(tmccId # <<>> /\ found)
    <3>1. /\ keyQueue' = NoKeys /\ hPc' = "wait" /\ tmccId' = <<>>
          /\ UNCHANGED <<scope, found, motives, bindVars, pressVars>>
      BY <1>4, <2>2 DEF ClearKey
    <3>2. found => tmccId = <<>>
      BY <2>2
    <3>3. ChoiceTypes' /\ (found' => <<scope', tmccId'>> \in Roster)
      BY <1>0, <3>1, <3>2 DEF ChoiceTypes
    <3> QED
      BY <1>0, <1>1, <1>2, <3>1, <3>3, NothingBound
  <2> QED
    BY <2>1, <2>2
<1>5. CASE EnterKey
  BY <1>5, <1>r, <1>e DEF EnterKey
<1>6. CASE ScopeKey
  <2>1. /\ scope' \in HandScopes /\ tmccId' = <<>> /\ found' = FALSE /\ keyQueue' = NoKeys
        /\ hPc' = "wait" /\ UNCHANGED <<bindVars, pressVars>>
    BY <1>6 DEF ScopeKey, HandScopes
  <2>2. motives' = IF tmccId # <<>> /\ found THEN Pushed(<<scope, tmccId>>) ELSE motives
    BY <1>6 DEF ScopeKey
  <2>3. motives' \in Seq(Roster) /\ Len(motives') <= NumLasts /\ IsInjective(motives')
    BY <1>0, <2>2, PushedIs
  <2>4. tmccId' \in Seq(Digits) /\ found' \in BOOLEAN
    <3>1. <<>> \in Seq(Digits) /\ FALSE \in BOOLEAN
      OBVIOUS
    <3> QED
      BY ONLY <2>1, <3>1
  <2>5. ChoiceTypes'
    BY <2>1, <2>3, <2>4 DEF ChoiceTypes
  <2> QED
    BY <1>0, <1>1, <1>2, <2>1, <2>5, NothingBound
<1>7. CASE StarKey
  <2>1. CASE motives = <<>>
    BY <1>7, <1>n, <2>1 DEF StarKey
  <2>2. CASE motives # <<>>
    <3> DEFINE ring == Tail(motives) \o <<Head(motives)>>
    <3>1. PICK m \in {Head(ring), Head(motives)} :
            UpdateMotive(m[1], m[2], keyQueue) /\ motives' \in {ring, motives}
      BY <1>7, <2>2 DEF StarKey
    <3>2. /\ ring \in Seq(Roster) /\ Len(ring) = Len(motives) /\ ring # <<>> /\ Len(motives) \in Nat
          /\ \A i \in 1 .. Len(motives) - 1 : ring[i] = motives[i + 1]
          /\ ring[Len(motives)] = motives[1]
      BY <1>0, <2>2
    <3>3. \A i, j \in 1 .. Len(motives) : motives[i] = motives[j] => i = j
      BY <1>0 DEF IsInjective
    <3> HIDE DEF ring
    <3>4. \A i, j \in 1 .. Len(motives) : ring[i] = ring[j] => i = j
      <4> TAKE i, j \in 1 .. Len(motives)
      <4>1. CASE i = Len(motives) /\ j # Len(motives)
        <5>1. ring[i] = motives[1] /\ ring[j] = motives[j + 1] /\ j + 1 \in 1 .. Len(motives) /\ j + 1 # 1
              /\ 1 \in 1 .. Len(motives)
          BY <3>2, <4>1
        <5> QED
          BY <3>3, <5>1
      <4>2. CASE i # Len(motives) /\ j = Len(motives)
        <5>1. ring[j] = motives[1] /\ ring[i] = motives[i + 1] /\ i + 1 \in 1 .. Len(motives) /\ i + 1 # 1
              /\ 1 \in 1 .. Len(motives)
          BY <3>2, <4>2
        <5> QED
          BY <3>3, <5>1
      <4>3. CASE i # Len(motives) /\ j # Len(motives)
        BY <3>2, <3>3, <4>3
      <4> QED
        BY <4>1, <4>2, <4>3
    <3>5. IsInjective(ring)
      BY <3>2, <3>4 DEF IsInjective
    <3>6. m \in Roster
      <4>1. Head(ring) \in Roster
        BY <3>2
      <4>2. Head(motives) \in Roster
        BY <1>0, <2>2
      <4> QED
        BY <3>1, <4>1, <4>2
    <3>7. m[1] \in HandScopes /\ m[2] \in Seq(Digits)
      BY <3>6, Names
    <3>8. motives' \in Seq(Roster) /\ Len(motives') <= NumLasts /\ IsInjective(motives')
      BY <1>0, <3>1, <3>2, <3>5
    <3> QED
      BY <1>0, <3>1, <3>7, <3>8, Updated
  <2> QED
    BY <2>1, <2>2
<1>8. CASE DigitKey
  BY <1>8, <1>r, <1>e, <1>n DEF DigitKey
<1>9. CASE NoKey
  BY <1>9, <1>n DEF NoKey
<1> QED
  BY <1>4, <1>5, <1>6, <1>7, <1>8, <1>9 DEF Decide

LEMMA BindingStep ==
  ASSUME HandTypes, Bind \/ FinishUpdate \/ \E b \in HandButtons : Renumber(b) \/ Unbind(b)
  PROVE  HandTypes'
<1>0. /\ chosen \in Known /\ leaving \in Known /\ toBind \subseteq HandButtons
      /\ address \in [Syntaxes -> [HandButtons -> Addresses]] /\ half \in toBind \cup {"none"}
      /\ bound \in [HandButtons -> Syntaxes \cup {"none"}]
      /\ (hPc = "bind" => found /\ chosen = <<scope, tmccId>> /\ chosen \in Roster)
      /\ (hPc # "bind" => toBind = {} /\ leaving = NoMotive)
  BY DEF HandTypes, BindTypes, Choosing
<1>1. SyntaxOf(chosen) \in Syntaxes
  BY Names
<1>2. CASE Bind
  <2>1. half \in HandButtons /\ hPc = "bind" /\ chosen \in Addresses
    BY <1>0, <1>2, Names DEF Bind
  <2>2. UNCHANGED <<hPc, keyVars, choiceVars, chosen, leaving, pressVars>>
    BY <1>2 DEF Bind
  <2>3. /\ half' = "none" /\ toBind' = toBind \ {half}
        /\ address' = [address EXCEPT ![SyntaxOf(chosen)][half] = chosen]
        /\ bound' = [bound EXCEPT ![half] = SyntaxOf(chosen)]
    BY <1>2 DEF Bind
  <2>4. address' \in [Syntaxes -> [HandButtons -> Addresses]]
    BY <1>0, <1>1, <2>1, <2>3
  <2>5. BindTypes'
    BY <1>0, <1>1, <2>1, <2>2, <2>3, <2>4 DEF BindTypes
  <2>6. KeyTypes' /\ ChoiceTypes' /\ PressTypes' /\ Found' /\ hPc' \in Places
    BY <2>2 DEF HandTypes, KeyTypes, ChoiceTypes, PressTypes, Found, keyVars, choiceVars, pressVars
  <2>7. Choosing'
    BY <2>1, <2>2 DEF HandTypes, Choosing, choiceVars
  <2> QED
    BY <2>5, <2>6, <2>7 DEF HandTypes
<1>3. CASE FinishUpdate
  <2>1. /\ hPc = "bind" /\ toBind = {} /\ hPc' = "wait" /\ keyQueue' = NoKeys /\ leaving' = NoMotive
        /\ motives' = Pushed(<<scope, tmccId>>)
        /\ UNCHANGED <<key, typed, entered, keysLeft, scope, tmccId, found, chosen, toBind,
                   address, half, bound, pressVars>>
    BY <1>3 DEF FinishUpdate
  <2>2. NoKeys \in Queues
    BY DEF NoKeys, Queues
  <2>3. KeyTypes' /\ PressTypes' /\ Found'
    BY <2>1, <2>2 DEF HandTypes, KeyTypes, PressTypes, Found, pressVars
  <2>4. <<scope, tmccId>> \in Roster
    BY <1>0, <2>1
  <2>5. ChoiceTypes'
    BY <2>1, <2>4, PushedIs DEF HandTypes, ChoiceTypes
  <2>6. BindTypes'
    BY <1>0, <2>1 DEF BindTypes, Known
  <2>7. Choosing' /\ hPc' \in Places
    BY <1>0, <2>1 DEF Choosing, Places
  <2> QED
    BY <2>3, <2>5, <2>6, <2>7 DEF HandTypes
<1>4. ASSUME NEW b \in HandButtons, Renumber(b) PROVE HandTypes'
  <2>1. /\ hPc = "bind" /\ half = "none" /\ b \in toBind /\ half' = b
        /\ address' = [address EXCEPT ![SyntaxOf(chosen)][b] = <<@[1], chosen[2]>>]
        /\ UNCHANGED <<hPc, keyVars, choiceVars, chosen, leaving, toBind, bound, pressVars>>
    BY <1>4 DEF Renumber
  <2>2. <<address[SyntaxOf(chosen)][b][1], chosen[2]>> \in Addresses
    BY <1>0, <1>1, <2>1, Names
  <2>3. address' \in [Syntaxes -> [HandButtons -> Addresses]]
    BY <1>0, <1>1, <2>1, <2>2
  <2>4. BindTypes'
    BY <1>0, <2>1, <2>3 DEF BindTypes
  <2>5. KeyTypes' /\ ChoiceTypes' /\ PressTypes' /\ Found' /\ hPc' \in Places
    BY <2>1 DEF HandTypes, KeyTypes, ChoiceTypes, PressTypes, Found, keyVars, choiceVars, pressVars
  <2>6. Choosing'
    BY <2>1 DEF HandTypes, Choosing, choiceVars
  <2> QED
    BY <2>4, <2>5, <2>6 DEF HandTypes
<1>5. ASSUME NEW b \in HandButtons, Unbind(b) PROVE HandTypes'
  <2>1. /\ hPc = "bind" /\ half = "none" /\ b \in toBind
        /\ toBind' = toBind \ {b} /\ bound' = [bound EXCEPT ![b] = "none"]
        /\ UNCHANGED <<hPc, keyVars, choiceVars, chosen, leaving, address, half, pressVars>>
    BY <1>5 DEF Unbind
  <2>2. BindTypes'
    BY <1>0, <2>1 DEF BindTypes
  <2>3. KeyTypes' /\ ChoiceTypes' /\ PressTypes' /\ Found' /\ hPc' \in Places
    BY <2>1 DEF HandTypes, KeyTypes, ChoiceTypes, PressTypes, Found, keyVars, choiceVars, pressVars
  <2>4. Choosing'
    BY <2>1 DEF HandTypes, Choosing, choiceVars
  <2> QED
    BY <2>2, <2>3, <2>4 DEF HandTypes
<1> QED
  BY <1>2, <1>3, <1>4, <1>5

\* A command that is sent goes where its button's command object says.
LEMMA SendIs ==
  ASSUME HandTypes, NEW p \in HandPress, p.syntax \in Syntaxes, Send(p)
  PROVE  sentTo' \in Sents /\ sentTo'.to = address[p.syntax][p.button] /\ sentTo'.among = p.among
BY DEF HandTypes, BindTypes, HandPress, Send, Sents

LEMMA AnsweringStep ==
  ASSUME HandTypes, TakePress \/ AnswerPress \/ \E b \in HandButtons : FingerOn(b) \/ FingerOff(b)
  PROVE  HandTypes'
<1>0. /\ fingers \subseteq HandButtons /\ presses \in Seq(HandPress)
      /\ answering \in HandPress \cup {NoPress} /\ sentTo \in Sents
      /\ pressesLeft \in 0 .. ButtonPresses /\ (answering # NoPress => answering.syntax \in Syntaxes)
      /\ chosen \in Known /\ leaving \in Known /\ bound \in [HandButtons -> Syntaxes \cup {"none"}]
  BY DEF HandTypes, PressTypes, BindTypes, Found
<1>1. UNCHANGED <<hPc, keyVars, choiceVars, bindVars>>
  BY DEF TakePress, AnswerPress, FingerOn, FingerOff
<1>2. KeyTypes' /\ ChoiceTypes' /\ BindTypes' /\ Choosing' /\ hPc' \in Places
  BY <1>1 DEF HandTypes, KeyTypes, ChoiceTypes, BindTypes, Choosing, keyVars, choiceVars, bindVars
<1>3. CASE TakePress
  <2> DEFINE b == Head(presses).button
             press == [Head(presses) EXCEPT !.syntax = bound[b], !.at = "threshold"]
  <2>1. /\ presses # <<>> /\ presses' = Tail(presses) /\ fingers' = fingers /\ pressesLeft' = pressesLeft
        /\ \/ UNCHANGED <<answering, sentTo>>
           \/ bound[b] # "none" /\ Send(press) /\ answering' = answering
           \/ bound[b] # "none" /\ answering' = press /\ sentTo' = sentTo
    BY <1>3 DEF TakePress
  <2>2. Head(presses) \in HandPress /\ Tail(presses) \in Seq(HandPress)
    BY <1>0, <2>1
  <2>3. b \in HandButtons
    BY <2>2 DEF HandPress
  <2>4. bound[b] # "none" => press \in HandPress /\ press.syntax \in Syntaxes
    BY <1>0, <2>2, <2>3 DEF HandPress
  <2> HIDE DEF press, b
  <2>5. PressTypes' /\ Found'
    BY <1>0, <2>1, <2>2, <2>4, SendIs DEF PressTypes, Found
  <2> QED
    BY <1>2, <2>5 DEF HandTypes
<1>4. CASE AnswerPress
  <2>1. /\ answering # NoPress /\ fingers' = fingers /\ presses' = presses /\ pressesLeft' = pressesLeft
        /\ answering' \in {NoPress, [answering EXCEPT !.at = "hold"]}
        /\ Send(answering) \/ sentTo' = sentTo
    BY <1>4 DEF AnswerPress
  <2>2. answering \in HandPress /\ answering.syntax \in Syntaxes
    BY <1>0, <2>1
  <2>3. sentTo' \in Sents
    BY <1>0, <2>1, <2>2, SendIs
  <2>4. LET p == [answering EXCEPT !.at = "hold"] IN p \in HandPress /\ p.syntax = answering.syntax
    BY <2>2 DEF HandPress
  <2>5. PressTypes' /\ Found'
    BY <1>0, <2>1, <2>2, <2>3, <2>4 DEF PressTypes, Found
  <2> QED
    BY <1>2, <2>5 DEF HandTypes
<1>5. ASSUME NEW b \in HandButtons, FingerOn(b) PROVE HandTypes'
  <2> DEFINE press == [button |-> b, syntax |-> "none", at |-> "queue", among |-> {chosen, leaving}]
  <2>1. press \in HandPress
    BY <1>0 DEF HandPress, Known
  <2>2. presses' \in Seq(HandPress)
    <3>1. presses' = Append(presses, press)
      BY <1>5 DEF FingerOn
    <3> HIDE DEF press
    <3> QED
      BY <1>0, <2>1, <3>1
  <2>3. pressesLeft' \in 0 .. ButtonPresses
    BY <1>0, <1>5, HandAssumption DEF FingerOn
  <2>4. PressTypes' /\ Found'
    BY <1>0, <1>5, <2>2, <2>3 DEF PressTypes, Found, FingerOn
  <2> QED
    BY <1>2, <2>4 DEF HandTypes
<1>6. ASSUME NEW b \in HandButtons, FingerOff(b) PROVE HandTypes'
  <2>1. PressTypes' /\ Found'
    BY <1>0, <1>6 DEF PressTypes, Found, FingerOff
  <2> QED
    BY <1>2, <2>1 DEF HandTypes
<1> QED
  BY <1>3, <1>4, <1>5, <1>6

LEMMA HandUnchanged == ASSUME HandTypes, UNCHANGED handVars PROVE HandTypes'
BY DEF HandTypes, KeyTypes, ChoiceTypes, BindTypes, PressTypes, Choosing, Found, handVars, keyVars,
       choiceVars, bindVars, pressVars

LEMMA HandTypesStep == ASSUME HandTypes, [HandNext]_handVars PROVE HandTypes'
BY KeysStep, DecideStep, BindingStep, AnsweringStep, HandUnchanged DEF HandNext, ControllerStep

LEMMA HandTypesInit == HandInit => HandTypes
<1> SUFFICES ASSUME HandInit PROVE HandTypes
  OBVIOUS
<1>1. NoKeys \in Queues
  BY DEF NoKeys, Queues
<1>2. KeyTypes
  BY <1>1, HandAssumption DEF HandInit, KeyTypes
<1>3. ChoiceTypes
  <2>1. motives = <<>> /\ DOMAIN motives = {} /\ Len(motives) = 0 /\ motives \in Seq(Roster)
    BY DEF HandInit
  <2> QED
    <3>a. <<>> \in Seq(Digits) /\ FALSE \in BOOLEAN /\ "ENGINE" \in HandScopes
      BY DEF HandScopes
    <3>b. scope = "ENGINE" /\ tmccId = <<>> /\ found = FALSE
      BY DEF HandInit
    <3>1. scope \in HandScopes /\ tmccId \in Seq(Digits) /\ found \in BOOLEAN
      BY ONLY <3>a, <3>b
    <3>2. NumLasts \in Nat /\ IsInjective(motives)
      BY <2>1, HandAssumption DEF IsInjective
    <3> QED
      BY <2>1, <3>1, <3>2 DEF ChoiceTypes
<1>4. BindTypes
  BY Names DEF HandInit, BindTypes, Known
<1>5. PressTypes /\ Found
  BY HandAssumption, Names DEF HandInit, PressTypes, Found, Sents
<1> QED
  BY <1>2, <1>3, <1>4, <1>5 DEF HandInit, HandTypes, Choosing, Places

LEMMA HandTypesHold == HandSpec => []HandTypes
BY HandTypesInit, HandTypesStep, PTL DEF HandSpec

\* Types, for any motives, keys and presses, also when keys are pressed too fast.
THEOREM HandTypeCorrect == HandSpec => []HandTypeOK
BY HandTypesHold, HandTypesMean, PTL

-----------------------------------------------------------------------------
(* Whom a press reaches *)

Mixes(S) == {<<m[1], n[2]>> : m, n \in S \ {NoMotive}}
\* A button's command has the chosen motive, or, until it is bound anew, the one before.
Aimed(b) ==
  LET to == address[bound[b]][b] IN
  \/ b \notin toBind /\ chosen # NoMotive /\ to = chosen
  \/ b \in toBind /\ leaving # NoMotive /\ to = leaving
  \/ b = half /\ leaving # NoMotive /\ bound[b] = SyntaxOf(chosen) /\ to = <<leaving[1], chosen[2]>>
\* A press knows of the motives that its button may reach.
Told(p) == {chosen, leaving} \subseteq p.among \cup {NoMotive}
Reached(p) == address[p.syntax][p.button] \in Mixes(p.among)

Aims == \A b \in HandButtons : bound[b] # "none" => Aimed(b)
QueuedTold == \A i \in 1 .. Len(presses) : Told(presses[i])
AnsweringReaches == answering # NoPress => Told(answering) /\ Reached(answering)
Reaching ==
  /\ Aims
  /\ QueuedTold /\ AnsweringReaches
  /\ PressesReachTheirMotive

-----------------------------------------------------------------------------
(* Which number is chosen *)

\* The queue holds the digits of n, or n has been entered without a #.
Spelt(n) ==
  \/ Left(keyQueue.deque) = n
  \/ /\ Left(keyQueue.deque) = <<>> /\ Len(n) = AutoEnter
     /\ tmccId = n /\ (found => chosen = <<scope, n>>)
Entailed == entered # <<>> => tmccId = entered /\ (found => chosen = <<scope, entered>>)
\* No key waits to be handled.
Quiet == Spelt(typed) /\ Len(Left(keyQueue.deque)) < AutoEnter /\ Entailed
\* A digit, or a key that has a meaning of its own, is being handled.
LastKey ==
  IF keyQueue.eol \/ keyQueue.clear \/ keyQueue.deque = <<>> THEN "none" ELSE Last(keyQueue.deque)
Plain ==
  /\ entered = <<>>
  /\ LastKey \in Digits => (keyQueue.digit \/ Left(keyQueue.deque) = typed)
                           /\ Len(Left(keyQueue.deque)) <= AutoEnter
  /\ LastKey = "*" /\ motives = <<>> => Spelt(typed) /\ Len(Left(keyQueue.deque)) < AutoEnter
  /\ LastKey \notin Digits /\ (LastKey = "*" => motives # <<>>) => typed = <<>>
  /\ LastKey = "none" => keyQueue.deque = <<>>
  /\ LastKey \in Digits \cup ScopeKeys \cup {"*", "none"}
Pending ==
  /\ keyQueue.clear => typed = <<>> /\ entered = <<>>
  /\ ~keyQueue.clear /\ keyQueue.eol => typed = <<>> /\ Spelt(entered)
  /\ ~keyQueue.clear /\ ~keyQueue.eol => Plain
Bound ==
  /\ typed = <<>> \/ (Len(typed) = AutoEnter /\ typed = tmccId)
  /\ entered # <<>> => entered = tmccId

Numbering ==
  /\ hPc # "dead" /\ (keyQueue.digit => typed = <<>>)
  /\ hPc = "wait" /\ ~keyQueue.keypress => Quiet
  /\ (hPc = "wait" /\ keyQueue.keypress) \/ hPc \in {"woken", "decide"} => Pending
  /\ hPc \in {"woken", "decide"} => key = LastKey
  /\ hPc = "decide" => ~keyQueue.keypress
  /\ hPc = "bind" => Bound

-----------------------------------------------------------------------------
LEMMA MixesAre ==
  ASSUME NEW S, NEW m \in S, NEW n \in S, m # NoMotive, n # NoMotive
  PROVE  <<m[1], n[2]>> \in Mixes(S)
BY DEF Mixes

\* What a button whose command has a motive that a press knows of may reach.
LEMMA AimedReaches ==
  ASSUME HandTypes, NEW b \in HandButtons, bound[b] # "none", Aimed(b),
         NEW S, {chosen, leaving} \subseteq S \cup {NoMotive}
  PROVE  address[bound[b]][b] \in Mixes(S)
<1>0. chosen \in Known /\ leaving \in Known
  BY DEF HandTypes, BindTypes
<1>1. \A m \in Known : m # NoMotive => m = <<m[1], m[2]>>
  BY Names DEF Known
<1>2. half \in HandButtons => chosen # NoMotive
  <2>1. half \in HandButtons => toBind # {}
    BY Names DEF HandTypes, BindTypes
  <2> QED
    BY <2>1, Names DEF HandTypes, Choosing
<1>3. CASE chosen # NoMotive /\ address[bound[b]][b] = chosen
  <2>1. chosen \in S /\ chosen = <<chosen[1], chosen[2]>>
    BY <1>0, <1>1, <1>3
  <2>2. <<chosen[1], chosen[2]>> \in Mixes(S)
    BY <1>3, <2>1, MixesAre
  <2> QED
    BY <1>3, <2>1, <2>2
<1>4. CASE leaving # NoMotive /\ address[bound[b]][b] = leaving
  <2>1. leaving \in S /\ leaving = <<leaving[1], leaving[2]>>
    BY <1>0, <1>1, <1>4
  <2>2. <<leaving[1], leaving[2]>> \in Mixes(S)
    BY <1>4, <2>1, MixesAre
  <2> QED
    BY <1>4, <2>1, <2>2
<1>5. CASE b = half /\ leaving # NoMotive /\ address[bound[b]][b] = <<leaving[1], chosen[2]>>
  BY <1>2, <1>5, MixesAre
<1> QED
  BY <1>3, <1>4, <1>5 DEF Aimed

\* Steps that bind nothing, and that neither press nor answer.
LEMMA ReachKept ==
  ASSUME Reaching, UNCHANGED bindVars, UNCHANGED <<presses, answering, sentTo>>
  PROVE  Reaching'
BY DEF Reaching, Aims, QueuedTold, AnsweringReaches, Aimed, Told, Reached, PressesReachTheirMotive, bindVars

LEMMA ReachUpdated ==
  ASSUME HandTypes, Reaching, hPc = "decide", HandButtons \subseteq DOMAIN Tmcc1Table,
         NEW s, NEW id, NEW queue, UpdateMotive(s, id, queue)
  PROVE  Reaching'
<1>0. /\ toBind = {} /\ half = "none" /\ leaving = NoMotive /\ presses \in Seq(HandPress)
      /\ answering \in HandPress \cup {NoPress}
  BY DEF HandTypes, Choosing, BindTypes, PressTypes
<1>1. UNCHANGED <<address, half, bound, fingers, sentTo, pressesLeft>>
  BY DEF UpdateMotive
<1>2. CASE <<s, id>> \notin Roster
  <2>1. UNCHANGED <<chosen, leaving, toBind, presses, answering>>
    BY <1>2 DEF UpdateMotive
  <2> QED
    BY <1>1, <2>1, ReachKept DEF bindVars
<1>3. CASE <<s, id>> \in Roster
  <2> DEFINE m == <<s, id>>
  <2>0. m \in Roster
    BY <1>3
  <2>1. /\ leaving' = chosen /\ chosen' = m /\ toBind' = Entered(SyntaxOf(m))
        /\ presses' = [i \in DOMAIN presses |-> [presses[i] EXCEPT !.among = @ \cup {m}]]
        /\ answering' = IF answering = NoPress THEN NoPress
                        ELSE [answering EXCEPT !.among = @ \cup {m}]
    BY <1>3 DEF UpdateMotive
  <2> HIDE DEF m
  <2>2. toBind' = HandButtons
    <3>1. \A x \in Syntaxes : HandButtons \subseteq DOMAIN TableOf(x)
      BY HandAssumption DEF TableOf
    <3>2. Entered(SyntaxOf(m)) = HandButtons
      BY <3>1, Names DEF Entered
    <3> QED
      BY <2>1, <3>2
  <2>3. ASSUME NEW b \in HandButtons, bound'[b] # "none" PROVE Aimed(b)'
    <3>1. bound[b] # "none" /\ Aimed(b)
      BY <1>1, <2>3 DEF Reaching, Aims
    <3>2. chosen # NoMotive /\ address[bound[b]][b] = chosen
      BY <1>0, <3>1, Names DEF Aimed
    <3> QED
      BY <1>1, <2>1, <2>2, <3>2 DEF Aimed
  <2>4. QueuedTold'
    <3>1. /\ Len(presses') = Len(presses)
          /\ \A i \in 1 .. Len(presses) : presses'[i].among = presses[i].among \cup {m}
      BY <1>0, <2>0, <2>1, AllJoined
    <3>2. \A i \in 1 .. Len(presses) : {chosen, leaving} \subseteq presses[i].among \cup {NoMotive}
      BY DEF Reaching, QueuedTold, Told
    <3> QED
      BY <2>1, <3>1, <3>2 DEF QueuedTold, Told
  <2>5. AnsweringReaches'
    <3> SUFFICES ASSUME answering' # NoPress PROVE Told(answering)' /\ Reached(answering)'
      BY DEF AnsweringReaches
    <3>1. answering # NoPress /\ answering \in HandPress /\ Told(answering) /\ Reached(answering)
      BY <1>0, <2>1 DEF Reaching, AnsweringReaches
    <3>2. /\ answering'.among = answering.among \cup {m} /\ answering'.button = answering.button
          /\ answering'.syntax = answering.syntax
      BY <2>0, <2>1, <3>1, Joined
    <3>3. Mixes(answering.among) \subseteq Mixes(answering'.among)
      BY <3>2 DEF Mixes
    <3>4. Told(answering)'
      BY <2>1, <3>1, <3>2 DEF Told
    <3>5. Reached(answering)'
      BY <1>1, <3>1, <3>2, <3>3 DEF Reached
    <3> QED
      BY <3>4, <3>5
  <2>6. PressesReachTheirMotive'
    BY <1>1 DEF Reaching, PressesReachTheirMotive
  <2> QED
    BY <2>3, <2>4, <2>5, <2>6 DEF Reaching, Aims
<1> QED
  BY <1>2, <1>3

\* Steps of update: the presses wait.
LEMMA ReachBinding ==
  ASSUME HandTypes, Reaching, UNCHANGED <<chosen, presses, answering, sentTo>>, leaving' \in {leaving, NoMotive},
         \A b \in HandButtons : bound'[b] # "none" => Aimed(b)',
         answering # NoPress => Reached(answering)'
  PROVE  Reaching'
<1>2. QueuedTold'
  BY DEF Reaching, QueuedTold, Told
<1>3. AnsweringReaches'
  BY DEF Reaching, AnsweringReaches, Told, Reached
<1>4. PressesReachTheirMotive'
  BY DEF Reaching, PressesReachTheirMotive
<1> QED
  BY <1>2, <1>3, <1>4 DEF Reaching, Aims

LEMMA BindingReaches ==
  ASSUME HandTypes, Reaching, Bind \/ FinishUpdate \/ \E b \in HandButtons : Renumber(b) \/ Unbind(b)
  PROVE  Reaching'
<1>0. /\ toBind \subseteq HandButtons /\ half \in toBind \cup {"none"} /\ "none" \notin HandButtons
      /\ address \in [Syntaxes -> [HandButtons -> Addresses]]
      /\ bound \in [HandButtons -> Syntaxes \cup {"none"}]
      /\ (hPc = "bind" => chosen # NoMotive /\ chosen = <<chosen[1], chosen[2]>>)
      /\ (hPc # "bind" => toBind = {})
      /\ answering \in HandPress \cup {NoPress} /\ (answering # NoPress => answering.syntax \in Syntaxes)
  <2>1. hPc = "bind" => chosen \in Roster
    BY DEF HandTypes, Choosing
  <2>2. hPc = "bind" => chosen # NoMotive /\ chosen = <<chosen[1], chosen[2]>>
    BY <2>1, Names
  <2> QED
    BY <2>2, Names DEF HandTypes, BindTypes, PressTypes, Choosing, Found
<1>1. SyntaxOf(chosen) \in Syntaxes
  BY Names
<1>2. \A b \in HandButtons : bound[b] # "none" => Aimed(b)
  BY DEF Reaching, Aims
<1>3. answering # NoPress => /\ answering.button \in HandButtons /\ Told(answering)
                             /\ address[answering.syntax][answering.button] \in Mixes(answering.among)
  BY <1>0 DEF Reaching, AnsweringReaches, Reached, HandPress
<1>4. CASE FinishUpdate
  <2>1. /\ toBind = {} /\ leaving' = NoMotive /\ half = "none"
        /\ UNCHANGED <<chosen, toBind, address, half, bound, presses, answering, sentTo>>
    BY <1>0, <1>4 DEF FinishUpdate, pressVars
  <2>2. ASSUME NEW b \in HandButtons, bound'[b] # "none" PROVE Aimed(b)'
    BY <1>0, <1>2, <2>1, <2>2 DEF Aimed
  <2>3. answering # NoPress => Reached(answering)'
    BY <1>3, <2>1 DEF Reached
  <2> QED
    BY <2>1, <2>2, <2>3, ReachBinding
<1>5. ASSUME NEW c \in HandButtons, Renumber(c) PROVE Reaching'
  <2> DEFINE x == SyntaxOf(chosen)
  <2>1. /\ hPc = "bind" /\ half = "none" /\ c \in toBind /\ half' = c
        /\ address' = [address EXCEPT ![x][c] = <<@[1], chosen[2]>>]
        /\ UNCHANGED <<chosen, leaving, toBind, bound, presses, answering, sentTo>>
    BY <1>5 DEF Renumber, pressVars
  <2>2. x \in Syntaxes
    BY <1>1
  <2> HIDE DEF x
  <2>3. \A s \in Syntaxes, b \in HandButtons :
          address'[s][b] = IF s = x /\ b = c THEN <<address[s][b][1], chosen[2]>> ELSE address[s][b]
    BY <1>0, <2>1, <2>2
  <2>4. ASSUME NEW b \in HandButtons, bound'[b] # "none" PROVE Aimed(b)'
    <3>1. Aimed(b) /\ bound[b] \in Syntaxes /\ bound'[b] = bound[b] /\ b # half
      BY <1>0, <1>2, <2>1, <2>4
    <3>2. address'[bound[b]][b] = IF bound[b] = x /\ b = c THEN <<address[bound[b]][b][1], chosen[2]>>
                                  ELSE address[bound[b]][b]
      BY <2>3, <3>1
    <3>3. CASE bound[b] = x /\ b = c
      <4>1. leaving # NoMotive /\ address[bound[b]][b] = leaving
        BY <2>1, <3>1, <3>3 DEF Aimed
      <4>2. address'[bound'[b]][b] = <<leaving[1], chosen[2]>>
        BY <3>1, <3>2, <3>3, <4>1
      <4> QED
        BY <2>1, <3>1, <3>3, <4>1, <4>2 DEF Aimed, x
    <3>4. CASE ~(bound[b] = x /\ b = c)
      BY <2>1, <3>1, <3>2, <3>4 DEF Aimed
    <3> QED
      BY <3>3, <3>4
  <2>5. ASSUME answering # NoPress PROVE Reached(answering)'
    <3> DEFINE S == answering.among
               a == address[answering.syntax][answering.button]
    <3>1. a \in Mixes(S) /\ chosen \in S /\ chosen # NoMotive
      BY <1>0, <1>3, <2>1, <2>5 DEF Told
    <3>2. PICK m \in S \ {NoMotive}, n \in S \ {NoMotive} : a = <<m[1], n[2]>>
      BY <3>1 DEF Mixes
    <3>3. <<a[1], chosen[2]>> \in Mixes(S)
      <4>1. a[1] = m[1]
        BY <3>2
      <4> QED
        BY <3>1, <3>2, <4>1, MixesAre
    <3>4. address'[answering.syntax][answering.button] \in {a, <<a[1], chosen[2]>>}
      BY <1>0, <1>3, <2>3, <2>5
    <3> QED
      BY <2>1, <3>1, <3>3, <3>4 DEF Reached
  <2> QED
    BY <2>1, <2>4, <2>5, ReachBinding
<1>6. CASE Bind
  <2> DEFINE x == SyntaxOf(chosen)
  <2>1. /\ hPc = "bind" /\ half \in toBind /\ half \in HandButtons /\ half' = "none" /\ toBind' = toBind \ {half}
        /\ address' = [address EXCEPT ![x][half] = chosen] /\ bound' = [bound EXCEPT ![half] = x]
        /\ UNCHANGED <<chosen, leaving, presses, answering, sentTo>>
    BY <1>0, <1>6 DEF Bind, pressVars
  <2>2. x \in Syntaxes
    BY <1>1
  <2> HIDE DEF x
  <2>3. \A s \in Syntaxes, b \in HandButtons :
          address'[s][b] = IF s = x /\ b = half THEN chosen ELSE address[s][b]
    BY <1>0, <2>1, <2>2
  <2>4. ASSUME NEW b \in HandButtons, bound'[b] # "none" PROVE Aimed(b)'
    <3>1. CASE b = half
      <4>1. bound'[b] = x /\ address'[x][b] = chosen
        BY <1>0, <2>1, <2>2, <2>3, <3>1
      <4> QED
        BY <1>0, <2>1, <3>1, <4>1 DEF Aimed
    <3>2. CASE b # half
      <4>1. bound'[b] = bound[b] /\ bound[b] \in Syntaxes /\ Aimed(b)
        BY <1>0, <1>2, <2>1, <2>4, <3>2
      <4>2. address'[bound[b]][b] = address[bound[b]][b]
        BY <2>3, <3>2, <4>1
      <4> QED
        BY <2>1, <3>2, <4>1, <4>2 DEF Aimed
    <3> QED
      BY <3>1, <3>2
  <2>5. ASSUME answering # NoPress PROVE Reached(answering)'
    <3>1. chosen \in answering.among /\ chosen # NoMotive
      BY <1>0, <1>3, <2>1, <2>5 DEF Told
    <3>2. chosen \in Mixes(answering.among)
      BY <1>0, <2>1, <3>1, MixesAre
    <3>3. address'[answering.syntax][answering.button] \in Mixes(answering.among)
      BY <1>0, <1>3, <2>3, <2>5, <3>2
    <3> QED
      BY <2>1, <3>3 DEF Reached
  <2> QED
    BY <2>1, <2>4, <2>5, ReachBinding
<1>7. ASSUME NEW c \in HandButtons, Unbind(c) PROVE Reaching'
  <2>1. /\ hPc = "bind" /\ half = "none" /\ c \in toBind /\ toBind' = toBind \ {c}
        /\ bound' = [bound EXCEPT ![c] = "none"]
        /\ UNCHANGED <<chosen, leaving, address, half, presses, answering, sentTo>>
    BY <1>7 DEF Unbind, pressVars
  <2>2. ASSUME NEW b \in HandButtons, bound'[b] # "none" PROVE Aimed(b)'
    <3>1. b # c /\ bound'[b] = bound[b] /\ Aimed(b)
      BY <1>0, <1>2, <2>1, <2>2
    <3> QED
      BY <2>1, <3>1 DEF Aimed
  <2>3. answering # NoPress => Reached(answering)'
    BY <1>3, <2>1 DEF Reached
  <2> QED
    BY <2>1, <2>2, <2>3, ReachBinding
<1> QED
  BY <1>4, <1>5, <1>6, <1>7

LEMMA PressingReaches ==
  ASSUME HandTypes, Reaching, TakePress \/ AnswerPress \/ \E b \in HandButtons : FingerOn(b) \/ FingerOff(b)
  PROVE  Reaching'
<1>0. /\ presses \in Seq(HandPress) /\ answering \in HandPress \cup {NoPress}
      /\ bound \in [HandButtons -> Syntaxes \cup {"none"}] /\ Aims /\ QueuedTold /\ AnsweringReaches
      /\ PressesReachTheirMotive
  BY DEF HandTypes, PressTypes, BindTypes, Reaching
<1>1. UNCHANGED bindVars
  BY DEF TakePress, AnswerPress, FingerOn, FingerOff
<1>2. Aims' /\ \A p : (Told(p) => Told(p)') /\ (Reached(p) => Reached(p)')
  BY <1>0, <1>1 DEF Aims, Aimed, Told, Reached, bindVars
\* A command that is sent.
<1>3. ASSUME NEW p \in HandPress, Reached(p), Send(p) PROVE PressesReachTheirMotive'
  <2>1. sentTo' = [to |-> address[p.syntax][p.button], among |-> p.among]
    BY <1>3 DEF Send
  <2>2. sentTo'.to \in Mixes(sentTo'.among)
    BY <1>3, <2>1 DEF Reached
  <2> QED
    BY <2>2 DEF Mixes, PressesReachTheirMotive
<1>4. sentTo' = sentTo => PressesReachTheirMotive'
  BY <1>0 DEF PressesReachTheirMotive
<1>5. CASE TakePress
  <2> DEFINE b == Head(presses).button
             press == [Head(presses) EXCEPT !.syntax = bound[b], !.at = "threshold"]
  <2>1. /\ presses # <<>> /\ presses' = Tail(presses)
        /\ \/ UNCHANGED <<answering, sentTo>>
           \/ bound[b] # "none" /\ Send(press) /\ answering' = answering
           \/ bound[b] # "none" /\ answering' = press /\ sentTo' = sentTo
    BY <1>5 DEF TakePress
  <2>2. Head(presses) \in HandPress /\ Head(presses) = presses[1] /\ 1 \in 1 .. Len(presses)
    BY <1>0, <2>1
  <2>3. b \in HandButtons /\ Told(Head(presses))
    BY <1>0, <2>2 DEF HandPress, QueuedTold
  <2>4. bound[b] # "none" => /\ press \in HandPress /\ press.syntax = bound[b] /\ press.button = b
                             /\ press.among = Head(presses).among
    BY <1>0, <2>2, <2>3 DEF HandPress
  <2> HIDE DEF press, b
  <2>5. bound[b] # "none" => Told(press) /\ Reached(press)
    <3> SUFFICES ASSUME bound[b] # "none" PROVE Told(press) /\ Reached(press)
      OBVIOUS
    <3>1. Told(press)
      BY <2>3, <2>4 DEF Told
    <3>2. address[bound[b]][b] \in Mixes(press.among)
      <4>1. Aimed(b) /\ {chosen, leaving} \subseteq press.among \cup {NoMotive}
        BY <1>0, <2>3, <3>1 DEF Aims, Told
      <4> QED
        BY <2>3, <4>1, AimedReaches
    <3> QED
      BY <2>4, <3>1, <3>2 DEF Reached
  <2>6. QueuedTold'
    <3>1. /\ Len(Tail(presses)) = Len(presses) - 1 /\ Len(presses) \in Nat
          /\ \A i \in 1 .. Len(Tail(presses)) : Tail(presses)[i] = presses[i + 1]
      BY <1>0, <2>1
    <3>2. \A i \in 1 .. Len(Tail(presses)) : Told(Tail(presses)[i])
      BY <1>0, <3>1 DEF QueuedTold
    <3> QED
      BY <1>1, <2>1, <3>2 DEF QueuedTold, Told, bindVars
  <2>7. AnsweringReaches' /\ PressesReachTheirMotive'
    <3>1. CASE UNCHANGED <<answering, sentTo>>
      BY <1>0, <1>1, <1>4, <3>1 DEF AnsweringReaches, Told, Reached, bindVars
    <3>2. CASE bound[b] # "none" /\ Send(press) /\ answering' = answering
      BY <1>0, <1>1, <1>3, <2>4, <2>5, <3>2 DEF AnsweringReaches, Told, Reached, bindVars
    <3>3. CASE bound[b] # "none" /\ answering' = press /\ sentTo' = sentTo
      BY <1>1, <1>4, <2>5, <3>3 DEF AnsweringReaches, Told, Reached, bindVars
    <3> QED
      BY <2>1, <3>1, <3>2, <3>3
  <2> QED
    BY <1>2, <2>6, <2>7 DEF Reaching
<1>6. CASE AnswerPress
  <2>1. /\ answering # NoPress /\ presses' = presses
        /\ answering' \in {NoPress, [answering EXCEPT !.at = "hold"]}
        /\ Send(answering) \/ sentTo' = sentTo
    BY <1>6 DEF AnswerPress
  <2>2. answering \in HandPress /\ Told(answering) /\ Reached(answering)
    BY <1>0, <2>1 DEF AnsweringReaches
  <2>3. LET p == [answering EXCEPT !.at = "hold"] IN
        p.syntax = answering.syntax /\ p.button = answering.button /\ p.among = answering.among
    BY <2>2 DEF HandPress
  <2>4. AnsweringReaches'
    BY <1>1, <2>1, <2>2, <2>3 DEF AnsweringReaches, Told, Reached, bindVars
  <2>5. QueuedTold'
    BY <1>0, <1>1, <2>1 DEF QueuedTold, Told, bindVars
  <2>6. PressesReachTheirMotive'
    BY <1>3, <1>4, <2>1, <2>2
  <2> QED
    BY <1>2, <2>4, <2>5, <2>6 DEF Reaching
<1>7. ASSUME NEW b \in HandButtons, FingerOn(b) PROVE Reaching'
  <2> DEFINE press == [button |-> b, syntax |-> "none", at |-> "queue", among |-> {chosen, leaving}]
  <2>1. presses' = Append(presses, press) /\ UNCHANGED <<answering, sentTo>>
    BY <1>7 DEF FingerOn
  <2>2. press.among = {chosen, leaving}
    OBVIOUS
  <2> HIDE DEF press
  <2>3. /\ Len(presses') = Len(presses) + 1 /\ presses'[Len(presses) + 1] = press /\ Len(presses) \in Nat
        /\ \A i \in 1 .. Len(presses) : presses'[i] = presses[i]
    BY <1>0, <2>1
  <2>4. \A i \in 1 .. Len(presses') : i \in 1 .. Len(presses) \/ i = Len(presses) + 1
    BY <2>3
  <2>5. QueuedTold'
    BY <1>0, <1>1, <2>2, <2>3, <2>4 DEF QueuedTold, Told, bindVars
  <2>6. AnsweringReaches'
    BY <1>0, <1>1, <2>1 DEF AnsweringReaches, Told, Reached, bindVars
  <2> QED
    BY <1>2, <1>4, <2>1, <2>5, <2>6 DEF Reaching
<1>8. ASSUME NEW b \in HandButtons, FingerOff(b) PROVE Reaching'
  BY <1>8, ReachKept DEF FingerOff
<1> QED
  BY <1>5, <1>6, <1>7, <1>8

LEMMA ReachingStep ==
  ASSUME HandTypes, Reaching, HandButtons \subseteq DOMAIN Tmcc1Table, [HandNext]_handVars
  PROVE  Reaching'
<1>1. CASE (\E k \in Keys : PressKey(k)) \/ KeyWakes \/ ForgetKeypress \/ UNCHANGED handVars
  BY <1>1, ReachKept DEF PressKey, KeyWakes, ForgetKeypress, handVars, pressVars
<1>2. CASE Decide
  <2>1. hPc = "decide"
    BY <1>2 DEF Decide
  <2>2. ASSUME EnterNumber \/ ResetQueue PROVE Reaching'
    BY <2>1, <2>2, ReachKept, ReachUpdated DEF EnterNumber, ResetQueue, pressVars
  <2>3. CASE ClearKey
    BY <2>1, <2>3, ReachKept, ReachUpdated DEF ClearKey, pressVars
  <2>4. CASE EnterKey
    BY <2>2, <2>4 DEF EnterKey
  <2>5. CASE ScopeKey \/ NoKey
    BY <2>5, ReachKept DEF ScopeKey, NoKey, pressVars
  <2>6. CASE StarKey
    <3>1. CASE motives = <<>>
      BY <2>6, <3>1, ReachKept DEF StarKey, pressVars
    <3>2. CASE motives # <<>>
      <4>1. PICK m : UpdateMotive(m[1], m[2], keyQueue)
        BY <2>6, <3>2 DEF StarKey
      <4> QED
        BY <2>1, <4>1, ReachUpdated
    <3> QED
      BY <3>1, <3>2
  <2>7. CASE DigitKey
    <3>1. CASE EnterNumber \/ ResetQueue
      BY <2>2, <3>1
    <3>2. CASE UNCHANGED <<keyQueue, choiceVars, bindVars, pressVars>>
      BY <3>2, ReachKept DEF pressVars
    <3> QED
      BY <2>7, <3>1, <3>2 DEF DigitKey
  <2> QED
    BY <1>2, <2>3, <2>4, <2>5, <2>6, <2>7 DEF Decide
<1> QED
  BY <1>1, <1>2, BindingReaches, PressingReaches DEF HandNext, ControllerStep

LEMMA ReachingInit == HandInit => Reaching
<1> SUFFICES ASSUME HandInit PROVE Reaching
  OBVIOUS
<1>1. Aims
  BY DEF HandInit, Aims
<1>2. QueuedTold /\ AnsweringReaches
  BY DEF HandInit, QueuedTold, AnsweringReaches
<1>3. PressesReachTheirMotive
  <2>1. sentTo.to = Unaddressed /\ sentTo.among = {Unaddressed} /\ Unaddressed # NoMotive
    BY HandAssumption DEF HandInit
  <2>2. Unaddressed = <<Unaddressed[1], Unaddressed[2]>>
    BY DEF Unaddressed
  <2> QED
    BY <2>1, <2>2 DEF PressesReachTheirMotive
<1> QED
  BY <1>1, <1>2, <1>3 DEF Reaching

\* Whenever keys and buttons are pressed, fast or slow: a press reaches a motive that was
\* chosen, or was being left, since the finger came down, provided that every button has
\* an entry in the table of TMCC1 (aux1 has none).
THEOREM PressesReach ==
  ASSUME HandButtons \subseteq DOMAIN Tmcc1Table
  PROVE  HandSpec => []PressesReachTheirMotive
<1>1. HandInit => Reaching
  BY ReachingInit
<1>2. HandTypes /\ Reaching /\ [HandNext]_handVars => Reaching'
  BY ReachingStep
<1>3. Reaching => PressesReachTheirMotive
  BY DEF Reaching
<1> QED
  BY <1>1, <1>2, <1>3, HandTypesHold, PTL DEF HandSpec

\* A press of a key, when the one before has been handled.
LEMMA KeyNumbers ==
  ASSUME HandTypes, Numbering, Patient, NEW k \in Keys, PressKey(k)
  PROVE  Numbering'
<1> DEFINE q == keyQueue.deque
           r == IF k \in {"C", "D"} THEN <<>> ELSE IF k = "#" THEN q ELSE Append(q, k)
<1>0. /\ keyQueue \in Queues /\ q \in Seq(Keys) /\ typed \in Seq(Digits) /\ Left(q) \in Seq(Digits \cup ScopeKeys)
  BY LeftIs DEF HandTypes, KeyTypes, Queues
<1>1. /\ hPc = "wait" /\ hPc' = "wait" /\ ~keyQueue.keypress
      /\ UNCHANGED <<tmccId, found, chosen, scope, motives>>
      /\ entered' = IF k = "#" THEN typed ELSE <<>>
      /\ keyQueue' = [deque |-> r, keypress |-> TRUE, eol |-> k = "#", clear |-> k = "C",
                      digit |-> keyQueue.digit \/ k = "D"]
      /\ typed' = IF k = "*" /\ motives = <<>> THEN typed
                  ELSE IF k \notin Digits \/ keyQueue.digit THEN <<>>
                  ELSE IF Len(typed) = AutoEnter THEN <<k>> ELSE Append(typed, k)
  BY DEF PressKey, choiceVars, bindVars
<1>2. Quiet /\ (keyQueue.digit => typed = <<>>)
  BY <1>1 DEF Numbering
<1>3. /\ keyQueue'.deque = r /\ keyQueue'.keypress /\ (keyQueue'.eol <=> k = "#")
      /\ (keyQueue'.clear <=> k = "C") /\ (keyQueue'.digit <=> keyQueue.digit \/ k = "D")
  BY <1>1
<1>4. Digits \cap (ScopeKeys \cup OtherKeys \cup {"none"}) = {}
  BY HandAssumption
<1>5. k \notin {"C", "D", "#"} => r = Append(q, k) /\ r # <<>> /\ Last(r) = k /\ Left(r) = Left(q) \o KeyRead(k)
  <2> SUFFICES ASSUME k \notin {"C", "D", "#"}
               PROVE  r = Append(q, k) /\ r # <<>> /\ Last(r) = k /\ Left(r) = Left(q) \o KeyRead(k)
    OBVIOUS
  <2>1. r = Append(q, k)
    OBVIOUS
  <2>2. Append(q, k) # <<>> /\ Last(Append(q, k)) = k
    BY <1>0 DEF Last
  <2>3. Left(Append(q, k)) = Left(q) \o KeyRead(k)
    BY <1>0, LeftGrows
  <2> HIDE DEF r, q
  <2> QED
    BY <2>1, <2>2, <2>3
<1>6. k \in {"C", "D"} => r = <<>>
  OBVIOUS
<1>7. k = "#" => r = q
  OBVIOUS
<1> HIDE DEF q, r
<1>8. /\ Left(q) = typed \/ (Left(q) = <<>> /\ Len(typed) = AutoEnter /\ tmccId = typed
                             /\ (found => chosen = <<scope, typed>>))
      /\ Len(Left(q)) < AutoEnter
  BY <1>2 DEF Quiet, Spelt, q
<1>9. keyQueue'.digit => typed' = <<>>
  BY <1>1, <1>2, <1>3, <1>4 DEF OtherKeys
<1>10. Pending'
  <2>1. CASE k = "C"
    BY <1>1, <1>3, <1>4, <2>1 DEF Pending, OtherKeys
  <2>2. CASE k = "#"
    <3>1. typed' = <<>> /\ entered' = typed
      BY <1>1, <1>4, <2>2 DEF OtherKeys
    <3>2. Spelt(entered)'
      BY <1>1, <1>3, <1>7, <1>8, <2>2, <3>1 DEF Spelt
    <3> QED
      BY <1>3, <2>2, <3>1, <3>2 DEF Pending
  <2>3. CASE k = "D"
    <3>1. typed' = <<>> /\ entered' = <<>> /\ keyQueue'.deque = <<>> /\ LastKey' = "none"
      BY <1>1, <1>3, <1>4, <1>6, <2>3 DEF OtherKeys, LastKey
    <3> QED
      BY <1>3, <1>4, <2>3, <3>1 DEF Pending, Plain
  <2>4. CASE k \in ScopeKeys
    <3>1. k \notin {"C", "D", "#", "*", "none"} /\ k \notin Digits
      BY <1>4, <2>4 DEF ScopeKeys
    <3>2. typed' = <<>> /\ entered' = <<>> /\ LastKey' = k
      BY <1>1, <1>3, <1>5, <3>1 DEF LastKey
    <3> QED
      BY <1>3, <2>4, <3>1, <3>2 DEF Pending, Plain
  <2>5. CASE k = "*"
    <3>1. k \notin {"C", "D", "#", "none"} /\ k \notin Digits
      BY <1>4, <2>5 DEF OtherKeys
    <3>2. entered' = <<>> /\ LastKey' = k /\ typed' = IF motives = <<>> THEN typed ELSE <<>>
      BY <1>1, <1>3, <1>5, <2>5, <3>1 DEF LastKey
    <3>3. Left(r) = Left(q)
      <4>1. KeyRead(k) = <<>>
        BY <2>5 DEF KeyRead, OtherKeys
      <4> QED
        BY <1>0, <1>5, <3>1, <4>1
    <3>4. motives' = <<>> => Spelt(typed)' /\ Len(Left(keyQueue.deque)') < AutoEnter
      BY <1>1, <1>3, <1>8, <3>2, <3>3 DEF Spelt
    <3> QED
      BY <1>1, <1>3, <2>5, <3>1, <3>2, <3>4 DEF Pending, Plain
  <2>6. CASE k \in Digits
    <3>1. k \notin {"C", "D", "#", "*", "none"} /\ k \notin OtherKeys
      BY <1>4, <2>6 DEF OtherKeys
    <3>2. entered' = <<>> /\ LastKey' = k
      BY <1>1, <1>3, <1>5, <3>1 DEF LastKey
    <3>3. Left(r) = Append(Left(q), k) /\ Len(Left(r)) <= AutoEnter
      <4>1. KeyRead(k) = <<k>>
        BY <3>1 DEF KeyRead
      <4>2. Left(q) \o <<k>> = Append(Left(q), k) /\ Len(Append(Left(q), k)) = Len(Left(q)) + 1 /\ Len(Left(q)) \in Nat
        BY <1>0, <2>6
      <4> QED
        BY <1>5, <1>8, <3>1, <4>1, <4>2 DEF AutoEnter
    <3>4. keyQueue.digit \/ typed' = Left(r)
      <4>1. CASE keyQueue.digit
        BY <4>1
      <4>2. CASE ~keyQueue.digit /\ Len(typed) = AutoEnter
        <5>1. typed' = <<k>> /\ Left(q) = <<>>
          BY <1>1, <1>8, <2>6, <3>1, <4>2 DEF AutoEnter
        <5> QED
          BY <3>3, <5>1
      <4>3. CASE ~keyQueue.digit /\ Len(typed) # AutoEnter
        BY <1>1, <1>8, <2>6, <3>1, <3>3, <4>3
      <4> QED
        BY <4>1, <4>2, <4>3
    <3> QED
      BY <1>3, <2>6, <3>1, <3>2, <3>3, <3>4 DEF Pending, Plain
  <2> QED
    BY <2>1, <2>2, <2>3, <2>4, <2>5, <2>6 DEF Keys, OtherKeys
<1> QED
  BY <1>1, <1>3, <1>9, <1>10 DEF Numbering

LEMMA WakeNumbers ==
  ASSUME HandTypes, Numbering, KeyWakes \/ ForgetKeypress
  PROVE  Numbering'
<1>0. keyQueue \in Queues
  BY DEF HandTypes, KeyTypes
<1>1. CASE KeyWakes
  <2>1. /\ hPc = "wait" /\ keyQueue.keypress /\ hPc' = "woken" /\ key' = LastKey
        /\ UNCHANGED <<keyQueue, typed, entered, tmccId, found, chosen, scope, motives>>
    BY <1>1 DEF KeyWakes, LastKey, choiceVars, bindVars
  <2>2. Pending' <=> Pending
    BY <2>1 DEF Pending, Plain, LastKey, Spelt
  <2>3. LastKey' = LastKey
    BY <2>1 DEF LastKey
  <2> QED
    BY <2>1, <2>2, <2>3 DEF Numbering
<1>2. CASE ForgetKeypress
  <2>1. /\ hPc = "woken" /\ hPc' = "decide" /\ keyQueue' = [keyQueue EXCEPT !.keypress = FALSE]
        /\ UNCHANGED <<key, typed, entered, tmccId, found, chosen, scope, motives>>
    BY <1>2 DEF ForgetKeypress, choiceVars, bindVars
  <2>2. /\ keyQueue'.deque = keyQueue.deque /\ keyQueue'.eol = keyQueue.eol
        /\ keyQueue'.clear = keyQueue.clear /\ keyQueue'.digit = keyQueue.digit
    BY <1>0, <2>1 DEF Queues
  <2>3. LastKey' = LastKey
    BY <2>2 DEF LastKey
  <2>4. Pending' <=> Pending
    BY <2>1, <2>2, <2>3 DEF Pending, Plain, Spelt
  <2> QED
    BY <2>1, <2>2, <2>3, <2>4 DEF Numbering
<1> QED
  BY <1>1, <1>2

\* A queue that has been reset, with the number n on the display.
LEMMA QuietReset ==
  ASSUME HandTypes, hPc' = "wait", keyQueue' = NoKeys,
         typed' = <<>> \/ (Len(typed') = AutoEnter /\ tmccId' = typed' /\ (found' => chosen' = <<scope', typed'>>)),
         Entailed'
  PROVE  Numbering'
<1>1. keyQueue'.deque = <<>> /\ ~keyQueue'.keypress /\ ~keyQueue'.digit
  BY DEF NoKeys
<1>2. Left(keyQueue.deque)' = <<>> /\ Len(Left(keyQueue.deque)') = 0
  BY <1>1, LeftIs
<1>3. Spelt(typed)'
  BY <1>2 DEF Spelt
<1>4. Quiet'
  BY <1>2, <1>3 DEF Quiet, AutoEnter
<1> QED
  BY <1>1, <1>4 DEF Numbering

\* The number chosen is the one typed, or entered, or neither is.
LEMMA UpdateNumbers ==
  ASSUME HandTypes, NEW s, NEW id, NEW queue, UpdateMotive(s, id, queue),
         queue.digit => typed = <<>>,
         typed = <<>> \/ (Len(typed) = AutoEnter /\ typed = id), entered # <<>> => entered = id,
         UNCHANGED <<typed, entered>>
  PROVE  Numbering'
<1>1. scope' = s /\ tmccId' = id
  BY DEF UpdateMotive
<1>2. CASE <<s, id>> \in Roster
  <2>1. hPc' = "bind" /\ keyQueue' = queue
    BY <1>2 DEF UpdateMotive
  <2> QED
    BY <1>1, <2>1 DEF Numbering, Bound
<1>3. CASE <<s, id>> \notin Roster
  <2>1. found' = FALSE /\ keyQueue' = NoKeys /\ hPc' = "wait"
    BY <1>3 DEF UpdateMotive
  <2> QED
    BY <1>1, <2>1, QuietReset DEF Entailed
<1> QED
  BY <1>2, <1>3

\* The digits of a number hide no key of a scope.
LEMMA NoScopeKey ==
  ASSUME NEW n \in Seq(Digits)
  PROVE  ~ \E i \in DOMAIN n : n[i] \in ScopeKeys
<1>1. \A i \in DOMAIN n : n[i] \in Digits
  OBVIOUS
<1> QED
  BY <1>1, HandAssumption

LEMMA DecideNumbers ==
  ASSUME HandTypes, Numbering, Decide
  PROVE  Numbering'
<1>0. /\ hPc = "decide" /\ UNCHANGED <<key, typed, entered, keysLeft>> /\ keyQueue \in Queues
      /\ keyQueue.deque \in Seq(Keys) /\ typed \in Seq(Digits) /\ entered \in Seq(Digits)
  BY DEF Decide, HandTypes, KeyTypes, Queues
<1>1. key = LastKey /\ ~keyQueue.keypress /\ Pending /\ (keyQueue.digit => typed = <<>>)
  BY <1>0 DEF Numbering
<1>2. KeysTyped = Left(keyQueue.deque)
  BY DEF KeysTyped, Left
<1>3. ~NoKeys.digit
  BY DEF NoKeys
<1>4. Digits \cap (ScopeKeys \cup OtherKeys \cup {"none"}) = {}
  BY HandAssumption
\* The number of the queue is the one typed, or the one entered.
<1>e. ASSUME EnterNumber, NEW n \in Seq(Digits), KeysTyped = n,
             typed = <<>> \/ (Len(typed) = AutoEnter /\ typed = n), entered # <<>> => entered = n
      PROVE  Numbering'
  <2>1. ~ \E i \in DOMAIN KeysTyped : KeysTyped[i] \in ScopeKeys
    BY <1>e, NoScopeKey
  <2>2. UpdateMotive(scope, n, keyQueue)
    BY <1>e, <2>1 DEF EnterNumber
  <2> QED
    BY <1>0, <1>1, <1>e, <2>2, UpdateNumbers
\* A reset, with nothing typed, or with what is on the display.
<1>r. ASSUME ResetQueue, typed = <<>>, entered # <<>> => Entailed
      PROVE  Numbering'
  <2>1. /\ keyQueue' = NoKeys /\ hPc' = "wait" /\ UNCHANGED <<tmccId, found, chosen, scope, typed, entered>>
    BY <1>0, <1>r DEF ResetQueue, choiceVars, bindVars
  <2>2. Entailed'
    BY <1>r, <2>1 DEF Entailed
  <2> QED
    BY <1>r, <2>1, <2>2, QuietReset
\* Back to waiting with the queue as it is.
<1>w. ASSUME hPc' = "wait", UNCHANGED <<keyQueue, choiceVars, bindVars, pressVars>>, entered = <<>>,
             Spelt(typed), Len(Left(keyQueue.deque)) < AutoEnter
      PROVE  Numbering'
  <2>1. UNCHANGED <<keyQueue, tmccId, found, chosen, scope, typed, entered>>
    BY <1>0, <1>w DEF choiceVars, bindVars
  <2>2. Quiet'
    BY <1>w, <2>1 DEF Quiet, Spelt, Entailed
  <2> QED
    BY <1>1, <1>w, <2>1, <2>2 DEF Numbering
<1>2b. keyQueue.eol /\ ~keyQueue.clear => Spelt(entered) /\ typed = <<>>
  BY <1>1 DEF Pending
<1>3a. CASE ClearKey
  <2>1. typed = <<>> /\ entered = <<>>
    BY <1>1, <1>3a DEF ClearKey, Pending
  <2>2. CASE tmccId # <<>> /\ found
    BY <1>0, <1>3, <1>3a, <2>1, <2>2, UpdateNumbers DEF ClearKey
  <2>3. CASE ~(tmccId # <<>> /\ found)
    <3>1. keyQueue' = NoKeys /\ hPc' = "wait" /\ typed' = <<>> /\ entered' = <<>>
      BY <1>0, <1>3a, <2>1, <2>3 DEF ClearKey
    <3> QED
      BY <3>1, QuietReset DEF Entailed
  <2> QED
    BY <2>2, <2>3
<1>4a. CASE EnterKey
  <2>1. typed = <<>> /\ Spelt(entered)
    BY <1>2b, <1>4a DEF EnterKey
  <2>2. CASE KeysTyped = <<>>
    <3>1. ResetQueue
      BY <1>4a, <2>2 DEF EnterKey
    <3>2. entered # <<>> => Entailed
      BY <1>2, <2>1, <2>2 DEF Spelt, Entailed
    <3> QED
      BY <1>r, <2>1, <3>1, <3>2
  <2>3. CASE KeysTyped # <<>>
    <3>1. EnterNumber
      BY <1>4a, <2>3 DEF EnterKey
    <3>2. KeysTyped = entered
      BY <1>2, <2>1, <2>3 DEF Spelt
    <3> QED
      BY <1>0, <1>e, <2>1, <3>1, <3>2
  <2> QED
    BY <2>2, <2>3
<1>5. ASSUME ~keyQueue.clear, ~keyQueue.eol PROVE Plain
  BY <1>1, <1>5 DEF Pending
<1>6. CASE ScopeKey
  <2>1. key \in ScopeKeys /\ Plain /\ hPc' = "wait" /\ keyQueue' = NoKeys
    BY <1>5, <1>6 DEF ScopeKey
  <2>2. LastKey \notin Digits /\ LastKey # "*"
    BY <1>1, <1>4, <2>1 DEF ScopeKeys
  <2>3. typed' = <<>> /\ entered' = <<>>
    BY <1>0, <2>1, <2>2 DEF Plain
  <2> QED
    BY <2>1, <2>3, QuietReset DEF Entailed
<1>7. CASE StarKey
  <2>1. LastKey = "*" /\ Plain /\ LastKey \notin Digits
    BY <1>1, <1>4, <1>5, <1>7 DEF StarKey, OtherKeys
  <2>2. CASE motives = <<>>
    <3>1. hPc' = "wait" /\ UNCHANGED <<keyQueue, choiceVars, bindVars, pressVars>>
      BY <1>7, <2>2 DEF StarKey
    <3> QED
      BY <1>w, <2>1, <2>2, <3>1 DEF Plain
  <2>3. CASE motives # <<>>
    <3>1. PICK m : UpdateMotive(m[1], m[2], keyQueue)
      BY <1>7, <2>3 DEF StarKey
    <3>2. typed = <<>> /\ entered = <<>>
      BY <2>1, <2>3 DEF Plain
    <3> QED
      BY <1>0, <3>1, <3>2, UpdateNumbers
  <2> QED
    BY <2>2, <2>3
<1>8. CASE DigitKey
  <2>1. LastKey \in Digits /\ Plain
    BY <1>1, <1>5, <1>8 DEF DigitKey
  <2>2. entered = <<>> /\ (keyQueue.digit \/ Left(keyQueue.deque) = typed) /\ Len(Left(keyQueue.deque)) <= AutoEnter
    BY <2>1 DEF Plain
  <2>3. CASE keyQueue.digit
    <3>1. ResetQueue
      BY <1>8, <2>3 DEF DigitKey
    <3> QED
      BY <1>1, <1>r, <2>2, <2>3, <3>1
  <2>4. CASE ~keyQueue.digit /\ Len(KeysTyped) >= AutoEnter
    <3>1. EnterNumber
      BY <1>8, <2>4 DEF DigitKey
    <3>2. KeysTyped = typed /\ Len(typed) = AutoEnter
      <4>1. KeysTyped = typed
        BY <1>2, <2>2, <2>4
      <4>2. Len(typed) <= AutoEnter /\ Len(typed) >= AutoEnter /\ Len(typed) \in Nat
        BY <1>0, <2>2, <2>4, <4>1
      <4>3. AutoEnter = 4
        BY DEF AutoEnter
      <4>4. Len(typed) = AutoEnter
        BY ONLY <4>2, <4>3
      <4> QED
        BY <4>1, <4>4
    <3> QED
      BY <1>0, <1>e, <2>2, <3>1, <3>2
  <2>5. CASE ~keyQueue.digit /\ ~(Len(KeysTyped) >= AutoEnter)
    <3>1. hPc' = "wait" /\ UNCHANGED <<keyQueue, choiceVars, bindVars, pressVars>>
      BY <1>8, <2>5 DEF DigitKey
    <3>2. Spelt(typed) /\ Len(Left(keyQueue.deque)) < AutoEnter
      BY <1>0, <1>2, <2>2, <2>5 DEF Spelt, AutoEnter
    <3> QED
      BY <1>w, <2>2, <3>1, <3>2
  <2> QED
    BY <2>3, <2>4, <2>5
<1>9. CASE NoKey
  <2>1. /\ LastKey = "none" /\ Plain /\ hPc' = "wait"
        /\ UNCHANGED <<keyQueue, choiceVars, bindVars, pressVars>>
    BY <1>1, <1>5, <1>9 DEF NoKey
  <2>2. typed = <<>> /\ entered = <<>> /\ keyQueue.deque = <<>>
    BY <1>4, <2>1 DEF Plain
  <2>3. Left(keyQueue.deque) = <<>> /\ Len(Left(keyQueue.deque)) < AutoEnter
    BY <2>2, LeftIs DEF AutoEnter
  <2>4. Spelt(typed)
    BY <2>2, <2>3 DEF Spelt
  <2> QED
    BY <1>w, <2>1, <2>2, <2>3, <2>4
<1> QED
  BY <1>3a, <1>4a, <1>6, <1>7, <1>8, <1>9 DEF Decide

LEMMA FinishNumbers ==
  ASSUME HandTypes, Numbering, FinishUpdate
  PROVE  Numbering'
<1>1. /\ hPc = "bind" /\ hPc' = "wait" /\ keyQueue' = NoKeys
      /\ UNCHANGED <<typed, entered, scope, tmccId, found, chosen>>
  BY DEF FinishUpdate
<1>2. Bound /\ chosen = <<scope, tmccId>>
  BY <1>1 DEF HandTypes, Choosing, Numbering
<1>3. Entailed'
  BY <1>1, <1>2 DEF Bound, Entailed
<1> QED
  BY <1>1, <1>2, <1>3, QuietReset DEF Bound

\* Steps that touch neither the keys nor the choice.
LEMMA NumbersKept ==
  ASSUME HandTypes, Numbering, UNCHANGED <<hPc, keyVars, choiceVars, chosen>>
  PROVE  Numbering'
<1>1. UNCHANGED <<hPc, keyQueue, key, typed, entered, scope, tmccId, found, motives, chosen>>
  BY DEF keyVars, choiceVars
<1>2. (Spelt(typed)' <=> Spelt(typed)) /\ (Spelt(entered)' <=> Spelt(entered)) /\ LastKey' = LastKey
  BY <1>1 DEF Spelt, LastKey
<1>3. (Quiet' <=> Quiet) /\ (Plain' <=> Plain) /\ (Bound' <=> Bound)
  BY <1>1, <1>2 DEF Quiet, Entailed, Plain, Bound
<1>4. Pending' <=> Pending
  BY <1>1, <1>2, <1>3 DEF Pending
<1> QED
  BY <1>1, <1>2, <1>3, <1>4 DEF Numbering

LEMMA NumberingStep ==
  ASSUME HandTypes, Numbering, Patient, [HandNext]_handVars
  PROVE  Numbering'
<1>1. CASE Bind \/ \E b \in HandButtons : Renumber(b) \/ Unbind(b)
  BY <1>1, NumbersKept DEF Bind, Renumber, Unbind
<1>2. CASE TakePress \/ AnswerPress \/ \E b \in HandButtons : FingerOn(b) \/ FingerOff(b)
  BY <1>2, NumbersKept DEF TakePress, AnswerPress, FingerOn, FingerOff, bindVars
<1>3. CASE UNCHANGED handVars
  BY <1>3, NumbersKept DEF handVars, bindVars
<1> QED
  BY <1>1, <1>2, <1>3, KeyNumbers, WakeNumbers, DecideNumbers, FinishNumbers DEF HandNext, ControllerStep

LEMMA NumberingInit == HandInit => Numbering
<1> SUFFICES ASSUME HandInit PROVE Numbering
  OBVIOUS
<1>1. /\ hPc = "wait" /\ keyQueue.deque = <<>> /\ ~keyQueue.digit /\ ~keyQueue.keypress
      /\ typed = <<>> /\ entered = <<>>
  BY DEF HandInit, NoKeys
<1>2. Left(keyQueue.deque) = <<>> /\ Len(Left(keyQueue.deque)) < AutoEnter
  BY <1>1, LeftIs DEF AutoEnter
<1>3. Quiet
  BY <1>1, <1>2 DEF Quiet, Spelt, Entailed
<1> QED
  BY <1>1, <1>3 DEF Numbering

\* A press reaches its motive and a number that is entered is chosen, whatever keys are
\* pressed, one when the one before has been handled, and whatever buttons; provided that
\* every button has an entry in the table of TMCC1 (aux1 has none).
THEOREM ThrottleIsSafe ==
  ASSUME Patient, HandButtons \subseteq DOMAIN Tmcc1Table
  PROVE  HandSpec => []ThrottleSafety
<1>1. HandInit => Numbering
  BY NumberingInit
<1>2. HandTypes /\ Numbering /\ [HandNext]_handVars => Numbering'
  BY NumberingStep
<1>3. Numbering => NumbersChoose
  BY DEF Numbering, Quiet, Entailed, NumbersChoose
<1>4. PressesReachTheirMotive /\ NumbersChoose => ThrottleSafety
  BY DEF ThrottleSafety
<1> QED
  BY <1>1, <1>2, <1>3, <1>4, HandTypesHold, PressesReach, PTL DEF HandSpec

-----------------------------------------------------------------------------
(* What is on the way to the router *)

Moved == Hats \ {"neutral"}
Gone == <<"removed", NoPane, TRUE>>
Events ==
  ({"button"} \X DeckButtons \X BOOLEAN) \cup ({"axis"} \X DeckPanes \X BOOLEAN)
    \cup ({"hat"} \X Hats \X {TRUE}) \cup {Gone}
Repeated == {"repeat", "close"}
RepeatButtons == {b \in DeckButtons : ButtonDoes[b] \in Repeated}
\* The actions that the provider makes.
Made == {a \in Acts :
           /\ a.does \in Repeated => a.by \in DeckButtons /\ ButtonDoes[a.by] = a.does
           /\ a.does \in {"throttle", "quill"} => a.by \in DeckPanes
           /\ a.does = "dpad" => a.by \in Moved
           /\ a.does \in ChordDoes => a.by = NoPane}

\* DeckTypeOK in groups.
HandsTypes ==
  /\ hands \in [buttons : SUBSET DeckButtons, sticks : SUBSET DeckPanes,
                pads : SUBSET DeckPanes, hat : Hats]
  /\ sdl \in Seq(Events) /\ pc \in {"poll", "paddles", "sdl", "decode", "tick"}
  /\ trouble \in [inputs : 0 .. DeckInputs, rest : 0 .. DeckTrouble]
ProviderTypes ==
  /\ reported \in [buttons : SUBSET Paddles, pads : SUBSET DeckPanes]
  /\ held \subseteq DeckButtons /\ chords \subseteq DeckChords
  /\ longs \subseteq LongButtons /\ chorded \subseteq LongButtons /\ hat \in Hats
  /\ batch \in Seq(Made)
RouterTypes ==
  /\ router \in [throttles : SUBSET DeckPanes, commanded : [DeckPanes -> 0 .. TopThrottle + 1],
                 quills : SUBSET DeckPanes, boost : Hats, scroll : BOOLEAN,
                 commands : SUBSET RepeatButtons, sequence : 0 .. 2]
  /\ gui \in [focus : DeckPanes, controls : BOOLEAN, panel : [DeckPanes -> Panels],
              holds : SUBSET DeckPanes]
  /\ speed \in [DeckPanes -> 0 .. TopThrottle]
GhostTypes == clear \in BOOLEAN /\ together \subseteq DeckButtons /\ owed \in [DeckButtons -> Int]
DeckTypes == HandsTypes /\ ProviderTypes /\ RouterTypes /\ GhostTypes

\* The poll has handled all that it was told; a chord is of buttons that are held; a
\* button taken by a chord starts nothing; the focus is where a hold was begun.
PollOrder == (pc \in {"poll", "tick"} => batch = <<>>) /\ (pc = "tick" => sdl = <<>>)
ChordsHeld == \A c \in chords : c.buttons \subseteq held
TakenAlone == longs \cap together \subseteq chorded
ClearView == clear => ~gui.controls /\ gui.holds \subseteq {gui.focus}

\* One of S comes behind place i of q.
Later(q, S, i) == \E j \in 1 .. Len(q) : j > i /\ q[j] \in S
\* What is on now, or is put on by q, stays only if it may; else q puts it off.
Silenced(q, now, On, Offs, stays) ==
  /\ now => stays \/ Later(q, Offs, 0)
  /\ \A i \in 1 .. Len(q) : q[i] \in On => stays \/ Later(q, Offs, i)

LetGo(b) == {<<"button", b, FALSE>>, Gone}
Centred(p) == {<<"axis", p, FALSE>>, Gone}
HatSets == {{"up"}, {"down"}, Moved}
HatOn(X) == {<<"hat", x, TRUE>> : x \in X}
HatOff(X) == {<<"hat", x, TRUE>> : x \in Hats \ X} \cup {Gone}
OnBy(does, x) == {a \in Made : a.does \in does /\ a.by = x /\ a.on}
OffBy(does, x) == {a \in Made : a.does = "disconnect" \/ (a.does \in does /\ a.by = x /\ ~a.on)}
DpadOn(X) == {a \in Made : a.does = "dpad" /\ a.on /\ a.by \in X}
DpadOff(X) == {a \in Made : a.does = "disconnect" \/ (a.does = "dpad" /\ ~(a.on /\ a.by \in X))}
AdminOff == {a \in Made : a.does = "admin" /\ ~a.on}
AdminChord == \E c \in chords : c.does = "admin"
CommandsHeld ==
  \A b \in RepeatButtons : Silenced(batch, b \in router.commands, OnBy(Repeated, b), OffBy(Repeated, b), b \in held)
StickOrLater(p) == p \in hands.sticks \/ Later(sdl, Centred(p), 0)
ThrottlesHeld ==
  \A p \in DeckPanes : Silenced(batch, p \in router.throttles, OnBy({"throttle"}, p), OffBy({"throttle"}, p),
                                StickOrLater(p))
QuillsHeld ==
  \A p \in DeckPanes : Silenced(batch, p \in router.quills, OnBy({"quill"}, p), OffBy({"quill"}, p),
                                p \in reported.pads)
Boosted(X) == router.boost \in X \/ (router.scroll /\ X = Moved)
HatHeld == \A X \in HatSets : Silenced(batch, Boosted(X), DpadOn(X), DpadOff(X), hat \in X)
HoldsHeld ==
  NeverLost => /\ \A i \in 1 .. Len(sdl) : sdl[i] # Gone
               /\ Silenced(batch, gui.holds # {}, OnBy({"admin"}, NoPane), AdminOff, AdminChord)

-----------------------------------------------------------------------------
(* Sequences *)

\* SetToSeq has the elements of its set and no others.
LEMMA SetSeq ==
  ASSUME NEW S, IsFiniteSet(S)
  PROVE  SetToSeq(S) \in Seq(S) /\ \A x \in S : \E i \in 1 .. Len(SetToSeq(S)) : SetToSeq(S)[i] = x
<1> DEFINE n == Cardinality(S)
           F(f) == f \in [1 .. n -> S] /\ IsInjective(f)
<1>1. n \in Nat /\ ExistsBijection(1 .. n, S)
  BY FS_CardinalityType
<1>2. \E f : F(f)
  <2>1. PICK f : f \in Bijection(1 .. n, S)
    BY <1>1 DEF ExistsBijection
  <2>2. f \in [1 .. n -> S] /\ \A a, b \in 1 .. n : f[a] = f[b] => a = b
    BY <2>1 DEF Bijection, Injection, IsInjective
  <2> QED
    BY <2>2 DEF IsInjective
<1> DEFINE s == SetToSeq(S)
<1>3. F(s)
  <2>1. s = CHOOSE f \in [1 .. n -> S] : IsInjective(f)
    BY DEF SetToSeq
  <2>2. s = CHOOSE f : F(f)
    BY <2>1
  <2> HIDE DEF F
  <2> QED
    BY <1>2, <2>2
<1> HIDE DEF s
<1>4. s \in Injection(1 .. n, S)
  BY <1>3 DEF Injection, IsInjective
<1>5. IsFiniteSet(1 .. n) /\ Cardinality(1 .. n) = n
  <2>1. 1 \in Int /\ n \in Int
    BY <1>1
  <2>2. IsFiniteSet(1 .. n) /\ Cardinality(1 .. n) = IF 1 > n THEN 0 ELSE n - 1 + 1
    BY <2>1, FS_Interval
  <2> QED
    BY <1>1, <2>2
<1>6. s \in Surjection(1 .. n, S)
  BY <1>4, <1>5, FS_Injection
<1>7. \A x \in S : \E i \in 1 .. n : s[i] = x
  BY <1>6 DEF Surjection
<1> HIDE DEF n
<1>8. s \in Seq(S) /\ Len(s) = n
  BY <1>1, <1>3
<1> QED
  BY <1>7, <1>8 DEF s

LEMMA JoinIs ==
  ASSUME NEW S, NEW q \in Seq(S), NEW r \in Seq(S)
  PROVE  /\ q \o r \in Seq(S) /\ Len(q \o r) = Len(q) + Len(r)
         /\ \A i \in 1 .. Len(q) : (q \o r)[i] = q[i]
         /\ \A i \in 1 .. Len(r) : (q \o r)[Len(q) + i] = r[i]
         /\ \A i \in 1 .. Len(q) + Len(r) :
              i \in 1 .. Len(q) \/ (i - Len(q) \in 1 .. Len(r) /\ i = Len(q) + (i - Len(q)))
OBVIOUS

LEMMA TailIs ==
  ASSUME NEW S, NEW q \in Seq(S), q # <<>>
  PROVE  /\ Tail(q) \in Seq(S) /\ Len(Tail(q)) = Len(q) - 1 /\ Head(q) = q[1] /\ Head(q) \in S
         /\ Len(q) \in Nat /\ Len(q) >= 1
         /\ \A i \in 1 .. Len(q) - 1 : Tail(q)[i] = q[i + 1] /\ i + 1 \in 1 .. Len(q)
         /\ \A i \in 1 .. Len(q) : i = 1 \/ i - 1 \in 1 .. Len(q) - 1
OBVIOUS

\* Later goes with a sequence that grows, and with one that is read.
LEMMA LaterJoin ==
  ASSUME NEW S, NEW q \in Seq(S), NEW r \in Seq(S), NEW Offs, NEW i \in Nat
  PROVE  /\ Later(q, Offs, i) => Later(q \o r, Offs, i)
         /\ i <= Len(q) /\ Later(r, Offs, 0) => Later(q \o r, Offs, i)
<1>0. Len(q) \in Nat /\ Len(r) \in Nat
  OBVIOUS
<1>1. ASSUME Later(q, Offs, i) PROVE Later(q \o r, Offs, i)
  <2>1. PICK j \in 1 .. Len(q) : j > i /\ q[j] \in Offs
    BY <1>1 DEF Later
  <2>2. j \in 1 .. Len(q \o r) /\ (q \o r)[j] = q[j]
    BY <1>0, JoinIs
  <2> QED
    BY <2>1, <2>2 DEF Later
<1>2. ASSUME i <= Len(q), Later(r, Offs, 0) PROVE Later(q \o r, Offs, i)
  <2>1. PICK j \in 1 .. Len(r) : r[j] \in Offs
    BY <1>2 DEF Later
  <2>2. Len(q) + j \in 1 .. Len(q \o r) /\ (q \o r)[Len(q) + j] = r[j] /\ Len(q) + j > i
    BY <1>0, <1>2, JoinIs
  <2> QED
    BY <2>1, <2>2 DEF Later
<1> QED
  BY <1>1, <1>2

LEMMA LaterTail ==
  ASSUME NEW S, NEW q \in Seq(S), q # <<>>, NEW Offs, NEW i \in 0 .. Len(q) - 1, Later(q, Offs, i + 1)
  PROVE  Later(Tail(q), Offs, i)
<1>1. PICK j \in 1 .. Len(q) : j > i + 1 /\ q[j] \in Offs
  BY DEF Later
<1>2. /\ j - 1 \in 1 .. Len(Tail(q)) /\ j - 1 > i /\ Tail(q)[j - 1] = q[(j - 1) + 1] /\ (j - 1) + 1 = j
  BY <1>1, TailIs
<1> QED
  BY <1>1, <1>2 DEF Later

\* What is read first was not what puts it off.
LEMMA LaterRead ==
  ASSUME NEW S, NEW q \in Seq(S), q # <<>>, NEW Offs, Later(q, Offs, 0), Head(q) \notin Offs
  PROVE  Later(Tail(q), Offs, 0)
<1>1. PICK j \in 1 .. Len(q) : q[j] \in Offs
  BY DEF Later
<1>2. j # 1
  BY <1>1, TailIs
<1>3. Later(q, Offs, 0 + 1)
  BY <1>1, <1>2 DEF Later
<1>4. 0 \in 0 .. Len(q) - 1
  BY TailIs
<1> QED
  BY <1>3, <1>4, LaterTail

LEMMA SilencedJoin ==
  ASSUME NEW S, NEW q \in Seq(S), NEW r \in Seq(S), NEW On, NEW Offs, NEW now, NEW now1, NEW stays, NEW stays1,
         Silenced(q, now, On, Offs, stays), Silenced(r, FALSE, On, Offs, stays1),
         stays => stays1 \/ Later(r, Offs, 0), now1 => now \/ stays1 \/ Later(r, Offs, 0)
  PROVE  Silenced(q \o r, now1, On, Offs, stays1)
<1>0. Len(q) \in Nat /\ Len(r) \in Nat /\ 0 \in Nat
  OBVIOUS
<1>1. ASSUME now1 PROVE stays1 \/ Later(q \o r, Offs, 0)
  <2>1. CASE Later(r, Offs, 0)
    BY <1>0, <2>1, LaterJoin
  <2>2. CASE now /\ Later(q, Offs, 0)
    BY <1>0, <2>2, LaterJoin
  <2> QED
    BY <1>1, <2>1, <2>2 DEF Silenced
<1>2. ASSUME NEW i \in 1 .. Len(q \o r), (q \o r)[i] \in On PROVE stays1 \/ Later(q \o r, Offs, i)
  <2>1. CASE i \in 1 .. Len(q)
    <3>1. q[i] \in On
      BY <1>2, <2>1, JoinIs
    <3>2. stays \/ Later(q, Offs, i)
      BY <2>1, <3>1 DEF Silenced
    <3>3. i \in Nat /\ i <= Len(q)
      BY <1>0, <2>1
    <3> QED
      BY <3>2, <3>3, LaterJoin
  <2>2. CASE i \notin 1 .. Len(q)
    <3>1. i - Len(q) \in 1 .. Len(r) /\ (q \o r)[i] = r[i - Len(q)]
      BY <1>0, <2>2, JoinIs
    <3>2. stays1 \/ Later(r, Offs, i - Len(q))
      BY <1>2, <3>1 DEF Silenced
    <3>3. ASSUME Later(r, Offs, i - Len(q)) PROVE Later(q \o r, Offs, i)
      <4>1. PICK j \in 1 .. Len(r) : j > i - Len(q) /\ r[j] \in Offs
        BY <3>3 DEF Later
      <4>2. Len(q) + j \in 1 .. Len(q \o r) /\ (q \o r)[Len(q) + j] = r[j] /\ Len(q) + j > i
        BY <1>0, <4>1, JoinIs
      <4> QED
        BY <4>1, <4>2 DEF Later
    <3> QED
      BY <3>2, <3>3
  <2> QED
    BY <2>1, <2>2
<1> QED
  BY <1>1, <1>2 DEF Silenced

LEMMA SilencedRead ==
  ASSUME NEW S, NEW q \in Seq(S), q # <<>>, NEW On, NEW Offs, NEW now, NEW now1, NEW stays, NEW stays1,
         Silenced(q, now, On, Offs, stays), stays => stays1,
         now1 => Head(q) \in On \/ stays1 \/ (now /\ Head(q) \notin Offs)
  PROVE  Silenced(Tail(q), now1, On, Offs, stays1)
<1>1. ASSUME now1 PROVE stays1 \/ Later(Tail(q), Offs, 0)
  <2>1. CASE Head(q) \in On
    <3>1. q[1] \in On /\ 1 \in 1 .. Len(q)
      BY <2>1, TailIs
    <3>2. stays \/ Later(q, Offs, 0 + 1)
      BY <3>1 DEF Silenced
    <3>3. 0 \in 0 .. Len(q) - 1
      BY TailIs
    <3> QED
      BY <3>2, <3>3, LaterTail
  <2>2. CASE now /\ Head(q) \notin Offs
    <3>1. stays \/ Later(q, Offs, 0)
      BY <2>2 DEF Silenced
    <3> QED
      BY <2>2, <3>1, LaterRead
  <2> QED
    BY <1>1, <2>1, <2>2
<1>2. ASSUME NEW i \in 1 .. Len(Tail(q)), Tail(q)[i] \in On PROVE stays1 \/ Later(Tail(q), Offs, i)
  <2>1. i + 1 \in 1 .. Len(q) /\ q[i + 1] \in On /\ i \in 0 .. Len(q) - 1
    BY <1>2, TailIs
  <2>2. stays \/ Later(q, Offs, i + 1)
    BY <2>1 DEF Silenced
  <2> QED
    BY <2>1, <2>2, LaterTail
<1> QED
  BY <1>1, <1>2 DEF Silenced

\* With nothing on the way.
LEMMA SilencedEmpty ==
  ASSUME NEW On, NEW Offs, NEW now, NEW stays
  PROVE  Silenced(<<>>, now, On, Offs, stays) <=> (now => stays)
<1>1. Len(<<>>) = 0
  OBVIOUS
<1> QED
  BY <1>1 DEF Silenced, Later

LEMMA SilencedOne ==
  ASSUME NEW On, NEW Offs, NEW x, NEW stays, x \in On => stays
  PROVE  Silenced(<<x>>, FALSE, On, Offs, stays) /\ (x \in Offs => Later(<<x>>, Offs, 0))
<1>1. Len(<<x>>) = 1 /\ <<x>>[1] = x
  OBVIOUS
<1> QED
  BY <1>1 DEF Silenced, Later

-----------------------------------------------------------------------------
(* The actions that the provider makes *)

LEMMA Profile ==
  /\ \A b \in DeckButtons : ButtonDoes[b] \in DeckDoes
  /\ \A c \in DeckChords : c.buttons \subseteq DeckButtons /\ c.does \in ChordDoes
  /\ \A cs \in SUBSET DeckChords : IsFiniteSet(cs)
  /\ \A ps \in SUBSET DeckPanes : IsFiniteSet(ps)
  /\ NoPane \notin DeckPanes /\ Paddles \subseteq DeckButtons
<1>1. \A c \in DeckChords : c.buttons \subseteq DeckButtons /\ c.does \in ChordDoes
  BY DeckAssumption
<1>2. \A cs \in SUBSET DeckChords : IsFiniteSet(cs)
  BY DeckAssumption, FS_Subset
<1>3. \A ps \in SUBSET DeckPanes : IsFiniteSet(ps)
  BY DeckAssumption, FS_Subset
<1>4. \A b \in DeckButtons : ButtonDoes[b] \in DeckDoes
  BY DeckAssumption
<1>5. NoPane \notin DeckPanes /\ Paddles \subseteq DeckButtons
  BY DeckAssumption
<1> QED
  BY <1>1, <1>2, <1>3, <1>4, <1>5

LEMMA ActIs ==
  ASSUME NEW does, NEW by, NEW on
  PROVE  /\ Act(does, by, on).does = does /\ Act(does, by, on).by = by /\ Act(does, by, on).on = on
         /\ Act(does, by, on) = [does |-> does, by |-> by, on |-> on]
BY DEF Act

LEMMA ActOn ==
  ASSUME NEW does, NEW by
  PROVE  /\ Act(does, by, TRUE).on /\ ~Act(does, by, FALSE).on
         /\ Act(does, by, TRUE).does = does /\ Act(does, by, FALSE).does = does
         /\ Act(does, by, TRUE).by = by /\ Act(does, by, FALSE).by = by
BY DEF Act

LEMMA Single ==
  ASSUME NEW S, NEW x \in S
  PROVE  <<x>> \in Seq(S) /\ Len(<<x>>) = 1 /\ <<x>>[1] = x /\ \A i \in 1 .. Len(<<x>>) : <<x>>[i] = x
OBVIOUS

LEMMA MadeIs ==
  /\ \A b \in DeckButtons, on \in BOOLEAN : Act(ButtonDoes[b], b, on) \in Made
  /\ \A b \in DeckButtons : Act("startup", b, TRUE) \in Made
  /\ \A p \in DeckPanes, on \in BOOLEAN : Act("quill", p, on) \in Made /\ Act("throttle", p, on) \in Made
  /\ \A h \in Moved, on \in BOOLEAN : Act("dpad", h, on) \in Made
  /\ \A does \in ChordDoes, on \in BOOLEAN : Act(does, NoPane, on) \in Made
  /\ Act("disconnect", NoPane, TRUE) \in Made
<1>1. ASSUME NEW does, NEW by, NEW on \in BOOLEAN,
             does \in DeckDoes \cup ChordDoes \cup {"throttle", "quill", "dpad", "disconnect"},
             by \in DeckButtons \cup DeckPanes \cup Hats \cup {NoPane}
      PROVE  Act(does, by, on) \in Acts
  BY <1>1 DEF Act, Acts
<1>2. \A b \in DeckButtons, on \in BOOLEAN : Act(ButtonDoes[b], b, on) \in Made
  <2> TAKE b \in DeckButtons, on \in BOOLEAN
  <2>1. ButtonDoes[b] \in DeckDoes
    BY Profile
  <2>2. Act(ButtonDoes[b], b, on) \in Acts
    BY <1>1, <2>1
  <2>3. ButtonDoes[b] \notin {"throttle", "quill", "dpad"} \cup ChordDoes
    BY <2>1 DEF DeckDoes, ChordDoes
  <2> QED
    BY <2>2, <2>3, ActIs DEF Made
<1>3. \A b \in DeckButtons : Act("startup", b, TRUE) \in Made
  <2> TAKE b \in DeckButtons
  <2>1. Act("startup", b, TRUE) \in Acts
    BY <1>1 DEF DeckDoes
  <2> QED
    BY <2>1 DEF Made, Repeated, ChordDoes, Act
<1>4. \A p \in DeckPanes, on \in BOOLEAN : Act("quill", p, on) \in Made /\ Act("throttle", p, on) \in Made
  <2> TAKE p \in DeckPanes, on \in BOOLEAN
  <2>1. Act("quill", p, on) \in Acts /\ Act("throttle", p, on) \in Acts
    BY <1>1
  <2>2. Act("quill", p, on) \in Made
    BY <2>1, ActIs DEF Made, Repeated, ChordDoes
  <2>3. Act("throttle", p, on) \in Made
    BY <2>1, ActIs DEF Made, Repeated, ChordDoes
  <2> QED
    BY <2>2, <2>3
<1>5. \A h \in Moved, on \in BOOLEAN : Act("dpad", h, on) \in Made
  <2> TAKE h \in Moved, on \in BOOLEAN
  <2>1. Act("dpad", h, on) \in Acts
    BY <1>1 DEF Moved
  <2> QED
    BY <2>1, ActIs DEF Made, Repeated, ChordDoes
<1>6. \A does \in ChordDoes, on \in BOOLEAN : Act(does, NoPane, on) \in Made
  <2> TAKE does \in ChordDoes, on \in BOOLEAN
  <2>1. Act(does, NoPane, on) \in Acts
    BY <1>1
  <2>2. does \notin {"throttle", "quill", "dpad"} \cup Repeated
    BY DEF Repeated, ChordDoes
  <2> QED
    BY <2>1, <2>2, ActIs DEF Made
<1>7. Act("disconnect", NoPane, TRUE) \in Made
  <2>1. Act("disconnect", NoPane, TRUE) \in Acts
    BY <1>1
  <2> QED
    BY <2>1 DEF Made, Repeated, ChordDoes, Act
<1> QED
  BY <1>2, <1>3, <1>4, <1>5, <1>6, <1>7

\* The actions of the chords cs.
LEMMA EachIs ==
  ASSUME NEW cs \in SUBSET DeckChords, NEW on \in BOOLEAN
  PROVE  /\ Each(cs, on) \in Seq(Made)
         /\ \A i \in 1 .. Len(Each(cs, on)) : \E c \in cs : Each(cs, on)[i] = Act(c.does, NoPane, on)
         /\ \A c \in cs : \E i \in 1 .. Len(Each(cs, on)) : Each(cs, on)[i] = Act(c.does, NoPane, on)
<1> DEFINE s == SetToSeq(cs)
           r == [i \in DOMAIN s |-> Act(s[i].does, NoPane, on)]
<1>1. s \in Seq(cs) /\ \A x \in cs : \E i \in 1 .. Len(s) : s[i] = x
  BY Profile, SetSeq
<1>2. Each(cs, on) = r
  BY DEF Each
<1> HIDE DEF s
<1>3. Len(s) \in Nat /\ DOMAIN s = 1 .. Len(s) /\ \A i \in 1 .. Len(s) : s[i] \in cs
  BY <1>1
<1>4. \A c \in cs : Act(c.does, NoPane, on) \in Made
  BY Profile, MadeIs
<1>5. r \in Seq(Made) /\ Len(r) = Len(s) /\ \A i \in 1 .. Len(s) : r[i] = Act(s[i].does, NoPane, on)
  <2>1. \A i \in 1 .. Len(s) : r[i] = Act(s[i].does, NoPane, on) /\ r[i] \in Made
    BY <1>3, <1>4
  <2>2. r = [i \in 1 .. Len(s) |-> r[i]]
    BY <1>3
  <2> HIDE DEF r
  <2> QED
    BY <1>3, <2>1, <2>2
<1> HIDE DEF r
<1> QED
  BY <1>1, <1>2, <1>3, <1>5

\* A report.
LEMMA Appended ==
  ASSUME NEW q \in Seq(Events), NEW e \in Events
  PROVE  /\ Append(q, e) \in Seq(Events) /\ Append(q, e) = q \o <<e>> /\ <<e>> \in Seq(Events)
         /\ Len(Append(q, e)) = Len(q) + 1 /\ Append(q, e)[Len(q) + 1] = e /\ Len(q) \in Nat
         /\ \A i \in 1 .. Len(q) : Append(q, e)[i] = q[i]
OBVIOUS

LEMMA EventIs ==
  /\ \A b \in DeckButtons, on \in BOOLEAN : <<"button", b, on>> \in Events
  /\ \A p \in DeckPanes, on \in BOOLEAN : <<"axis", p, on>> \in Events
  /\ \A h \in Hats : <<"hat", h, TRUE>> \in Events
  /\ Gone \in Events
  /\ \A e \in Events : /\ e = <<e[1], e[2], e[3]>> /\ e[3] \in BOOLEAN
                       /\ e[1] \in {"button", "axis", "hat", "removed"}
                       /\ e[1] = "button" => e[2] \in DeckButtons
                       /\ e[1] = "axis" => e[2] \in DeckPanes
                       /\ e[1] = "hat" => e[2] \in Hats /\ e[3] = TRUE
                       /\ e[1] = "removed" => e = Gone
<1>2. ASSUME NEW e \in Events
      PROVE  /\ e = <<e[1], e[2], e[3]>> /\ e[3] \in BOOLEAN
             /\ e[1] \in {"button", "axis", "hat", "removed"}
             /\ e[1] = "button" => e[2] \in DeckButtons
             /\ e[1] = "axis" => e[2] \in DeckPanes
             /\ e[1] = "hat" => e[2] \in Hats /\ e[3] = TRUE
             /\ e[1] = "removed" => e = Gone
  <2>1. CASE e \in {"button"} \X DeckButtons \X BOOLEAN
    <3>1. e = <<e[1], e[2], e[3]>> /\ e[3] \in BOOLEAN /\ e[1] = "button" /\ e[2] \in DeckButtons
      BY <2>1
    <3> QED
      BY <3>1
  <2>2. CASE e \in {"axis"} \X DeckPanes \X BOOLEAN
    <3>1. e = <<e[1], e[2], e[3]>> /\ e[3] \in BOOLEAN /\ e[1] = "axis" /\ e[2] \in DeckPanes
      BY <2>2
    <3> QED
      BY <3>1
  <2>3. CASE e \in {"hat"} \X Hats \X {TRUE}
    <3>1. e = <<e[1], e[2], e[3]>> /\ e[1] = "hat" /\ e[2] \in Hats
      BY <2>3
    <3>2. e[3] \in {TRUE}
      BY ONLY <2>3
    <3>3. e[3] = TRUE
      BY ONLY <3>2
    <3> QED
      BY <3>1, <3>3
  <2>4. CASE e = Gone
    <3>1. e = <<e[1], e[2], e[3]>> /\ e[3] = TRUE /\ e[1] = "removed"
      BY <2>4 DEF Gone
    <3> QED
      BY <2>4, <3>1
  <2> QED
    BY <2>1, <2>2, <2>3, <2>4 DEF Events
<1>3. /\ \A b \in DeckButtons, on \in BOOLEAN : <<"button", b, on>> \in Events
      /\ \A p \in DeckPanes, on \in BOOLEAN : <<"axis", p, on>> \in Events
      /\ \A h \in Hats : <<"hat", h, TRUE>> \in Events
      /\ Gone \in Events
  BY DEF Events
<1> QED
  BY ONLY <1>2, <1>3

-----------------------------------------------------------------------------
(* Types *)

\* What a button's edge makes.
LEMMA DownMakes ==
  ASSUME DeckTypes, NEW b \in DeckButtons, ButtonDown(b)
  PROVE  \E r \in Seq(Made) :
           /\ batch' = batch \o r
           /\ \A i \in 1 .. Len(r) : \/ r[i] = Act(ButtonDoes[b], b, TRUE) /\ b \notin LongButtons
                                     \/ \E c \in chords' : r[i] = Act(c.does, NoPane, TRUE)
           /\ chords' = chords \cup Completed(b)
<1> DEFINE done == Completed(b)
<1>0. done \in SUBSET DeckChords /\ <<>> \in Seq(Made) /\ batch = batch \o <<>>
  BY DEF Completed, DeckTypes, ProviderTypes
<1>1. chords' = chords \cup done
  BY DEF ButtonDown
<1>2. CASE done # {}
  <2>1. batch' = batch \o Each(done, TRUE)
    BY <1>2 DEF ButtonDown, Tell
  <2>2. Each(done, TRUE) \in Seq(Made) /\ \A i \in 1 .. Len(Each(done, TRUE)) : \E c \in done :
          Each(done, TRUE)[i] = Act(c.does, NoPane, TRUE)
    BY <1>0, EachIs
  <2> HIDE DEF done
  <2> QED
    BY <1>1, <2>1, <2>2 DEF done
<1>3. CASE done = {} /\ b \in LongButtons
  <2>1. batch' = batch
    BY <1>3 DEF ButtonDown
  <2>2. Len(<<>>) = 0
    OBVIOUS
  <2> DEFINE r == <<>>
  <2>3. r \in Seq(Made) /\ Len(r) = 0 /\ batch' = batch \o r
    BY <1>0, <2>1
  <2>4. \A i \in 1 .. Len(r) : FALSE
    BY <2>3
  <2> HIDE DEF r, done
  <2> QED
    BY <1>1, <2>3, <2>4 DEF done
<1>4. CASE done = {} /\ b \notin LongButtons
  <2>1. batch' = batch \o <<Act(ButtonDoes[b], b, TRUE)>>
    BY <1>4 DEF ButtonDown, Tell
  <2>2. Act(ButtonDoes[b], b, TRUE) \in Made
    BY MadeIs
  <2> DEFINE r == <<Act(ButtonDoes[b], b, TRUE)>>
  <2>3. r \in Seq(Made) /\ \A i \in 1 .. Len(r) : r[i] = Act(ButtonDoes[b], b, TRUE)
    BY <2>2, Single
  <2>4. batch' = batch \o r
    BY <2>1
  <2> HIDE DEF r, done
  <2> QED
    BY <1>1, <1>4, <2>3, <2>4 DEF done
<1> QED
  BY <1>2, <1>3, <1>4

LEMMA UpMakes ==
  ASSUME DeckTypes, NEW b \in DeckButtons, ButtonUp(b)
  PROVE  \E r \in Seq(Made) :
           /\ batch' = batch \o r
           /\ \A i \in 1 .. Len(r) : ~r[i].on \/ (r[i] = Act("startup", b, TRUE) /\ b \in longs \ chorded)
           /\ b \notin LongButtons => \E i \in 1 .. Len(r) : r[i] = Act(ButtonDoes[b], b, FALSE)
           /\ \A c \in chords \ chords' : \E i \in 1 .. Len(r) : r[i] = Act(c.does, NoPane, FALSE)
<1> DEFINE over == {c \in chords : b \in c.buttons}
           last == IF b \notin LongButtons THEN <<Act(ButtonDoes[b], b, FALSE)>>
                   ELSE IF b \in longs \ chorded THEN <<Act("startup", b, TRUE)>> ELSE <<>>
           first == Each(over, FALSE)
<1>1. batch' = batch \o (first \o last) /\ chords' = chords \ over
  BY DEF ButtonUp, Tell
<1>2. /\ first \in Seq(Made)
      /\ \A i \in 1 .. Len(first) : \E c \in over : first[i] = Act(c.does, NoPane, FALSE)
      /\ \A c \in over : \E i \in 1 .. Len(first) : first[i] = Act(c.does, NoPane, FALSE)
  <2>1. over \in SUBSET DeckChords
    BY DEF DeckTypes, ProviderTypes
  <2> HIDE DEF over
  <2> QED
    BY <2>1, EachIs
<1>3. /\ last \in Seq(Made)
      /\ \A i \in 1 .. Len(last) : \/ last[i] = Act(ButtonDoes[b], b, FALSE)
                                   \/ last[i] = Act("startup", b, TRUE) /\ b \in longs \ chorded
      /\ b \notin LongButtons => Len(last) = 1 /\ last[1] = Act(ButtonDoes[b], b, FALSE)
  <2>1. Act(ButtonDoes[b], b, FALSE) \in Made /\ Act("startup", b, TRUE) \in Made
    BY MadeIs
  <2>2. CASE b \notin LongButtons
    <3>1. last = <<Act(ButtonDoes[b], b, FALSE)>>
      BY <2>2
    <3> HIDE DEF last
    <3>2. /\ last \in Seq(Made) /\ Len(last) = 1 /\ last[1] = Act(ButtonDoes[b], b, FALSE)
          /\ \A i \in 1 .. Len(last) : last[i] = Act(ButtonDoes[b], b, FALSE)
      BY <2>1, <3>1, Single
    <3>3. last[1] = Act(ButtonDoes[b], b, FALSE)
      BY <3>2
    <3> HIDE DEF last
    <3> QED
      BY <2>2, <3>2, <3>3
  <2>3. CASE b \in LongButtons /\ b \in longs \ chorded
    <3>1. last = <<Act("startup", b, TRUE)>>
      BY <2>3
    <3> HIDE DEF last
    <3>2. last \in Seq(Made) /\ \A i \in 1 .. Len(last) : last[i] = Act("startup", b, TRUE)
      BY <2>1, <3>1, Single
    <3> QED
      BY <2>3, <3>2
  <2>4. CASE b \in LongButtons /\ b \notin longs \ chorded
    <3>1. last = <<>>
      BY <2>4
    <3> HIDE DEF last
    <3>2. last \in Seq(Made) /\ Len(last) = 0
      BY <3>1
    <3>3. \A i \in 1 .. Len(last) : FALSE
      BY <3>2
    <3> QED
      BY <2>4, <3>2, <3>3
  <2> QED
    BY <2>2, <2>3, <2>4
<1> HIDE DEF first, last, over
<1> DEFINE r == first \o last
<1>4. /\ r \in Seq(Made) /\ Len(r) = Len(first) + Len(last) /\ Len(first) \in Nat /\ Len(last) \in Nat
      /\ \A i \in 1 .. Len(first) : r[i] = first[i]
      /\ \A i \in 1 .. Len(last) : r[Len(first) + i] = last[i]
      /\ \A i \in 1 .. Len(first) + Len(last) :
           i \in 1 .. Len(first) \/ (i - Len(first) \in 1 .. Len(last) /\ i = Len(first) + (i - Len(first)))
  BY <1>2, <1>3, JoinIs
<1> HIDE DEF r
<1>5. \A i \in 1 .. Len(r) : ~r[i].on \/ (r[i] = Act("startup", b, TRUE) /\ b \in longs \ chorded)
  <2> TAKE i \in 1 .. Len(r)
  <2>1. CASE i \in 1 .. Len(first)
    <3>1. PICK c \in over : first[i] = Act(c.does, NoPane, FALSE)
      BY <1>2, <2>1
    <3>2. r[i] = Act(c.does, NoPane, FALSE)
      BY <1>4, <2>1, <3>1
    <3>3. ~r[i].on
      BY <3>2 DEF Act
    <3> QED
      BY <3>3
  <2>2. CASE i - Len(first) \in 1 .. Len(last) /\ i = Len(first) + (i - Len(first))
    <3>1. r[i] = last[i - Len(first)]
      BY <1>4, <2>2
    <3>2. CASE last[i - Len(first)] = Act(ButtonDoes[b], b, FALSE)
      <4>1. ~Act(ButtonDoes[b], b, FALSE).on
        BY ActOn
      <4> QED
        BY <3>1, <3>2, <4>1
    <3>3. CASE last[i - Len(first)] = Act("startup", b, TRUE) /\ b \in longs \ chorded
      BY <3>1, <3>3
    <3> QED
      BY <1>3, <2>2, <3>2, <3>3
  <2> QED
    BY <1>4, <2>1, <2>2
<1>6. b \notin LongButtons => \E i \in 1 .. Len(r) : r[i] = Act(ButtonDoes[b], b, FALSE)
  <2> SUFFICES ASSUME b \notin LongButtons PROVE \E i \in 1 .. Len(r) : r[i] = Act(ButtonDoes[b], b, FALSE)
    OBVIOUS
  <2>0. Len(last) = 1 /\ last[1] = Act(ButtonDoes[b], b, FALSE)
    BY <1>3
  <2>1. Len(last) = 1 /\ last[1] = Act(ButtonDoes[b], b, FALSE) /\ 1 \in 1 .. Len(last)
    BY <2>0
  <2>2. Len(first) + 1 \in 1 .. Len(r) /\ r[Len(first) + 1] = last[1]
    <3>1. r[Len(first) + 1] = last[1]
      BY <1>4, <2>1
    <3>2. Len(first) + 1 \in 1 .. Len(r)
      BY ONLY <1>4, <2>1
    <3> QED
      BY <3>1, <3>2
  <2> QED
    BY <2>1, <2>2
<1>7. \A c \in chords \ chords' : \E i \in 1 .. Len(r) : r[i] = Act(c.does, NoPane, FALSE)
  <2> TAKE c \in chords \ chords'
  <2>1. PICK i \in 1 .. Len(first) : first[i] = Act(c.does, NoPane, FALSE)
    BY <1>1, <1>2
  <2>2. i \in 1 .. Len(r) /\ r[i] = first[i]
    BY <1>4
  <2> QED
    BY <2>1, <2>2
<1>8. batch' = batch \o r /\ r \in Seq(Made)
  BY <1>1, <1>4 DEF r
<1> QED
  BY <1>5, <1>6, <1>7, <1>8

\* The actions by who takes them.
HandsMove ==
  \/ \E b \in DeckButtons : MoveButton(b)
  \/ \E p \in AnalogPanes : MoveStick(p) \/ MovePad(p)
  \/ \E p \in DeckPanes : TouchScreen(p)
  \/ \E h \in Hats : MoveHat(h)
  \/ Reconnect

LEMMA HandsTyped ==
  ASSUME DeckTypes, HandsMove
  PROVE  DeckTypes' /\ UNCHANGED <<pc, providerVars, batch, router, speed>> /\ pc \in {"poll", "sdl"}
<1>0. /\ hands \in [buttons : SUBSET DeckButtons, sticks : SUBSET DeckPanes,
                    pads : SUBSET DeckPanes, hat : Hats]
      /\ sdl \in Seq(Events) /\ AnalogPanes \subseteq DeckPanes
      /\ gui \in [focus : DeckPanes, controls : BOOLEAN, panel : [DeckPanes -> Panels], holds : SUBSET DeckPanes]
      /\ clear \in BOOLEAN /\ together \subseteq DeckButtons /\ owed \in [DeckButtons -> Int]
  BY DeckAssumption DEF DeckTypes, HandsTypes, RouterTypes, GhostTypes
<1>1. UNCHANGED <<pc, providerVars, batch, router, speed>> /\ pc \in {"poll", "sdl"}
  BY DEF HandsMove, MoveButton, MoveStick, MovePad, TouchScreen, MoveHat, Reconnect, ByHand, Between
<1>2. trouble' \in [inputs : 0 .. DeckInputs, rest : 0 .. DeckTrouble]
  <2>0. /\ trouble \in [inputs : 0 .. DeckInputs, rest : 0 .. DeckTrouble]
        /\ DeckInputs \in Nat /\ DeckTrouble \in Nat
    BY DeckAssumption DEF DeckTypes, HandsTypes
  <2>a. /\ trouble.inputs \in 0 .. DeckInputs /\ trouble.rest \in 0 .. DeckTrouble
        /\ trouble.inputs > 0 => trouble.inputs - 1 \in 0 .. DeckInputs
        /\ trouble.rest > 0 => trouble.rest - 1 \in 0 .. DeckTrouble
    BY <2>0
  <2>1. CASE ByHand
    <3>1. trouble.inputs > 0 /\ trouble' = [trouble EXCEPT !.inputs = trouble.inputs - 1]
      BY <2>1 DEF ByHand
    <3> QED
      BY <2>0, <2>a, <3>1
  <2>2. CASE Reconnect
    <3>1. /\ trouble.inputs > 0 /\ trouble.rest > 0
          /\ trouble' = [trouble EXCEPT !.inputs = trouble.inputs - 1, !.rest = trouble.rest - 1]
      BY <2>2 DEF Reconnect, Troubles
    <3> QED
      BY <2>0, <2>a, <3>1
  <2> QED
    BY <2>1, <2>2 DEF HandsMove, MoveButton, MoveStick, MovePad, TouchScreen, MoveHat
<1>3. ASSUME NEW b \in DeckButtons, MoveButton(b)
      PROVE  hands' \in [buttons : SUBSET DeckButtons, sticks : SUBSET DeckPanes, pads : SUBSET DeckPanes, hat : Hats]
             /\ sdl' \in Seq(Events) /\ GhostTypes' /\ gui' = gui
  <2>1. hands' = [hands EXCEPT !.buttons = Flip(@, b)] /\ Flip(hands.buttons, b) \subseteq DeckButtons
    BY <1>0, <1>3 DEF MoveButton, Flip
  <2> DEFINE e == <<"button", b, b \notin hands.buttons>>
  <2>2. e \in Events
    <3>1. (b \notin hands.buttons) \in BOOLEAN
      OBVIOUS
    <3> QED
      BY <3>1, EventIs
  <2>3. sdl' = sdl \/ sdl' = Append(sdl, e)
    BY <1>3 DEF MoveButton, Reports
  <2> HIDE DEF e
  <2>4. sdl' \in Seq(Events)
    <3>1. sdl \in Seq(Events)
      BY <1>0
    <3>2. Append(sdl, e) \in Seq(Events)
      BY <2>2, <3>1, Appended
    <3> QED
      BY <2>3, <3>1, <3>2
  <2>5. owed' \in [DeckButtons -> Int]
    BY <1>0, <1>3 DEF MoveButton
  <2>6. UNCHANGED <<gui, clear, together>>
    BY <1>3 DEF MoveButton
  <2> QED
    BY <1>0, <2>1, <2>4, <2>5, <2>6 DEF GhostTypes
<1>4. ASSUME NEW p \in DeckPanes, MoveStick(p) \/ MovePad(p)
      PROVE  hands' \in [buttons : SUBSET DeckButtons, sticks : SUBSET DeckPanes, pads : SUBSET DeckPanes, hat : Hats]
             /\ sdl' \in Seq(Events) /\ GhostTypes' /\ gui' = gui
  <2>1. hands' \in [buttons : SUBSET DeckButtons, sticks : SUBSET DeckPanes, pads : SUBSET DeckPanes, hat : Hats]
    BY <1>0, <1>4 DEF MoveStick, MovePad, Flip
  <2> DEFINE e == <<"axis", p, p \notin hands.sticks>>
  <2>2. e \in Events
    <3>1. (p \notin hands.sticks) \in BOOLEAN
      OBVIOUS
    <3> QED
      BY <3>1, EventIs
  <2>3. sdl' = sdl \/ sdl' = Append(sdl, e)
    BY <1>4 DEF MoveStick, MovePad, Reports
  <2> HIDE DEF e
  <2>4. sdl' \in Seq(Events)
    BY <1>0, <2>2, <2>3, Appended
  <2>6. UNCHANGED <<gui, clear, together, owed>>
    BY <1>4 DEF MoveStick, MovePad, ghosts
  <2> QED
    BY <1>0, <2>1, <2>4, <2>6 DEF GhostTypes
<1>5. ASSUME NEW h \in Hats, MoveHat(h)
      PROVE  hands' \in [buttons : SUBSET DeckButtons, sticks : SUBSET DeckPanes, pads : SUBSET DeckPanes, hat : Hats]
             /\ sdl' \in Seq(Events) /\ GhostTypes' /\ gui' = gui
  <2>1. hands' \in [buttons : SUBSET DeckButtons, sticks : SUBSET DeckPanes, pads : SUBSET DeckPanes, hat : Hats]
    BY <1>0, <1>5 DEF MoveHat
  <2> DEFINE e == <<"hat", h, TRUE>>
  <2>2. sdl' = Append(sdl, e) /\ e \in Events
    BY <1>5, EventIs DEF MoveHat, Reports
  <2> HIDE DEF e
  <2>4. sdl' \in Seq(Events)
    BY <1>0, <2>2, Appended
  <2>6. UNCHANGED <<gui, clear, together, owed>>
    BY <1>5 DEF MoveHat, ghosts
  <2> QED
    BY <1>0, <2>1, <2>4, <2>6 DEF GhostTypes
<1>6. ASSUME Reconnect
      PROVE  hands' = hands /\ sdl' \in Seq(Events) /\ GhostTypes' /\ gui' = gui
  <2>2. sdl' = Append(sdl, Gone) /\ Gone \in Events
    BY <1>6, EventIs DEF Reconnect, Reports, Gone
  <2>4. sdl' \in Seq(Events)
    BY <1>0, <2>2, Appended
  <2>6. UNCHANGED <<hands, gui, clear, together, owed>>
    BY <1>6 DEF Reconnect, ghosts
  <2> QED
    BY <1>0, <2>4, <2>6 DEF GhostTypes
<1>7. ASSUME NEW p \in DeckPanes, TouchScreen(p)
      PROVE  /\ hands' = hands /\ sdl' = sdl /\ GhostTypes'
             /\ gui' \in [focus : DeckPanes, controls : BOOLEAN, panel : [DeckPanes -> Panels], holds : SUBSET DeckPanes]
  <2>1. UNCHANGED <<hands, sdl, owed, together>> /\ clear' \in {clear, FALSE}
    BY <1>7 DEF TouchScreen
  <2>2. ASSUME \E x \in Panels : gui' = [gui EXCEPT !.panel[p] = x]
        PROVE  gui' \in [focus : DeckPanes, controls : BOOLEAN, panel : [DeckPanes -> Panels], holds : SUBSET DeckPanes]
    <3>1. PICK x \in Panels : gui' = [gui EXCEPT !.panel = [gui.panel EXCEPT ![p] = x]]
      BY <2>2
    <3>2. [gui.panel EXCEPT ![p] = x] \in [DeckPanes -> Panels]
      BY <1>0
    <3>3. gui \in [focus : DeckPanes, controls : BOOLEAN, panel : [DeckPanes -> Panels], holds : SUBSET DeckPanes]
      BY <1>0
    <3> DEFINE y == [gui.panel EXCEPT ![p] = x]
    <3>4. y \in [DeckPanes -> Panels] /\ gui' = [gui EXCEPT !.panel = y]
      BY <3>1, <3>2
    <3> HIDE DEF y
    <3> QED
      BY ONLY <3>3, <3>4
  <2>3. ASSUME gui' = [gui EXCEPT !.controls = ~@]
        PROVE  gui' \in [focus : DeckPanes, controls : BOOLEAN, panel : [DeckPanes -> Panels], holds : SUBSET DeckPanes]
    <3> DEFINE y == ~gui.controls
    <3>1. gui' = [gui EXCEPT !.controls = y] /\ y \in BOOLEAN
      BY <2>3
    <3>3. gui \in [focus : DeckPanes, controls : BOOLEAN, panel : [DeckPanes -> Panels], holds : SUBSET DeckPanes]
      BY <1>0
    <3> HIDE DEF y
    <3> QED
      BY ONLY <3>1, <3>3
  <2>4. gui' \in [focus : DeckPanes, controls : BOOLEAN, panel : [DeckPanes -> Panels], holds : SUBSET DeckPanes]
    BY <1>7, <2>2, <2>3 DEF TouchScreen
  <2> QED
    BY <1>0, <2>1, <2>4 DEF GhostTypes
<1>8. HandsTypes' /\ GhostTypes'
  BY <1>0, <1>1, <1>2, <1>3, <1>4, <1>5, <1>6, <1>7 DEF HandsMove, HandsTypes, DeckTypes
<1>9. gui' \in [focus : DeckPanes, controls : BOOLEAN, panel : [DeckPanes -> Panels], holds : SUBSET DeckPanes]
  BY <1>0, <1>3, <1>4, <1>5, <1>6, <1>7 DEF HandsMove
<1>10. ProviderTypes' /\ RouterTypes'
  BY <1>1, <1>9 DEF DeckTypes, ProviderTypes, RouterTypes, providerVars
<1> QED
  BY <1>1, <1>8, <1>10 DEF DeckTypes

-----------------------------------------------------------------------------
LEMMA DownTyped ==
  ASSUME DeckTypes, NEW b \in DeckButtons, ButtonDown(b), hat' = hat, clear' = clear,
         reported' \in [buttons : SUBSET Paddles, pads : SUBSET DeckPanes]
  PROVE  ProviderTypes' /\ GhostTypes'
<1>0. /\ held \subseteq DeckButtons /\ chords \subseteq DeckChords /\ longs \subseteq LongButtons
      /\ chorded \subseteq LongButtons /\ hat \in Hats /\ batch \in Seq(Made)
      /\ clear \in BOOLEAN /\ together \subseteq DeckButtons /\ owed \in [DeckButtons -> Int]
  BY DEF DeckTypes, ProviderTypes, GhostTypes
<1> DEFINE done == Completed(b)
<1>1. /\ held' = held \cup {b} /\ chords' = chords \cup done
      /\ chorded' = chorded \cup Takes(done) /\ longs' \in {longs, longs \cup {b}}
      /\ longs' = longs \cup {b} => longs' = longs \/ b \in LongButtons
      /\ owed' = [owed EXCEPT ![b] = @ - 1]
      /\ together' = (together \ {b}) \cup UNION {c.buttons : c \in done}
  BY DEF ButtonDown
<1>2. done \subseteq DeckChords /\ \A c \in done : c.buttons \subseteq DeckButtons
  BY Profile DEF Completed
<1>3. batch' \in Seq(Made)
  <2>1. PICK r \in Seq(Made) : batch' = batch \o r
    BY DownMakes
  <2> QED
    BY <1>0, <2>1
<1> HIDE DEF done
<1>4. together' \subseteq DeckButtons
  BY <1>0, <1>1, <1>2
<1>5. owed' \in [DeckButtons -> Int]
  BY <1>0, <1>1
<1>6. chorded' \subseteq LongButtons /\ longs' \subseteq LongButtons
  BY <1>0, <1>1 DEF Takes
<1> QED
  BY <1>0, <1>1, <1>2, <1>3, <1>4, <1>5, <1>6 DEF ProviderTypes, GhostTypes

LEMMA UpTyped ==
  ASSUME DeckTypes, NEW b \in DeckButtons, ButtonUp(b), hat' = hat, clear' = clear,
         reported' \in [buttons : SUBSET Paddles, pads : SUBSET DeckPanes]
  PROVE  ProviderTypes' /\ GhostTypes'
<1>0. /\ held \subseteq DeckButtons /\ chords \subseteq DeckChords /\ longs \subseteq LongButtons
      /\ chorded \subseteq LongButtons /\ hat \in Hats /\ batch \in Seq(Made)
      /\ clear \in BOOLEAN /\ together \subseteq DeckButtons /\ owed \in [DeckButtons -> Int]
  BY DEF DeckTypes, ProviderTypes, GhostTypes
<1>1. /\ held' = held \ {b} /\ chords' \subseteq chords
      /\ longs' = longs \ {b} /\ chorded' = chorded \ {b} /\ UNCHANGED <<owed, together>>
  BY DEF ButtonUp
<1>3. batch' \in Seq(Made)
  <2>1. PICK r \in Seq(Made) : batch' = batch \o r
    BY UpMakes
  <2> QED
    BY <1>0, <2>1
<1> QED
  BY <1>0, <1>1, <1>3 DEF ProviderTypes, GhostTypes

LEMMA EdgeTyped ==
  ASSUME DeckTypes, NEW b \in DeckButtons, NEW on \in BOOLEAN, ButtonActions(b, on),
         reported' \in [buttons : SUBSET Paddles, pads : SUBSET DeckPanes]
  PROVE  ProviderTypes' /\ GhostTypes'
<1>0. hat' = hat /\ clear' = clear
  BY DEF ButtonActions
<1>1. CASE SameEdge(b, on)
  BY <1>0, <1>1 DEF ButtonActions, DeckTypes, ProviderTypes, GhostTypes
<1>2. CASE ~SameEdge(b, on) /\ on
  BY <1>0, <1>2, DownTyped DEF ButtonActions
<1>3. CASE ~SameEdge(b, on) /\ ~on
  BY <1>0, <1>3, UpTyped DEF ButtonActions
<1> QED
  BY <1>1, <1>2, <1>3

\* The acts of the pads.
LEMMA PadsMake ==
  ASSUME DeckTypes, PadActions
  PROVE  \E r \in Seq(Made) :
           /\ batch' = batch \o r
           /\ \A i \in 1 .. Len(r) : \E p \in DeckPanes :
                (r[i] = Act("quill", p, FALSE)) \/ (r[i] = Act("quill", p, TRUE) /\ p \in hands.pads)
           /\ \A p \in reported.pads \ hands.pads : \E i \in 1 .. Len(r) : r[i] = Act("quill", p, FALSE)
<1> DEFINE lifted == SetToSeq(reported.pads \ hands.pads)
           touching == SetToSeq(hands.pads)
           a == [i \in DOMAIN lifted |-> Act("quill", lifted[i], FALSE)]
           t == [i \in DOMAIN touching |-> Act("quill", touching[i], TRUE)]
<1>0. reported.pads \ hands.pads \in SUBSET DeckPanes /\ hands.pads \in SUBSET DeckPanes
  BY DEF DeckTypes, HandsTypes, ProviderTypes
<1>1. /\ lifted \in Seq(reported.pads \ hands.pads)
      /\ \A x \in reported.pads \ hands.pads : \E i \in 1 .. Len(lifted) : lifted[i] = x
  BY <1>0, Profile, SetSeq
<1>2. touching \in Seq(hands.pads)
  BY <1>0, Profile, SetSeq
<1>3. batch' = batch \o (a \o t)
  BY DEF PadActions, Tell
<1> HIDE DEF lifted, touching
<1>4. /\ Len(lifted) \in Nat /\ DOMAIN lifted = 1 .. Len(lifted)
      /\ \A i \in 1 .. Len(lifted) : lifted[i] \in DeckPanes
      /\ Len(touching) \in Nat /\ DOMAIN touching = 1 .. Len(touching)
      /\ \A i \in 1 .. Len(touching) : touching[i] \in DeckPanes /\ touching[i] \in hands.pads
  BY <1>0, <1>1, <1>2
<1>5. a \in Seq(Made) /\ Len(a) = Len(lifted) /\ \A i \in 1 .. Len(a) : a[i] = Act("quill", lifted[i], FALSE)
  <2>0. \A p \in DeckPanes : Act("quill", p, FALSE) \in Made
    BY MadeIs
  <2>1. DOMAIN a = 1 .. Len(lifted) /\ \A i \in 1 .. Len(lifted) : a[i] = Act("quill", lifted[i], FALSE)
    BY <1>4
  <2>2. a = [i \in 1 .. Len(lifted) |-> a[i]]
    BY <1>4
  <2> HIDE DEF a
  <2>3. \A i \in 1 .. Len(lifted) : a[i] \in Made
    BY <1>4, <2>0, <2>1
  <2>4. a \in Seq(Made) /\ Len(a) = Len(lifted)
    BY <1>4, <2>2, <2>3
  <2> QED
    BY <2>1, <2>4
<1>6. t \in Seq(Made) /\ Len(t) = Len(touching) /\ \A i \in 1 .. Len(t) : t[i] = Act("quill", touching[i], TRUE)
  <2>0. \A p \in DeckPanes : Act("quill", p, TRUE) \in Made
    BY MadeIs
  <2>1. DOMAIN t = 1 .. Len(touching) /\ \A i \in 1 .. Len(touching) : t[i] = Act("quill", touching[i], TRUE)
    BY <1>4
  <2>2. t = [i \in 1 .. Len(touching) |-> t[i]]
    BY <1>4
  <2> HIDE DEF t
  <2>3. \A i \in 1 .. Len(touching) : t[i] \in Made
    BY <1>4, <2>0, <2>1
  <2>4. t \in Seq(Made) /\ Len(t) = Len(touching)
    BY <1>4, <2>2, <2>3
  <2> QED
    BY <2>1, <2>4
<1> HIDE DEF a, t
<1> DEFINE r == a \o t
<1>7. /\ r \in Seq(Made) /\ Len(r) = Len(a) + Len(t)
      /\ \A i \in 1 .. Len(a) : r[i] = a[i]
      /\ \A i \in 1 .. Len(t) : r[Len(a) + i] = t[i]
      /\ \A i \in 1 .. Len(a) + Len(t) :
           i \in 1 .. Len(a) \/ (i - Len(a) \in 1 .. Len(t) /\ i = Len(a) + (i - Len(a)))
  BY <1>5, <1>6, JoinIs
<1>8. batch' = batch \o r
  BY <1>3
<1> HIDE DEF r
<1>9. ASSUME NEW i \in 1 .. Len(r)
      PROVE \E p \in DeckPanes :
              (r[i] = Act("quill", p, FALSE)) \/ (r[i] = Act("quill", p, TRUE) /\ p \in hands.pads)
  <2>1. CASE i \in 1 .. Len(a)
    <3>1. r[i] = Act("quill", lifted[i], FALSE) /\ lifted[i] \in DeckPanes
      BY <1>4, <1>5, <1>7, <2>1
    <3> QED
      BY <3>1
  <2>2. CASE i - Len(a) \in 1 .. Len(t) /\ i = Len(a) + (i - Len(a))
    <3>1. r[i] = t[i - Len(a)]
      BY <1>7, <2>2
    <3>2. t[i - Len(a)] = Act("quill", touching[i - Len(a)], TRUE) /\ touching[i - Len(a)] \in DeckPanes
          /\ touching[i - Len(a)] \in hands.pads
      BY <1>4, <1>6, <2>2
    <3> QED
      BY <3>1, <3>2
  <2> QED
    BY <1>7, <2>1, <2>2
<1>10. ASSUME NEW p \in reported.pads \ hands.pads PROVE \E i \in 1 .. Len(r) : r[i] = Act("quill", p, FALSE)
  <2>1. PICK i \in 1 .. Len(lifted) : lifted[i] = p
    BY <1>1
  <2>2. i \in 1 .. Len(a)
    BY <1>5, <2>1
  <2>3. Len(a) \in Nat /\ Len(t) \in Nat /\ Len(r) = Len(a) + Len(t)
    BY <1>4, <1>5, <1>6, <1>7
  <2>4. i \in 1 .. Len(r)
    BY ONLY <2>2, <2>3
  <2>5. r[i] = a[i] /\ a[i] = Act("quill", lifted[i], FALSE)
    BY <1>5, <1>7, <2>2
  <2> QED
    BY <2>1, <2>4, <2>5
<1> QED
  BY <1>7, <1>8, <1>9, <1>10

\* The acts of the hat.
DpadActs(x, on) == IF x = "neutral" THEN <<>> ELSE <<Act("dpad", x, on)>>
LEMMA HatMakes ==
  ASSUME DeckTypes, DecodeHat
  PROVE  \E h \in Hats, r \in Seq(Made) :
           /\ Head(sdl) = <<"hat", h, TRUE>> /\ hat' = h /\ batch' = batch \o r
           /\ \A i \in 1 .. Len(r) : r[i] = Act("dpad", hat, FALSE) \/ r[i] = Act("dpad", h, TRUE)
           /\ h # hat /\ hat # "neutral" => \E i \in 1 .. Len(r) : r[i] = Act("dpad", hat, FALSE)
<1>1. sdl # <<>> /\ Head(sdl)[1] = "hat"
  BY DEF DecodeHat, Event
<1>2. Head(sdl) \in Events
  BY <1>1, TailIs DEF DeckTypes, HandsTypes
<1> DEFINE h == Head(sdl)[2]
<1>3. h \in Hats /\ Head(sdl) = <<"hat", h, TRUE>> /\ hat \in Hats
  BY <1>1, <1>2, EventIs DEF DeckTypes, ProviderTypes
<1>4. hat' = h /\ batch' = batch \o (IF h = hat THEN <<>> ELSE DpadActs(hat, FALSE) \o DpadActs(h, TRUE))
  BY DEF DecodeHat, Tell, DpadActs
<1> HIDE DEF h
<1>5. ASSUME NEW x \in Hats, NEW on \in BOOLEAN
      PROVE  /\ DpadActs(x, on) \in Seq(Made) /\ Len(DpadActs(x, on)) \in Nat
             /\ \A i \in 1 .. Len(DpadActs(x, on)) : DpadActs(x, on)[i] = Act("dpad", x, on)
             /\ x # "neutral" => 1 \in 1 .. Len(DpadActs(x, on)) /\ DpadActs(x, on)[1] = Act("dpad", x, on)
  <2>1. CASE x = "neutral"
    <3>1. DpadActs(x, on) = <<>>
      BY <2>1 DEF DpadActs
    <3>2. <<>> \in Seq(Made) /\ Len(<<>>) = 0 /\ \A i \in 1 .. 0 : FALSE
      OBVIOUS
    <3> QED
      BY <2>1, <3>1, <3>2
  <2>2. CASE x # "neutral"
    <3>1. DpadActs(x, on) = <<Act("dpad", x, on)>>
      BY <2>2 DEF DpadActs
    <3>2. Act("dpad", x, on) \in Made
      BY <2>2, MadeIs DEF Moved
    <3>3. /\ DpadActs(x, on) \in Seq(Made) /\ Len(DpadActs(x, on)) = 1 /\ DpadActs(x, on)[1] = Act("dpad", x, on)
          /\ \A i \in 1 .. Len(DpadActs(x, on)) : DpadActs(x, on)[i] = Act("dpad", x, on)
      BY <3>1, <3>2, Single
    <3> QED
      BY <3>3
  <2> QED
    BY <2>1, <2>2
<1>6. CASE h = hat
  <2> DEFINE r == <<>>
  <2>1. r \in Seq(Made) /\ batch' = batch \o r /\ \A i \in 1 .. Len(r) : FALSE
    BY <1>4, <1>6
  <2> HIDE DEF r
  <2> QED
    BY <1>3, <1>4, <1>6, <2>1
<1>7. CASE h # hat
  <2> DEFINE a == DpadActs(hat, FALSE)
             t == DpadActs(h, TRUE)
             r == a \o t
  <2>1. /\ a \in Seq(Made) /\ t \in Seq(Made)
        /\ \A i \in 1 .. Len(a) : a[i] = Act("dpad", hat, FALSE)
        /\ \A i \in 1 .. Len(t) : t[i] = Act("dpad", h, TRUE)
        /\ hat # "neutral" => 1 \in 1 .. Len(a) /\ a[1] = Act("dpad", hat, FALSE)
    BY <1>3, <1>5
  <2>2. batch' = batch \o r
    BY <1>4, <1>7
  <2> HIDE DEF a, t
  <2>3. /\ r \in Seq(Made) /\ Len(r) = Len(a) + Len(t) /\ Len(a) \in Nat /\ Len(t) \in Nat
        /\ \A i \in 1 .. Len(a) : r[i] = a[i]
        /\ \A i \in 1 .. Len(t) : r[Len(a) + i] = t[i]
        /\ \A i \in 1 .. Len(a) + Len(t) :
             i \in 1 .. Len(a) \/ (i - Len(a) \in 1 .. Len(t) /\ i = Len(a) + (i - Len(a)))
    BY <2>1, JoinIs
  <2> HIDE DEF r
  <2>4. \A i \in 1 .. Len(r) : r[i] = Act("dpad", hat, FALSE) \/ r[i] = Act("dpad", h, TRUE)
    <3> TAKE i \in 1 .. Len(r)
    <3>1. CASE i \in 1 .. Len(a)
      BY <2>1, <2>3, <3>1
    <3>2. CASE i - Len(a) \in 1 .. Len(t) /\ i = Len(a) + (i - Len(a))
      <4>1. r[i] = t[i - Len(a)]
        BY <2>3, <3>2
      <4> QED
        BY <2>1, <3>2, <4>1
    <3> QED
      BY <2>3, <3>1, <3>2
  <2>5. hat # "neutral" => \E i \in 1 .. Len(r) : r[i] = Act("dpad", hat, FALSE)
    <3>a. hat # "neutral" => 1 \in 1 .. Len(a)
      BY <2>1
    <3>b. 1 \in 1 .. Len(a) => 1 \in 1 .. Len(r)
      BY ONLY <2>3
    <3>1. hat # "neutral" => 1 \in 1 .. Len(r) /\ r[1] = Act("dpad", hat, FALSE)
      BY <2>1, <2>3, <3>a, <3>b
    <3> QED
      BY <3>1
  <2> QED
    BY <1>3, <1>4, <2>2, <2>3, <2>4, <2>5
<1> QED
  BY <1>6, <1>7

\* The provider's acts.
LEMMA PollTyped ==
  ASSUME DeckTypes, PollInput
  PROVE  DeckTypes' /\ UNCHANGED <<hands, router, gui, speed, trouble, clear>>
<1>0. /\ reported \in [buttons : SUBSET Paddles, pads : SUBSET DeckPanes] /\ sdl \in Seq(Events)
      /\ hands \in [buttons : SUBSET DeckButtons, sticks : SUBSET DeckPanes,
                    pads : SUBSET DeckPanes, hat : Hats]
      /\ Paddles \subseteq DeckButtons /\ batch \in Seq(Made)
  BY Profile DEF DeckTypes, HandsTypes, ProviderTypes
<1>1. UNCHANGED <<hands, router, gui, speed, trouble, clear>>
  <2>1. UNCHANGED <<hands, router, gui, speed, trouble>>
    BY DEF PollInput, PollDeck, PaddleEdge, PadActions, TakeSdl, DecodeButton, DecodeAxis, DecodeHat, DecodeRemoved,
           Event, Provider
  <2>2. clear' = clear
    BY DEF PollInput, PollDeck, PaddleEdge, PadActions, TakeSdl, DecodeButton, DecodeAxis, DecodeHat, DecodeRemoved,
           ButtonActions, ghosts
  <2> QED
    BY <2>1, <2>2
<1>2. pc' \in {"poll", "paddles", "sdl", "decode", "tick"}
  BY DEF DeckTypes, HandsTypes, PollInput, PollDeck, PaddleEdge, PadActions, TakeSdl, DecodeButton, DecodeAxis,
         DecodeHat, DecodeRemoved, Event, Then
<1>3. sdl' \in Seq(Events)
  <2>1. sdl' = sdl \/ (sdl # <<>> /\ sdl' = Tail(sdl))
    BY DEF PollInput, PollDeck, PaddleEdge, PadActions, TakeSdl, DecodeButton, DecodeAxis, DecodeHat, DecodeRemoved,
           Event
  <2> QED
    BY <1>0, <2>1, TailIs
<1>4. HandsTypes' /\ RouterTypes'
  BY <1>1, <1>2, <1>3 DEF DeckTypes, HandsTypes, RouterTypes
<1>5. ASSUME PollDeck \/ TakeSdl PROVE ProviderTypes' /\ GhostTypes'
  <2>1. UNCHANGED <<providerVars, batch, ghosts>>
    BY <1>5 DEF PollDeck, TakeSdl
  <2> QED
    BY <1>1, <1>4, <2>1 DEF DeckTypes, ProviderTypes, GhostTypes, providerVars, ghosts
<1>6. ASSUME NEW b \in Paddles, PaddleEdge(b) PROVE ProviderTypes' /\ GhostTypes'
  <2>1. ButtonActions(b, b \in hands.buttons) /\ reported' = [reported EXCEPT !.buttons = Flip(reported.buttons, b)]
    BY <1>6 DEF PaddleEdge
  <2>2. reported' \in [buttons : SUBSET Paddles, pads : SUBSET DeckPanes]
    BY <1>0, <2>1 DEF Flip
  <2> DEFINE on == b \in hands.buttons
  <2>3. on \in BOOLEAN /\ ButtonActions(b, on) /\ b \in DeckButtons
    BY <1>0, <2>1
  <2> HIDE DEF on
  <2> QED
    BY <2>2, <2>3, EdgeTyped
<1>7. ASSUME PadActions PROVE ProviderTypes' /\ GhostTypes'
  <2>1. PICK r \in Seq(Made) : batch' = batch \o r
    BY <1>7, PadsMake
  <2>2. batch' \in Seq(Made)
    BY <1>0, <2>1
  <2>3. UNCHANGED <<held, chords, longs, chorded, hat, ghosts>> /\ reported' = [reported EXCEPT !.pads = hands.pads]
    BY <1>7 DEF PadActions
  <2>4. reported' \in [buttons : SUBSET Paddles, pads : SUBSET DeckPanes]
    BY <1>0, <2>3
  <2>5. /\ held \subseteq DeckButtons /\ chords \subseteq DeckChords /\ longs \subseteq LongButtons
        /\ chorded \subseteq LongButtons /\ hat \in Hats
        /\ clear \in BOOLEAN /\ together \subseteq DeckButtons /\ owed \in [DeckButtons -> Int]
    BY DEF DeckTypes, ProviderTypes, GhostTypes
  <2> QED
    BY <2>2, <2>3, <2>4, <2>5 DEF ProviderTypes, GhostTypes, ghosts
<1>8. ASSUME DecodeButton PROVE ProviderTypes' /\ GhostTypes'
  <2> DEFINE b == Head(sdl)[2]
             on == Head(sdl)[3]
  <2>1. sdl # <<>> /\ Head(sdl)[1] = "button" /\ ButtonActions(b, on) /\ reported' = reported
    BY <1>8 DEF DecodeButton, Event
  <2>2. Head(sdl) \in Events
    BY <1>0, <2>1, TailIs
  <2>3. b \in DeckButtons /\ on \in BOOLEAN
    BY <2>1, <2>2, EventIs
  <2> HIDE DEF b, on
  <2>4. ButtonActions(b, on)
    BY <2>1
  <2>5. reported' \in [buttons : SUBSET Paddles, pads : SUBSET DeckPanes]
    BY <1>0, <2>1
  <2> QED
    BY <2>3, <2>4, <2>5, EdgeTyped
<1>9. ASSUME DecodeAxis PROVE ProviderTypes' /\ GhostTypes'
  <2> DEFINE a == Act("throttle", Head(sdl)[2], Head(sdl)[3])
  <2>1. /\ sdl # <<>> /\ Head(sdl)[1] = "axis" /\ batch' = batch \o <<a>>
        /\ UNCHANGED <<reported, held, chords, longs, chorded, hat, ghosts>>
    BY <1>9 DEF DecodeAxis, Event, Tell
  <2>2. Head(sdl) \in Events
    BY <1>0, <2>1, TailIs
  <2>3. Head(sdl)[2] \in DeckPanes /\ Head(sdl)[3] \in BOOLEAN
    BY <2>1, <2>2, EventIs
  <2>4. a \in Made
    BY <2>3, MadeIs
  <2> HIDE DEF a
  <2>5. <<a>> \in Seq(Made)
    BY <2>4, Single
  <2>6. batch' \in Seq(Made)
    BY <1>0, <2>1, <2>5
  <2>7. /\ held \subseteq DeckButtons /\ chords \subseteq DeckChords /\ longs \subseteq LongButtons
        /\ chorded \subseteq LongButtons /\ hat \in Hats
        /\ clear \in BOOLEAN /\ together \subseteq DeckButtons /\ owed \in [DeckButtons -> Int]
    BY DEF DeckTypes, ProviderTypes, GhostTypes
  <2> QED
    BY <1>0, <2>1, <2>6, <2>7 DEF ProviderTypes, GhostTypes, ghosts
<1>10. ASSUME DecodeHat PROVE ProviderTypes' /\ GhostTypes'
  <2>1. PICK h \in Hats, r \in Seq(Made) : hat' = h /\ batch' = batch \o r
    BY <1>10, HatMakes
  <2>2. batch' \in Seq(Made)
    BY <1>0, <2>1
  <2>3. UNCHANGED <<reported, held, chords, longs, chorded, ghosts>>
    BY <1>10 DEF DecodeHat, Event
  <2>5. /\ held \subseteq DeckButtons /\ chords \subseteq DeckChords /\ longs \subseteq LongButtons
        /\ chorded \subseteq LongButtons /\ hat \in Hats
        /\ clear \in BOOLEAN /\ together \subseteq DeckButtons /\ owed \in [DeckButtons -> Int]
    BY DEF DeckTypes, ProviderTypes, GhostTypes
  <2> QED
    BY <1>0, <2>1, <2>2, <2>3, <2>5 DEF ProviderTypes, GhostTypes, ghosts
<1>11. ASSUME DecodeRemoved PROVE ProviderTypes' /\ GhostTypes'
  <2> DEFINE a == Act("disconnect", NoPane, TRUE)
  <2>1. /\ batch' = batch \o <<a>> /\ UNCHANGED <<reported, ghosts>>
        /\ held' = {} /\ chords' = {} /\ longs' = {} /\ chorded' = {} /\ hat' = "neutral"
    BY <1>11 DEF DecodeRemoved, Event, Tell
  <2>2. a \in Made
    BY MadeIs
  <2> HIDE DEF a
  <2>3. <<a>> \in Seq(Made)
    BY <2>2, Single
  <2>4. batch' \in Seq(Made)
    BY <1>0, <2>1, <2>3
  <2>5. {} \subseteq LongButtons /\ {} \subseteq DeckChords /\ {} \subseteq DeckButtons /\ "neutral" \in Hats
    BY DEF Hats
  <2>7. /\ held \subseteq DeckButtons /\ chords \subseteq DeckChords /\ longs \subseteq LongButtons
        /\ chorded \subseteq LongButtons /\ hat \in Hats
        /\ clear \in BOOLEAN /\ together \subseteq DeckButtons /\ owed \in [DeckButtons -> Int]
    BY DEF DeckTypes, ProviderTypes, GhostTypes
  <2> QED
    BY <1>0, <2>1, <2>4, <2>5, <2>7 DEF ProviderTypes, GhostTypes, ghosts
<1>12. ProviderTypes' /\ GhostTypes'
  BY <1>5, <1>6, <1>7, <1>8, <1>9, <1>10, <1>11 DEF PollInput, DeckTypes
<1> QED
  BY <1>1, <1>4, <1>12 DEF DeckTypes

-----------------------------------------------------------------------------
\* toggle_focus stays among the panes.
LEMMA OtherIs == \A p \in DeckPanes : Other(p) \in DeckPanes
<1> TAKE p \in DeckPanes
<1>1. \E q \in DeckPanes : q # p
  <2> SUFFICES ASSUME \A q \in DeckPanes : q = p PROVE FALSE
    OBVIOUS
  <2>1. DeckPanes = {p}
    OBVIOUS
  <2>2. Cardinality({p}) = 1
    BY FS_Singleton
  <2> QED
    BY <2>1, <2>2, DeckAssumption
<1> QED
  BY <1>1 DEF Other

LEMMA SomePane == (CHOOSE p \in DeckPanes : TRUE) \in DeckPanes
<1>1. DeckPanes # {}
  <2> SUFFICES ASSUME DeckPanes = {} PROVE FALSE
    OBVIOUS
  <2>1. Cardinality({}) = 0
    BY FS_EmptySet
  <2> QED
    BY <2>1, DeckAssumption
<1> QED
  BY <1>1

\* What all handlers of an action share.
LEMMA Popped ==
  ASSUME DeckTypes, NEW does, Handling(does)
  PROVE  /\ batch # <<>> /\ act \in Made /\ act.does \in does /\ act.on \in BOOLEAN /\ Pane \in DeckPanes
         /\ pc = "decode" /\ sdl = <<>> /\ batch' = Tail(batch) /\ Tail(batch) \in Seq(Made)
         /\ UNCHANGED <<hands, sdl, pc, providerVars, trouble, owed, together>>
         /\ HandsTypes' /\ ProviderTypes'
<1>1. /\ batch # <<>> /\ act.does \in does /\ pc = "decode" /\ sdl = <<>> /\ batch' = Tail(batch)
      /\ UNCHANGED <<hands, sdl, pc, providerVars, trouble, owed, together>>
  BY DEF Handling, Decoded
<1>2. act \in Made /\ Tail(batch) \in Seq(Made)
  BY <1>1, TailIs DEF DeckTypes, ProviderTypes, act
<1>3. act.on \in BOOLEAN
  BY <1>2 DEF Made, Acts
<1>4. Pane \in DeckPanes
  BY DEF Pane, DeckTypes, RouterTypes
<1>5. HandsTypes' /\ ProviderTypes'
  BY <1>1, <1>2 DEF DeckTypes, HandsTypes, ProviderTypes, providerVars
<1> QED
  BY <1>1, <1>2, <1>3, <1>4, <1>5

LEMMA ActWith ==
  ASSUME NEW a \in Made
  PROVE  /\ a.does \in Repeated => a.by \in RepeatButtons
         /\ a.does \in {"throttle", "quill"} => a.by \in DeckPanes
         /\ a.does = "dpad" => a.by \in Hats
  BY DEF Made, Moved, RepeatButtons

RouterHandles ==
  \/ HandleDisconnect \/ ControlsOnly \/ HandleThrottle \/ HandleQuill \/ HandleScrollBoost
  \/ HandleAdmin \/ AdminNotShown \/ HandleRepeat \/ HandleGlobal \/ HandleSequence
  \/ HandleCatalog \/ HandleOnce

AllDoes == DeckDoes \cup ChordDoes \cup {"throttle", "quill", "dpad", "disconnect"}
LEMMA HandlesIsHandling ==
  ASSUME RouterHandles
  PROVE  Handling(AllDoes)
BY DEF RouterHandles, HandleDisconnect, ControlsOnly, HandleThrottle, HandleQuill, HandleScrollBoost,
  HandleAdmin, AdminNotShown, HandleRepeat, HandleGlobal, HandleSequence, HandleCatalog, HandleOnce, Reaches, Handling,
  AllDoes, DeckDoes, ChordDoes

LEMMA HandlesTyped ==
  ASSUME DeckTypes, RouterHandles
  PROVE  RouterTypes' /\ clear' \in BOOLEAN
<1>0. /\ router \in [throttles : SUBSET DeckPanes, commanded : [DeckPanes -> 0 .. TopThrottle + 1],
                     quills : SUBSET DeckPanes, boost : Hats, scroll : BOOLEAN,
                     commands : SUBSET RepeatButtons, sequence : 0 .. 2]
      /\ gui \in [focus : DeckPanes, controls : BOOLEAN, panel : [DeckPanes -> Panels],
                  holds : SUBSET DeckPanes]
      /\ speed \in [DeckPanes -> 0 .. TopThrottle] /\ clear \in BOOLEAN /\ TopThrottle \in Nat
  BY DeckAssumption DEF DeckTypes, RouterTypes, GhostTypes
<1>1. act \in Made /\ act.on \in BOOLEAN /\ Pane \in DeckPanes
  BY HandlesIsHandling, Popped
<1>2. NothingHeld \in [throttles : SUBSET DeckPanes, commanded : [DeckPanes -> 0 .. TopThrottle + 1],
                       quills : SUBSET DeckPanes, boost : Hats, scroll : BOOLEAN,
                       commands : SUBSET RepeatButtons, sequence : 0 .. 2]
  <2>1. [p \in DeckPanes |-> NotCommanded] \in [DeckPanes -> 0 .. TopThrottle + 1]
    BY <1>0 DEF NotCommanded
  <2>2. "neutral" \in Hats /\ 0 \in 0 .. 2
    BY DEF Hats
  <2> QED
    BY <2>1, <2>2 DEF NothingHeld
<1>3. CASE HandleDisconnect
  BY <1>0, <1>2, <1>3 DEF HandleDisconnect, OnlyRouter, RouterTypes
<1>4. CASE ControlsOnly
  <2>1. /\ gui' = [gui EXCEPT !.controls = ~(act.does = "close" /\ act.on)] /\ UNCHANGED <<router, speed, clear>>
    BY <1>4 DEF ControlsOnly
  <2>2. (~(act.does = "close" /\ act.on)) \in BOOLEAN
    OBVIOUS
  <2> QED
    BY <1>0, <2>1, <2>2 DEF RouterTypes
<1>5. CASE HandleThrottle
  <2>1. /\ router' = [router EXCEPT !.throttles = PutIf(router.throttles, act.by),
                                    !.commanded[act.by] = IF act.on THEN router.commanded[act.by] ELSE NotCommanded]
        /\ UNCHANGED <<gui, speed, clear>> /\ act.does = "throttle"
    BY <1>5 DEF HandleThrottle, OnlyRouter, Reaches, Handling
  <2>2. act.by \in DeckPanes
    BY <1>1, <2>1, ActWith
  <2>3. PutIf(router.throttles, act.by) \subseteq DeckPanes
    BY <1>0, <2>2 DEF PutIf
  <2> DEFINE v == IF act.on THEN router.commanded[act.by] ELSE NotCommanded
  <2>4. v \in 0 .. TopThrottle + 1
    BY <1>0, <2>2 DEF NotCommanded
  <2>5. router' = [router EXCEPT !.throttles = PutIf(router.throttles, act.by), !.commanded[act.by] = v]
    BY <2>1
  <2> HIDE DEF v
  <2>6. [router.commanded EXCEPT ![act.by] = v] \in [DeckPanes -> 0 .. TopThrottle + 1]
    BY <1>0, <2>4
  <2> QED
    BY <1>0, <2>1, <2>3, <2>5, <2>6 DEF RouterTypes
<1>6. CASE HandleQuill
  <2>1. /\ router' = [router EXCEPT !.quills = PutIf(router.quills, act.by)]
        /\ UNCHANGED <<gui, speed, clear>> /\ act.does = "quill"
    BY <1>6 DEF HandleQuill, OnlyRouter, Reaches, Handling
  <2>2. act.by \in DeckPanes
    BY <1>1, <2>1, ActWith
  <2>3. PutIf(router.quills, act.by) \subseteq DeckPanes
    BY <1>0, <2>2 DEF PutIf
  <2> QED
    BY <1>0, <2>1, <2>3 DEF RouterTypes
<1>7. CASE HandleScrollBoost
  <2> DEFINE s == act.on /\ Shows("catalog")
             t == IF act.on /\ ~Shows("catalog") THEN act.by ELSE "neutral"
  <2>1. /\ router' = [router EXCEPT !.scroll = s, !.boost = t]
        /\ UNCHANGED <<gui, speed, clear>> /\ act.does = "dpad"
    BY <1>7 DEF HandleScrollBoost, OnlyRouter, Reaches, Handling
  <2>2. act.by \in Hats
    BY <1>1, <2>1, ActWith
  <2>3. s \in BOOLEAN /\ t \in Hats
    BY <1>1, <2>2 DEF Hats
  <2> HIDE DEF s, t
  <2> QED
    BY <1>0, <2>1, <2>3 DEF RouterTypes
<1>8. CASE HandleAdmin
  <2>1. gui' = [gui EXCEPT !.holds = PutIf(gui.holds, Pane)] /\ UNCHANGED <<router, speed, clear>>
    BY <1>8 DEF HandleAdmin
  <2>2. PutIf(gui.holds, Pane) \subseteq DeckPanes
    BY <1>0, <1>1 DEF PutIf
  <2> QED
    BY <1>0, <2>1, <2>2 DEF RouterTypes
<1>9. CASE AdminNotShown \/ HandleOnce
  BY <1>0, <1>9 DEF AdminNotShown, HandleOnce, OnlyRouter, RouterTypes
<1>10. CASE HandleRepeat
  <2> DEFINE closes == act.does = "close" /\ act.on /\ ~Shows("none")
             s == IF closes THEN router.commands \ {act.by} ELSE PutIf(router.commands, act.by)
  <2>1. /\ router' = [router EXCEPT !.commands = s] /\ UNCHANGED <<speed, clear>> /\ act.does \in Repeated
        /\ gui' = IF closes THEN [gui EXCEPT !.panel[Pane] = "none"] ELSE gui
    BY <1>10 DEF HandleRepeat, Reaches, Handling, Repeated
  <2>2. act.by \in RepeatButtons
    BY <1>1, <2>1, ActWith
  <2>3. s \in SUBSET RepeatButtons
    BY <1>0, <2>2 DEF PutIf
  <2>4. "none" \in Panels
    BY DEF Panels
  <2>5. [gui.panel EXCEPT ![Pane] = "none"] \in [DeckPanes -> Panels]
    BY <1>0, <2>4
  <2> HIDE DEF s, closes
  <2>6. gui' \in [focus : DeckPanes, controls : BOOLEAN, panel : [DeckPanes -> Panels], holds : SUBSET DeckPanes]
    BY <1>0, <2>1, <2>5
  <2> QED
    BY <1>0, <2>1, <2>3, <2>6 DEF RouterTypes
<1>11. CASE HandleGlobal
  <2> DEFINE c == gui.controls \/ (act.on /\ act.does = "controls")
             f == IF act.on /\ act.does = "focus" THEN Other(gui.focus) ELSE gui.focus
  <2>1. /\ UNCHANGED router /\ gui' = [gui EXCEPT !.controls = c, !.focus = f]
        /\ speed' = IF act.on /\ act.does = "halt" THEN [p \in DeckPanes |-> 0] ELSE speed
        /\ clear' = (clear /\ gui'.controls = gui.controls /\ gui'.focus = gui.focus)
    BY <1>11 DEF HandleGlobal
  <2>2. c \in BOOLEAN /\ f \in DeckPanes
    BY <1>0, OtherIs
  <2>3. speed' \in [DeckPanes -> 0 .. TopThrottle]
    BY <1>0, <2>1
  <2>4. clear' \in BOOLEAN
    BY <2>1
  <2> HIDE DEF c, f
  <2> QED
    BY <1>0, <2>1, <2>2, <2>3, <2>4 DEF RouterTypes
<1>12. CASE HandleSequence
  <2>1. /\ UNCHANGED <<speed, clear>>
        /\ \/ gui' = [gui EXCEPT !.panel[Pane] = "none"] /\ UNCHANGED router
           \/ router' \in {router, [router EXCEPT !.sequence = 2]} /\ UNCHANGED gui
    BY <1>12 DEF HandleSequence
  <2>4. "none" \in Panels /\ 2 \in 0 .. 2
    BY DEF Panels
  <2>5. [gui.panel EXCEPT ![Pane] = "none"] \in [DeckPanes -> Panels]
    BY <1>0, <2>4
  <2>6. CASE gui' = [gui EXCEPT !.panel[Pane] = "none"] /\ UNCHANGED router
    BY <1>0, <2>1, <2>5, <2>6 DEF RouterTypes
  <2>7. CASE router' = [router EXCEPT !.sequence = 2] /\ UNCHANGED gui
    BY <1>0, <2>1, <2>4, <2>7 DEF RouterTypes
  <2>8. CASE router' = router /\ UNCHANGED gui
    BY <1>0, <2>1, <2>8 DEF RouterTypes
  <2> QED
    BY <2>1, <2>6, <2>7, <2>8
<1>13. CASE HandleCatalog
  <2> DEFINE x == IF Shows("catalog") THEN "none" ELSE "catalog"
  <2>1. UNCHANGED <<router, speed, clear>> /\ gui' \in {gui, [gui EXCEPT !.panel[Pane] = x]}
    BY <1>13 DEF HandleCatalog
  <2>2. x \in Panels
    BY DEF Panels
  <2> HIDE DEF x
  <2>3. [gui.panel EXCEPT ![Pane] = x] \in [DeckPanes -> Panels]
    BY <1>0, <2>2
  <2> QED
    BY <1>0, <2>1, <2>3 DEF RouterTypes
<1> QED
  BY <1>3, <1>4, <1>5, <1>6, <1>7, <1>8, <1>9, <1>10, <1>11, <1>12, <1>13 DEF RouterHandles

LEMMA RouterTyped ==
  ASSUME DeckTypes, HandleAction \/ RouterTick
  PROVE  DeckTypes' /\ UNCHANGED <<hands, sdl, providerVars, owed, together>>
<1>1. CASE RouterHandles
  <2>1. HandsTypes' /\ ProviderTypes' /\ UNCHANGED <<hands, sdl, providerVars, owed, together>>
    BY <1>1, HandlesIsHandling, Popped
  <2>2. RouterTypes' /\ clear' \in BOOLEAN
    BY <1>1, HandlesTyped
  <2> QED
    BY <2>1, <2>2 DEF DeckTypes, GhostTypes
<1>2. CASE HandleFails
  <2>1. /\ UNCHANGED <<hands, sdl, providerVars, router, gui, speed, owed, together>> /\ batch' = <<>> /\ pc' = "poll"
        /\ clear' = FALSE /\ Troubles
    BY <1>2 DEF HandleFails, Then
  <2>2. /\ trouble \in [inputs : 0 .. DeckInputs, rest : 0 .. DeckTrouble]
        /\ DeckInputs \in Nat /\ DeckTrouble \in Nat
    BY DeckAssumption DEF DeckTypes, HandsTypes
  <2>3. /\ trouble.inputs \in 0 .. DeckInputs /\ trouble.rest \in 0 .. DeckTrouble
        /\ trouble.inputs > 0 => trouble.inputs - 1 \in 0 .. DeckInputs
        /\ trouble.rest > 0 => trouble.rest - 1 \in 0 .. DeckTrouble
    BY <2>2
  <2>4. trouble' \in [inputs : 0 .. DeckInputs, rest : 0 .. DeckTrouble]
    <3>1. /\ trouble.inputs > 0 /\ trouble.rest > 0
          /\ trouble' = [trouble EXCEPT !.inputs = trouble.inputs - 1, !.rest = trouble.rest - 1]
      BY <2>1 DEF Troubles
    <3> QED
      BY <2>2, <2>3, <3>1
  <2>5. <<>> \in Seq(Made)
    OBVIOUS
  <2>6. batch' \in Seq(Made)
    BY ONLY <2>1, <2>5
  <2> QED
    BY <2>1, <2>4, <2>6 DEF DeckTypes, HandsTypes, ProviderTypes, RouterTypes, GhostTypes, providerVars
<1>3. CASE Handled
  <2>1. UNCHANGED <<hands, sdl, providerVars, batch, router, gui, speed, trouble, ghosts>> /\ pc' \in {"tick", "poll"}
    BY <1>3 DEF Handled, Then
  <2> QED
    BY <2>1 DEF DeckTypes, HandsTypes, ProviderTypes, RouterTypes, GhostTypes, providerVars, ghosts
<1>4. CASE RouterTick
  <2>0. /\ router \in [throttles : SUBSET DeckPanes, commanded : [DeckPanes -> 0 .. TopThrottle + 1],
                       quills : SUBSET DeckPanes, boost : Hats, scroll : BOOLEAN,
                       commands : SUBSET RepeatButtons, sequence : 0 .. 2]
        /\ speed \in [DeckPanes -> 0 .. TopThrottle] /\ TopThrottle \in Nat
    BY DeckAssumption DEF DeckTypes, RouterTypes
  <2> DEFINE c == [p \in DeckPanes |-> IF p \in router.throttles THEN NextSpeed(p) ELSE router.commanded[p]]
             s == router.scroll /\ gui.panel[gui.focus] = "catalog"
             q == IF router.sequence = 0 THEN 0 ELSE router.sequence - 1
             v == [p \in DeckPanes |->
                     IF p \in router.throttles /\ router.commanded[p] # NextSpeed(p) THEN NextSpeed(p) ELSE speed[p]]
  <2>1. /\ UNCHANGED <<hands, sdl, providerVars, batch, gui, trouble, ghosts>> /\ pc' = "poll"
        /\ router' = [router EXCEPT !.commanded = c, !.scroll = s, !.sequence = q] /\ speed' = v
    BY <1>4 DEF RouterTick, Then
  <2>2. \A p \in DeckPanes : NextSpeed(p) \in 0 .. TopThrottle
    <3> TAKE p \in DeckPanes
    <3>1. speed[p] \in 0 .. TopThrottle /\ router.commanded[p] \in 0 .. TopThrottle + 1
      BY <2>0
    <3> QED
      BY <2>0, <3>1 DEF NextSpeed, NotCommanded
  <2>3. c \in [DeckPanes -> 0 .. TopThrottle + 1]
    <3>1. \A p \in DeckPanes : NextSpeed(p) \in 0 .. TopThrottle + 1 /\ router.commanded[p] \in 0 .. TopThrottle + 1
      BY <2>0, <2>2
    <3> HIDE DEF NextSpeed
    <3> QED
      BY <3>1
  <2>4. v \in [DeckPanes -> 0 .. TopThrottle]
    <3>1. \A p \in DeckPanes : speed[p] \in 0 .. TopThrottle
      BY <2>0
    <3> QED
      BY <2>2, <3>1
  <2>5. s \in BOOLEAN /\ q \in 0 .. 2
    BY <2>0
  <2> HIDE DEF c, s, q, v
  <2>6. RouterTypes'
    BY <2>0, <2>1, <2>3, <2>4, <2>5 DEF DeckTypes, RouterTypes
  <2>7. HandsTypes' /\ ProviderTypes' /\ GhostTypes'
    BY <2>1 DEF DeckTypes, HandsTypes, ProviderTypes, GhostTypes, providerVars, ghosts
  <2> QED
    BY <2>1, <2>6, <2>7 DEF DeckTypes, ghosts
<1> QED
  BY <1>1, <1>2, <1>3, <1>4 DEF HandleAction, RouterHandles

\* Who acts.
LEMMA NextIs ==
  ASSUME DeckNext
  PROVE  HandsMove \/ PollInput \/ HandleAction \/ RouterTick
BY DEF DeckNext, HandsMove, PollController

LEMMA TypesStep == ASSUME DeckTypes, DeckNext PROVE DeckTypes'
BY NextIs, HandsTyped, PollTyped, RouterTyped

LEMMA TypesInit == ASSUME DeckInit PROVE DeckTypes
<1>1. <<>> \in Seq(Events) /\ <<>> \in Seq(Made)
  OBVIOUS
<1>2. "neutral" \in Hats /\ "none" \in Panels
  BY DEF Hats, Panels
<1>3. {DeckInputs, DeckTrouble, TopThrottle} \subseteq Nat
  BY DeckAssumption
<1>4. sdl \in Seq(Events) /\ batch \in Seq(Made)
  <2>1. sdl = <<>> /\ batch = <<>>
    BY DEF DeckInit
  <2> QED
    BY ONLY <1>1, <2>1
<1>5. HandsTypes
  <2>1. trouble \in [inputs : 0 .. DeckInputs, rest : 0 .. DeckTrouble]
    BY <1>3 DEF DeckInit
  <2> QED
    BY <1>2, <1>4, <2>1 DEF DeckInit, HandsTypes
<1>6. ProviderTypes
  BY <1>2, <1>4 DEF DeckInit, ProviderTypes
<1>7. RouterTypes
  <2>1. NotCommanded \in 0 .. TopThrottle + 1 /\ 0 \in 0 .. TopThrottle /\ 0 \in 0 .. 2
    BY <1>3 DEF NotCommanded
  <2>2. router \in [throttles : SUBSET DeckPanes, commanded : [DeckPanes -> 0 .. TopThrottle + 1],
                    quills : SUBSET DeckPanes, boost : Hats, scroll : BOOLEAN,
                    commands : SUBSET RepeatButtons, sequence : 0 .. 2]
    BY <1>2, <2>1 DEF DeckInit, NothingHeld
  <2>3. gui \in [focus : DeckPanes, controls : BOOLEAN, panel : [DeckPanes -> Panels], holds : SUBSET DeckPanes]
    BY <1>2, SomePane DEF DeckInit
  <2>4. speed \in [DeckPanes -> 0 .. TopThrottle]
    BY <2>1 DEF DeckInit
  <2> QED
    BY <2>2, <2>3, <2>4 DEF RouterTypes
<1>8. GhostTypes
  BY DEF DeckInit, GhostTypes
<1> QED
  BY <1>5, <1>6, <1>7, <1>8 DEF DeckTypes

\* What stutters keeps all.
LEMMA TypesStutter == ASSUME DeckTypes, UNCHANGED deckVars PROVE DeckTypes'
BY DEF deckVars, providerVars, DeckTypes, HandsTypes, ProviderTypes, RouterTypes, GhostTypes

LEMMA TypesImply == ASSUME DeckTypes PROVE DeckTypeOK
<1>1. \A i \in DOMAIN batch : batch[i] \in Acts
  BY DEF DeckTypes, ProviderTypes, Made
<1>2. router \in [throttles : SUBSET DeckPanes, commanded : [DeckPanes -> 0 .. TopThrottle + 1],
                  quills : SUBSET DeckPanes, boost : Hats, scroll : BOOLEAN,
                  commands : SUBSET DeckButtons, sequence : 0 .. 2]
  <2>1. RepeatButtons \subseteq DeckButtons
    BY DEF RepeatButtons
  <2>2. router \in [throttles : SUBSET DeckPanes, commanded : [DeckPanes -> 0 .. TopThrottle + 1],
                    quills : SUBSET DeckPanes, boost : Hats, scroll : BOOLEAN,
                    commands : SUBSET RepeatButtons, sequence : 0 .. 2]
    BY DEF DeckTypes, RouterTypes
  <2> QED
    BY <2>1, <2>2
<1>3. /\ HandsTypes /\ ProviderTypes /\ GhostTypes /\ speed \in [DeckPanes -> 0 .. TopThrottle]
      /\ gui \in [focus : DeckPanes, controls : BOOLEAN, panel : [DeckPanes -> Panels], holds : SUBSET DeckPanes]
  BY DEF DeckTypes, RouterTypes
<1> QED
  BY <1>1, <1>2, <1>3 DEF DeckTypeOK, HandsTypes, ProviderTypes, GhostTypes

\* The fields of the provider and of the router keep their types, for any profile, any hands
\* and any number of disconnections and exceptions.
THEOREM DeckTypeCorrect == DeckSpec => []DeckTypeOK
<1>1. DeckInit => DeckTypes
  BY TypesInit
<1>2. DeckTypes /\ [DeckNext]_deckVars => DeckTypes'
  BY TypesStep, TypesStutter
<1>3. DeckTypes => DeckTypeOK
  BY TypesImply
<1> QED
  BY <1>1, <1>2, <1>3, PTL DEF DeckSpec

-----------------------------------------------------------------------------
(* The order of a poll, chords and what they take *)

LEMMA OrderStep == ASSUME DeckTypes, PollOrder, DeckNext PROVE PollOrder'
<1>1. CASE HandsMove
  <2>1. UNCHANGED <<pc, batch>> /\ pc \in {"poll", "sdl"}
    BY <1>1, HandsTyped
  <2> QED
    BY <2>1 DEF PollOrder
<1>2. CASE PollInput
  <2>1. pc' \in {"paddles", "sdl", "decode"}
    BY <1>2 DEF PollInput, PollDeck, PaddleEdge, PadActions, TakeSdl, DecodeButton, DecodeAxis,
         DecodeHat, DecodeRemoved, Event, Then
  <2> QED
    BY <2>1 DEF PollOrder
<1>3. CASE RouterHandles
  <2>1. pc' = pc /\ pc = "decode"
    BY <1>3, HandlesIsHandling, Popped
  <2> QED
    BY <2>1 DEF PollOrder
<1>4. CASE HandleFails
  BY <1>4 DEF HandleFails, Then, PollOrder
<1>5. CASE Handled
  BY <1>5 DEF Handled, Decoded, Then, PollOrder
<1>6. CASE RouterTick
  BY <1>6 DEF RouterTick, Then, PollOrder
<1> QED
  BY NextIs, <1>1, <1>2, <1>3, <1>4, <1>5, <1>6 DEF HandleAction, RouterHandles

\* A property of what the provider keeps of buttons moves with their edges only.
LEMMA ButtonStep ==
  ASSUME DeckTypes, DeckNext
  PROVE  \/ UNCHANGED <<held, chords, longs, chorded, together>>
         \/ \E b \in DeckButtons : ButtonDown(b)
         \/ \E b \in DeckButtons : ButtonUp(b)
         \/ held' = {} /\ chords' = {} /\ longs' = {} /\ chorded' = {} /\ together' = together /\ DecodeRemoved
<1>1. CASE HandsMove
  <2>1. UNCHANGED providerVars
    BY <1>1, HandsTyped
  <2>2. together' = together
    BY <1>1 DEF HandsMove, MoveButton, MoveStick, MovePad, TouchScreen, MoveHat, Reconnect, ghosts
  <2> QED
    BY <2>1, <2>2 DEF providerVars
<1>2. CASE HandleAction \/ RouterTick
  BY <1>2, RouterTyped DEF providerVars
<1>3. CASE PollDeck \/ PadActions \/ TakeSdl \/ DecodeAxis \/ DecodeHat
  BY <1>3 DEF PollDeck, PadActions, TakeSdl, DecodeAxis, DecodeHat, providerVars, ghosts
<1>4. CASE DecodeRemoved
  BY <1>4 DEF DecodeRemoved, ghosts
<1>5. ASSUME NEW b \in DeckButtons, NEW on, ButtonActions(b, on)
      PROVE  \/ UNCHANGED <<held, chords, longs, chorded, together>>
             \/ ButtonDown(b) \/ ButtonUp(b)
  BY <1>5 DEF ButtonActions
<1>6. ASSUME NEW b \in Paddles, PaddleEdge(b)
      PROVE  \/ UNCHANGED <<held, chords, longs, chorded, together>>
             \/ \E x \in DeckButtons : ButtonDown(x) \/ ButtonUp(x)
  <2>1. b \in DeckButtons /\ ButtonActions(b, b \in hands.buttons)
    BY <1>6, Profile DEF PaddleEdge
  <2> QED
    BY <1>5, <2>1
<1>7. ASSUME DecodeButton
      PROVE  \/ UNCHANGED <<held, chords, longs, chorded, together>>
             \/ \E x \in DeckButtons : ButtonDown(x) \/ ButtonUp(x)
  <2>1. sdl # <<>> /\ Head(sdl)[1] = "button" /\ ButtonActions(Head(sdl)[2], Head(sdl)[3])
    BY <1>7 DEF DecodeButton, Event
  <2>2. Head(sdl) \in Events
    BY <2>1, TailIs DEF DeckTypes, HandsTypes
  <2>3. Head(sdl)[2] \in DeckButtons
    BY <2>1, <2>2, EventIs
  <2> QED
    BY <1>5, <2>1, <2>3
<1> QED
  BY NextIs, <1>1, <1>2, <1>3, <1>4, <1>6, <1>7 DEF PollInput

LEMMA ChordsStep == ASSUME DeckTypes, ChordsHeld, DeckNext PROVE ChordsHeld'
<1>1. CASE UNCHANGED <<held, chords, longs, chorded, together>>
  BY <1>1 DEF ChordsHeld
<1>2. ASSUME NEW b \in DeckButtons, ButtonDown(b) PROVE ChordsHeld'
  <2>1. held' = held \cup {b} /\ chords' = chords \cup Completed(b)
    BY <1>2 DEF ButtonDown
  <2> QED
    BY <2>1 DEF ChordsHeld, Completed
<1>3. ASSUME NEW b \in DeckButtons, ButtonUp(b) PROVE ChordsHeld'
  <2>1. held' = held \ {b} /\ chords' = chords \ {c \in chords : b \in c.buttons}
    BY <1>3 DEF ButtonUp
  <2> QED
    BY <2>1 DEF ChordsHeld
<1>4. CASE chords' = {}
  BY <1>4 DEF ChordsHeld
<1> QED
  BY ButtonStep, <1>1, <1>2, <1>3, <1>4

LEMMA AloneStep == ASSUME DeckTypes, TakenAlone, DeckNext PROVE TakenAlone'
<1>1. CASE UNCHANGED <<held, chords, longs, chorded, together>>
  BY <1>1 DEF TakenAlone
<1>2. ASSUME NEW b \in DeckButtons, ButtonDown(b) PROVE TakenAlone'
  <2> DEFINE done == Completed(b)
  <2>1. /\ chorded' = chorded \cup Takes(done)
        /\ together' = (together \ {b}) \cup UNION {c.buttons : c \in done}
        /\ longs' = longs \/ (done = {} /\ longs' = longs \cup {b})
    BY <1>2 DEF ButtonDown
  <2>2. longs \subseteq LongButtons
    BY DEF DeckTypes, ProviderTypes
  <2> HIDE DEF done
  <2> QED
    BY <2>1, <2>2 DEF TakenAlone, Takes
<1>3. ASSUME NEW b \in DeckButtons, ButtonUp(b) PROVE TakenAlone'
  <2>1. longs' = longs \ {b} /\ chorded' = chorded \ {b} /\ together' = together
    BY <1>3 DEF ButtonUp
  <2> QED
    BY <2>1 DEF TakenAlone
<1>4. CASE longs' = {}
  BY <1>4 DEF TakenAlone
<1> QED
  BY ButtonStep, <1>1, <1>2, <1>3, <1>4

-----------------------------------------------------------------------------
(* A button that a chord took starts nothing *)

\* The batch grows by the provider's acts only, and the last of them is the last of r.
LEMMA LastIs ==
  ASSUME NEW S, NEW q \in Seq(S), NEW r \in Seq(S), Len(q \o r) > Len(q)
  PROVE  Len(r) \in 1 .. Len(r) /\ Last(q \o r) = r[Len(r)]
<1>1. Len(q) \in Nat /\ Len(r) \in Nat /\ Len(q \o r) = Len(q) + Len(r)
  OBVIOUS
<1>2. Len(r) \in 1 .. Len(r)
  BY <1>1
<1>3. (q \o r)[Len(q) + Len(r)] = r[Len(r)]
  BY <1>2, JoinIs
<1> QED
  BY <1>1, <1>2, <1>3 DEF Last

\* None of the provider's acts, but those of a button's edge, starts an engine.
LEMMA StartsNothing ==
  ASSUME NEW b \in LongButtons, NEW does, NEW by, NEW on, does # "startup"
  PROVE  Act(does, by, on) # Act("startup", b, TRUE)
<1>1. Act(does, by, on).does = does /\ Act("startup", b, TRUE).does = "startup"
  BY DEF Act
<1> QED
  BY <1>1

LEMMA HaltStep ==
  ASSUME DeckTypes, TakenAlone, DeckNext, NEW b \in LongButtons,
         Len(batch') > Len(batch), Last(batch') = Act("startup", b, TRUE)
  PROVE  b \notin together
<1>0. batch \in Seq(Made) /\ ~(Len(batch) > Len(batch)) /\ b \in DeckButtons /\ ButtonDoes[b] = "startup"
  BY DEF DeckTypes, ProviderTypes, LongButtons
<1> DEFINE A == Act("startup", b, TRUE)
<1>a. ASSUME NEW r \in Seq(Made), batch' = batch \o r
      PROVE  \E i \in 1 .. Len(r) : r[i] = A
  BY <1>0, <1>a, LastIs
<1>b. A.on /\ A.does = "startup" /\ A.by = b
  BY DEF Act
<1>s. \A does, by, on : does # "startup" => Act(does, by, on) # A
  BY StartsNothing
<1> HIDE DEF A
<1>1. ASSUME NEW x \in DeckButtons, ButtonDown(x) PROVE FALSE
  <2>1. PICK r \in Seq(Made) :
           /\ batch' = batch \o r
           /\ \A i \in 1 .. Len(r) : \/ r[i] = Act(ButtonDoes[x], x, TRUE) /\ x \notin LongButtons
                                     \/ \E c \in chords' : r[i] = Act(c.does, NoPane, TRUE)
           /\ chords' = chords \cup Completed(x)
    BY <1>1, DownMakes
  <2>2. PICK i \in 1 .. Len(r) : r[i] = A
    BY <1>a, <2>1
  <2>3. CASE r[i] = Act(ButtonDoes[x], x, TRUE) /\ x \notin LongButtons
    <3>1. Act(ButtonDoes[x], x, TRUE).by = x
      BY DEF Act
    <3>2. x = b
      BY <1>b, <2>2, <2>3, <3>1
    <3> QED
      BY <2>3, <3>2
  <2>4. CASE \E c \in chords' : r[i] = Act(c.does, NoPane, TRUE)
    <3>1. PICK c \in chords' : r[i] = Act(c.does, NoPane, TRUE)
      BY <2>4
    <3>2. c \in DeckChords
      BY <2>1 DEF DeckTypes, ProviderTypes, Completed
    <3>3. c.does # "startup"
      BY <3>2, Profile DEF ChordDoes
    <3> QED
      BY <1>s, <2>2, <3>1, <3>3
  <2> QED
    BY <2>1, <2>3, <2>4
<1>2. ASSUME NEW x \in DeckButtons, ButtonUp(x) PROVE b \notin together
  <2>1. PICK r \in Seq(Made) :
           /\ batch' = batch \o r
           /\ \A i \in 1 .. Len(r) : ~r[i].on \/ (r[i] = Act("startup", x, TRUE) /\ x \in longs \ chorded)
    BY <1>2, UpMakes
  <2>2. PICK i \in 1 .. Len(r) : r[i] = A
    BY <1>a, <2>1
  <2>3. r[i] = Act("startup", x, TRUE) /\ x \in longs \ chorded
    BY <1>b, <2>1, <2>2
  <2>4. Act("startup", x, TRUE).by = x
    BY DEF Act
  <2>5. x = b
    BY <1>b, <2>2, <2>3, <2>4
  <2> QED
    BY <2>3, <2>5 DEF TakenAlone
<1>3. CASE PadActions
  <2>1. PICK r \in Seq(Made) :
          /\ batch' = batch \o r
          /\ \A i \in 1 .. Len(r) : \E p \in DeckPanes :
                (r[i] = Act("quill", p, FALSE)) \/ (r[i] = Act("quill", p, TRUE) /\ p \in hands.pads)
    BY <1>3, PadsMake
  <2>2. PICK i \in 1 .. Len(r) : r[i] = A
    BY <1>a, <2>1
  <2>3. PICK p \in DeckPanes : r[i] = Act("quill", p, FALSE) \/ r[i] = Act("quill", p, TRUE)
    BY <2>1
  <2> QED
    BY <1>s, <2>2, <2>3
<1>4. CASE DecodeAxis
  <2> DEFINE a == Act("throttle", Head(sdl)[2], Head(sdl)[3])
  <2>1. sdl # <<>> /\ Head(sdl)[1] = "axis" /\ batch' = batch \o <<a>>
    BY <1>4 DEF DecodeAxis, Event, Tell
  <2>2. Head(sdl) \in Events
    BY <2>1, TailIs DEF DeckTypes, HandsTypes
  <2>3. Head(sdl)[2] \in DeckPanes /\ Head(sdl)[3] \in BOOLEAN
    BY <2>1, <2>2, EventIs
  <2>4. a \in Made /\ a # A
    BY <1>s, <2>3, MadeIs
  <2> HIDE DEF a
  <2> DEFINE r == <<a>>
  <2>5. r \in Seq(Made) /\ (\A i \in 1 .. Len(r) : r[i] = a) /\ batch' = batch \o r
    BY <2>1, <2>4, Single
  <2> HIDE DEF r
  <2>6. PICK i \in 1 .. Len(r) : r[i] = A
    BY <1>a, <2>5
  <2> QED
    BY <2>4, <2>5, <2>6
<1>5. CASE DecodeHat
  <2>1. PICK h \in Hats, r \in Seq(Made) :
          /\ batch' = batch \o r
          /\ \A i \in 1 .. Len(r) : r[i] = Act("dpad", hat, FALSE) \/ r[i] = Act("dpad", h, TRUE)
    BY <1>5, HatMakes
  <2>2. PICK i \in 1 .. Len(r) : r[i] = A
    BY <1>a, <2>1
  <2> QED
    BY <1>s, <2>1, <2>2
<1>6. CASE DecodeRemoved
  <2> DEFINE a == Act("disconnect", NoPane, TRUE)
  <2>1. batch' = batch \o <<a>>
    BY <1>6 DEF DecodeRemoved, Tell
  <2>4. a \in Made /\ a # A
    BY <1>s, MadeIs
  <2> HIDE DEF a
  <2> DEFINE r == <<a>>
  <2>5. r \in Seq(Made) /\ (\A i \in 1 .. Len(r) : r[i] = a) /\ batch' = batch \o r
    BY <2>1, <2>4, Single
  <2> HIDE DEF r
  <2>6. PICK i \in 1 .. Len(r) : r[i] = A
    BY <1>a, <2>5
  <2> QED
    BY <2>4, <2>5, <2>6
<1>7. ASSUME NEW x \in DeckButtons, NEW on, ButtonActions(x, on) PROVE b \notin together
  <2>1. CASE batch' = batch
    BY <1>0, <2>1
  <2> QED
    BY <1>1, <1>2, <1>7, <2>1 DEF ButtonActions
<1>8. ASSUME NEW x \in Paddles, PaddleEdge(x) PROVE b \notin together
  <2>1. x \in DeckButtons /\ ButtonActions(x, x \in hands.buttons)
    BY <1>8, Profile DEF PaddleEdge
  <2> QED
    BY <1>7, <2>1
<1>9. CASE DecodeButton
  <2>1. sdl # <<>> /\ Head(sdl)[1] = "button" /\ ButtonActions(Head(sdl)[2], Head(sdl)[3])
    BY <1>9 DEF DecodeButton, Event
  <2>2. Head(sdl) \in Events
    BY <2>1, TailIs DEF DeckTypes, HandsTypes
  <2>3. Head(sdl)[2] \in DeckButtons
    BY <2>1, <2>2, EventIs
  <2> QED
    BY <1>7, <2>1, <2>3
<1>10. CASE batch' = batch
  BY <1>0, <1>10
<1>11. CASE PollDeck \/ TakeSdl
  BY <1>0, <1>11 DEF PollDeck, TakeSdl
<1>12. CASE HandsMove
  BY <1>10, <1>12, HandsTyped
<1>13. CASE RouterHandles
  <2>1. batch # <<>> /\ batch' = Tail(batch)
    BY <1>13, HandlesIsHandling, Popped
  <2>2. Len(Tail(batch)) = Len(batch) - 1 /\ Len(batch) \in Nat
    BY <1>0, <2>1, TailIs
  <2> QED
    BY <2>1, <2>2
<1>14. CASE HandleFails
  <2>1. batch' = <<>>
    BY <1>14 DEF HandleFails
  <2>2. Len(<<>>) = 0 /\ Len(batch) \in Nat
    BY <1>0
  <2> QED
    BY <2>1, <2>2
<1>15. CASE Handled \/ RouterTick
  BY <1>10, <1>15 DEF Handled, RouterTick
<1> QED
  BY NextIs, <1>3, <1>4, <1>5, <1>6, <1>8, <1>9, <1>11, <1>12, <1>13, <1>14, <1>15
     DEF PollInput, HandleAction, RouterHandles

\* A button that a chord took neither starts nor shuts down an engine when it is
\* released, for any profile (_long_press_button_actions).
THEOREM ChordsStartNothing == DeckSpec => HaltNeverStarts
<1> DEFINE Inv == DeckTypes /\ TakenAlone
<1>1. DeckInit => Inv
  <2>1. DeckInit => TakenAlone
    BY DEF DeckInit, TakenAlone
  <2> QED
    BY <2>1, TypesInit
<1>2. Inv /\ [DeckNext]_deckVars => Inv'
  <2>1. Inv /\ DeckNext => Inv'
    BY TypesStep, AloneStep
  <2>2. Inv /\ UNCHANGED deckVars => Inv'
    <3>1. TakenAlone /\ UNCHANGED deckVars => TakenAlone'
      BY DEF deckVars, providerVars, TakenAlone
    <3> QED
      BY <3>1, TypesStutter
  <2> QED
    BY <2>1, <2>2
<1>3. Inv /\ [DeckNext]_deckVars =>
        [\A b \in LongButtons :
           Len(batch') > Len(batch) /\ Last(batch') = Act("startup", b, TRUE) => b \notin together]_deckVars
  BY HaltStep
<1> HIDE DEF Inv
<1> QED
  BY <1>1, <1>2, <1>3, PTL DEF DeckSpec, HaltNeverStarts

-----------------------------------------------------------------------------
(* From the hands to the provider *)

\* What an event says of a button, a stick and the hat.
LEMMA EventSets ==
  ASSUME NEW e \in Events
  PROVE  /\ \A b \in DeckButtons :
              /\ e \in {<<"button", b, TRUE>>} <=> e[1] = "button" /\ e[2] = b /\ e[3]
              /\ e \in LetGo(b) <=> (e[1] = "button" /\ e[2] = b /\ ~e[3]) \/ e[1] = "removed"
         /\ \A p \in DeckPanes :
              /\ e \in {<<"axis", p, TRUE>>} <=> e[1] = "axis" /\ e[2] = p /\ e[3]
              /\ e \in Centred(p) <=> (e[1] = "axis" /\ e[2] = p /\ ~e[3]) \/ e[1] = "removed"
         /\ \A X \in HatSets :
              /\ e \in HatOn(X) <=> e[1] = "hat" /\ e[2] \in X
              /\ e \in HatOff(X) <=> (e[1] = "hat" /\ e[2] \notin X) \/ e[1] = "removed"
<1>1. /\ e = <<e[1], e[2], e[3]>> /\ e[3] \in BOOLEAN
      /\ e[1] \in {"button", "axis", "hat", "removed"}
      /\ e[1] = "hat" => e[2] \in Hats /\ e[3] = TRUE
      /\ e[1] = "removed" => e = Gone
  BY EventIs
<1>2. \A k, x, on : e = <<k, x, on>> <=> e[1] = k /\ e[2] = x /\ e[3] = on
  BY <1>1
<1>3. e = Gone <=> e[1] = "removed"
  <2>1. Gone[1] = "removed"
    BY DEF Gone
  <2> QED
    BY <1>1, <2>1
<1>4. \A b : e = <<"button", b, TRUE>> <=> e[1] = "button" /\ e[2] = b /\ e[3]
  BY <1>1, <1>2
<1>5. \A b : e = <<"button", b, FALSE>> <=> e[1] = "button" /\ e[2] = b /\ ~e[3]
  <2> TAKE b
  <2>1. e = <<"button", b, FALSE>> <=> e[1] = "button" /\ e[2] = b /\ e[3] = FALSE
    BY ONLY <1>2
  <2> QED
    BY <1>1, <2>1
<1>6. \A p : e = <<"axis", p, TRUE>> <=> e[1] = "axis" /\ e[2] = p /\ e[3]
  BY <1>1, <1>2
<1>7. \A p : e = <<"axis", p, FALSE>> <=> e[1] = "axis" /\ e[2] = p /\ ~e[3]
  <2> TAKE p
  <2>1. e = <<"axis", p, FALSE>> <=> e[1] = "axis" /\ e[2] = p /\ e[3] = FALSE
    BY ONLY <1>2
  <2> QED
    BY <1>1, <2>1
<1>8. \A h : e = <<"hat", h, TRUE>> <=> e[1] = "hat" /\ e[2] = h
  <2> TAKE h
  <2>1. e = <<"hat", h, TRUE>> <=> e[1] = "hat" /\ e[2] = h /\ e[3] = TRUE
    BY ONLY <1>2
  <2>2. e[1] = "hat" => e[3] = TRUE
    BY <1>1
  <2> QED
    BY ONLY <2>1, <2>2
<1>9. \A b \in DeckButtons :
        /\ e \in {<<"button", b, TRUE>>} <=> e[1] = "button" /\ e[2] = b /\ e[3]
        /\ e \in LetGo(b) <=> (e[1] = "button" /\ e[2] = b /\ ~e[3]) \/ e[1] = "removed"
  <2> TAKE b \in DeckButtons
  <2>1. e \in {<<"button", b, TRUE>>} <=> e = <<"button", b, TRUE>>
    OBVIOUS
  <2>2. e \in LetGo(b) <=> e = <<"button", b, FALSE>> \/ e = Gone
    BY DEF LetGo
  <2> QED
    BY <1>3, <1>4, <1>5, <2>1, <2>2
<1>10. \A p \in DeckPanes :
        /\ e \in {<<"axis", p, TRUE>>} <=> e[1] = "axis" /\ e[2] = p /\ e[3]
        /\ e \in Centred(p) <=> (e[1] = "axis" /\ e[2] = p /\ ~e[3]) \/ e[1] = "removed"
  <2> TAKE p \in DeckPanes
  <2>1. e \in {<<"axis", p, TRUE>>} <=> e = <<"axis", p, TRUE>>
    OBVIOUS
  <2>2. e \in Centred(p) <=> e = <<"axis", p, FALSE>> \/ e = Gone
    BY DEF Centred
  <2> QED
    BY <1>3, <1>6, <1>7, <2>1, <2>2
<1>11. \A X \in HatSets :
         /\ e \in HatOn(X) <=> e[1] = "hat" /\ e[2] \in X
         /\ e \in HatOff(X) <=> (e[1] = "hat" /\ e[2] \notin X) \/ e[1] = "removed"
  <2> TAKE X \in HatSets
  <2>1. e \in HatOn(X) <=> \E x \in X : e = <<"hat", x, TRUE>>
    BY DEF HatOn
  <2>2. e \in HatOff(X) <=> (\E x \in Hats \ X : e = <<"hat", x, TRUE>>) \/ e = Gone
    BY DEF HatOff
  <2>3. e[1] = "hat" => e[2] \in Hats
    BY <1>1
  <2> QED
    BY <1>3, <1>8, <2>1, <2>2, <2>3
<1> QED
  BY <1>9, <1>10, <1>11

\* A report goes to the end of the queue.
LEMMA Reported ==
  ASSUME NEW q \in Seq(Events), NEW e \in Events, NEW On, NEW Offs, NEW now, NEW stays, NEW stays1,
         Silenced(q, now, On, Offs, stays), e \in On => stays1, stays => stays1 \/ e \in Offs
  PROVE  Silenced(Append(q, e), now, On, Offs, stays1)
<1> DEFINE r == <<e>>
<1>1. Append(q, e) = q \o r /\ r \in Seq(Events)
  BY Appended
<1>2. Silenced(r, FALSE, On, Offs, stays1) /\ (e \in Offs => Later(r, Offs, 0))
  BY SilencedOne
<1> HIDE DEF r
<1>3. Silenced(q \o r, now, On, Offs, stays1)
  BY <1>1, <1>2, SilencedJoin
<1> QED
  BY <1>1, <1>3

\* What is off stays off, what stays may stay.
LEMMA SilencedStill ==
  ASSUME NEW q, NEW On, NEW Offs, NEW now, NEW now1, NEW stays, NEW stays1,
         Silenced(q, now, On, Offs, stays), stays => stays1, now1 => now \/ stays1
  PROVE  Silenced(q, now1, On, Offs, stays1)
BY DEF Silenced

Screened(b) == b \in Paddles /\ ~SdlPaddles
ButtonSeen(b) ==
  IF Screened(b)
  THEN (b \in held => b \in reported.buttons) /\ \A i \in 1 .. Len(sdl) : sdl[i] # <<"button", b, TRUE>>
  ELSE Silenced(sdl, b \in held, {<<"button", b, TRUE>>}, LetGo(b), b \in hands.buttons)
StickSeen(p) == Silenced(sdl, FALSE, {<<"axis", p, TRUE>>}, Centred(p), p \in hands.sticks)
HatSeenIn(X) == Silenced(sdl, hat \in X, HatOn(X), HatOff(X), hands.hat \in X)
AllSeen ==
  /\ \A b \in DeckButtons : ButtonSeen(b)
  /\ \A p \in DeckPanes : StickSeen(p)
  /\ \A X \in HatSets : HatSeenIn(X)

\* A report e of the hands, when it tells what they did.
LEMMA ReportSeen ==
  ASSUME DeckTypes, AllSeen, NEW e \in Events, sdl' = Append(sdl, e), UNCHANGED <<held, hat, reported>>,
         \A b \in DeckButtons : Screened(b) => ~(e[1] = "button" /\ e[2] = b),
         \A b \in DeckButtons : ~Screened(b) =>
            /\ e[1] = "button" /\ e[2] = b /\ e[3] => b \in hands'.buttons
            /\ b \in hands.buttons => b \in hands'.buttons \/ (e[1] = "button" /\ e[2] = b /\ ~e[3]),
         \A p \in DeckPanes :
            /\ e[1] = "axis" /\ e[2] = p /\ e[3] => p \in hands'.sticks
            /\ p \in hands.sticks => p \in hands'.sticks \/ (e[1] = "axis" /\ e[2] = p /\ ~e[3]),
         e[1] = "hat" => e[2] = hands'.hat, e[1] # "hat" => hands'.hat = hands.hat
  PROVE  AllSeen'
<1>0. sdl \in Seq(Events) /\ Append(sdl, e) \in Seq(Events)
  BY Appended DEF DeckTypes, HandsTypes
<1>1. ASSUME NEW b \in DeckButtons PROVE ButtonSeen(b)'
  <2>1. CASE Screened(b)
    <3>1. e # <<"button", b, TRUE>>
      <4>1. ~(e[1] = "button" /\ e[2] = b)
        BY <2>1
      <4>2. <<"button", b, TRUE>>[1] = "button" /\ <<"button", b, TRUE>>[2] = b
        OBVIOUS
      <4> QED
        BY <4>1, <4>2
    <3>2. /\ Len(Append(sdl, e)) = Len(sdl) + 1 /\ Append(sdl, e)[Len(sdl) + 1] = e /\ Len(sdl) \in Nat
          /\ \A i \in 1 .. Len(sdl) : Append(sdl, e)[i] = sdl[i]
      BY <1>0, Appended
    <3>3. (b \in held => b \in reported.buttons) /\ \A i \in 1 .. Len(sdl) : sdl[i] # <<"button", b, TRUE>>
      BY <2>1 DEF AllSeen, ButtonSeen
    <3> DEFINE x == <<"button", b, TRUE>>
    <3>5. e # x /\ \A i \in 1 .. Len(sdl) : sdl[i] # x
      BY <3>1, <3>3
    <3> HIDE DEF x
    <3>4. \A i \in 1 .. Len(Append(sdl, e)) : Append(sdl, e)[i] # x
      <4> TAKE i \in 1 .. Len(Append(sdl, e))
      <4>1. i \in 1 .. Len(sdl) \/ i = Len(sdl) + 1
        BY <3>2
      <4> QED
        BY <3>2, <3>5, <4>1
    <3> QED
      BY <2>1, <3>3, <3>4 DEF ButtonSeen, Screened, x
  <2>2. CASE ~Screened(b)
    <3> DEFINE On == {<<"button", b, TRUE>>}
    <3>1. Silenced(sdl, b \in held, On, LetGo(b), b \in hands.buttons)
      BY <2>2 DEF AllSeen, ButtonSeen
    <3>2. e \in On => b \in hands'.buttons
      BY <2>2, EventSets
    <3>3. b \in hands.buttons => b \in hands'.buttons \/ e \in LetGo(b)
      BY <2>2, EventSets
    <3> HIDE DEF On
    <3>4. Silenced(Append(sdl, e), b \in held, On, LetGo(b), b \in hands'.buttons)
      BY <1>0, <3>1, <3>2, <3>3, Reported
    <3> QED
      BY <2>2, <3>4 DEF ButtonSeen, Screened, On, LetGo, Gone
  <2> QED
    BY <2>1, <2>2
<1>2. ASSUME NEW p \in DeckPanes PROVE StickSeen(p)'
  <2> DEFINE On == {<<"axis", p, TRUE>>}
  <2>1. Silenced(sdl, FALSE, On, Centred(p), p \in hands.sticks)
    BY DEF AllSeen, StickSeen
  <2>2. e \in On => p \in hands'.sticks
    BY EventSets
  <2>3. p \in hands.sticks => p \in hands'.sticks \/ e \in Centred(p)
    BY EventSets
  <2> HIDE DEF On
  <2>4. Silenced(Append(sdl, e), FALSE, On, Centred(p), p \in hands'.sticks)
    BY <1>0, <2>1, <2>2, <2>3, Reported
  <2> QED
    BY <2>4 DEF StickSeen, On, Centred, Gone
<1>3. ASSUME NEW X \in HatSets PROVE HatSeenIn(X)'
  <2>1. Silenced(sdl, hat \in X, HatOn(X), HatOff(X), hands.hat \in X)
    BY DEF AllSeen, HatSeenIn
  <2>2. e \in HatOn(X) => hands'.hat \in X
    BY EventSets
  <2>3. hands.hat \in X => hands'.hat \in X \/ e \in HatOff(X)
    BY EventSets
  <2>4. Silenced(Append(sdl, e), hat \in X, HatOn(X), HatOff(X), hands'.hat \in X)
    BY <1>0, <2>1, <2>2, <2>3, Reported
  <2> QED
    BY <2>4 DEF HatSeenIn, HatOn, HatOff, Gone
<1> QED
  BY <1>1, <1>2, <1>3 DEF AllSeen

LEMMA HandsSeen == ASSUME DeckTypes, AllSeen, HandsMove PROVE AllSeen'
<1>0. /\ hands \in [buttons : SUBSET DeckButtons, sticks : SUBSET DeckPanes, pads : SUBSET DeckPanes, hat : Hats]
      /\ sdl \in Seq(Events) /\ AnalogPanes \subseteq DeckPanes
  BY DeckAssumption DEF DeckTypes, HandsTypes
<1>1. UNCHANGED <<held, hat, reported>>
  BY HandsTyped DEF providerVars
<1>2. CASE UNCHANGED sdl /\ hands'.sticks = hands.sticks /\ hands'.hat = hands.hat
           /\ \A b \in DeckButtons : ~Screened(b) => (b \in hands'.buttons <=> b \in hands.buttons)
  <2>1. ASSUME NEW b \in DeckButtons PROVE ButtonSeen(b)'
    <3>1. CASE Screened(b)
      BY <1>1, <1>2, <3>1 DEF AllSeen, ButtonSeen, Screened
    <3>2. CASE ~Screened(b)
      <4>1. Silenced(sdl, b \in held, {<<"button", b, TRUE>>}, LetGo(b), b \in hands.buttons)
        BY <3>2 DEF AllSeen, ButtonSeen
      <4>2. Silenced(sdl, b \in held, {<<"button", b, TRUE>>}, LetGo(b), b \in hands'.buttons)
        BY <1>2, <3>2, <4>1, SilencedStill
      <4> QED
        BY <1>1, <1>2, <3>2, <4>2 DEF ButtonSeen, Screened, LetGo, Gone
    <3> QED
      BY <3>1, <3>2
  <2>2. ASSUME NEW p \in DeckPanes PROVE StickSeen(p)'
    BY <1>2 DEF AllSeen, StickSeen, Silenced, Later, Centred, Gone
  <2>3. ASSUME NEW X \in HatSets PROVE HatSeenIn(X)'
    BY <1>1, <1>2 DEF AllSeen, HatSeenIn, Silenced, Later, HatOn, HatOff, Gone
  <2> QED
    BY <2>1, <2>2, <2>3 DEF AllSeen
<1>3. ASSUME NEW b \in DeckButtons, MoveButton(b) PROVE AllSeen'
  <2>1. hands' = [hands EXCEPT !.buttons = Flip(hands.buttons, b)]
    BY <1>3 DEF MoveButton
  <2>2. /\ hands'.sticks = hands.sticks /\ hands'.hat = hands.hat
        /\ \A x \in DeckButtons : x # b => (x \in hands'.buttons <=> x \in hands.buttons)
        /\ b \in hands'.buttons <=> b \notin hands.buttons
    BY <1>0, <2>1 DEF Flip
  <2>3. CASE Screened(b)
    <3>1. sdl' = sdl
      BY <1>3, <2>3 DEF MoveButton, Screened
    <3> QED
      BY <1>2, <2>2, <2>3, <3>1
  <2>4. CASE ~Screened(b)
    <3> DEFINE on == b \notin hands.buttons
               e == <<"button", b, on>>
    <3>1. sdl' = Append(sdl, e)
      BY <1>3, <2>4 DEF MoveButton, Screened, Reports
    <3>2. on \in BOOLEAN
      OBVIOUS
    <3>3. e \in Events
      BY <3>2, EventIs
    <3>4. e[1] = "button" /\ e[2] = b /\ e[3] = on
      OBVIOUS
    <3>5. e[3] <=> b \notin hands.buttons
      BY <3>4
    <3> HIDE DEF e, on
    <3> QED
      BY <1>1, <2>2, <2>4, <3>1, <3>3, <3>4, <3>5, ReportSeen
  <2> QED
    BY <2>3, <2>4
<1>4. ASSUME NEW p \in DeckPanes, MoveStick(p) PROVE AllSeen'
  <2>1. hands' = [hands EXCEPT !.sticks = Flip(hands.sticks, p)]
    BY <1>4 DEF MoveStick
  <2>2. /\ hands'.buttons = hands.buttons /\ hands'.hat = hands.hat
        /\ \A x \in DeckPanes : x # p => (x \in hands'.sticks <=> x \in hands.sticks)
        /\ p \in hands'.sticks <=> p \notin hands.sticks
    BY <1>0, <2>1 DEF Flip
  <2> DEFINE on == p \notin hands.sticks
             e == <<"axis", p, on>>
  <2>3. sdl' = Append(sdl, e)
    BY <1>4 DEF MoveStick, Reports
  <2>4. on \in BOOLEAN
    OBVIOUS
  <2>5. e \in Events
    BY <2>4, EventIs
  <2>6. e[1] = "axis" /\ e[2] = p /\ e[3] = on
    OBVIOUS
  <2>7. e[3] <=> p \notin hands.sticks
    BY <2>6
  <2> HIDE DEF e, on
  <2> QED
    BY <1>1, <2>2, <2>3, <2>5, <2>6, <2>7, ReportSeen
<1>5. ASSUME NEW h \in Hats, MoveHat(h) PROVE AllSeen'
  <2>1. hands' = [hands EXCEPT !.hat = h]
    BY <1>5 DEF MoveHat
  <2>2. hands'.buttons = hands.buttons /\ hands'.hat = h /\ hands'.sticks = hands.sticks
    BY <1>0, <2>1
  <2> DEFINE e == <<"hat", h, TRUE>>
  <2>3. sdl' = Append(sdl, e)
    BY <1>5 DEF MoveHat, Reports
  <2>5. e \in Events
    BY EventIs
  <2>6. e[1] = "hat" /\ e[2] = h
    OBVIOUS
  <2> HIDE DEF e
  <2> QED
    BY <1>1, <2>2, <2>3, <2>5, <2>6, ReportSeen
<1>6. CASE Reconnect
  <2>1. hands' = hands /\ sdl' = Append(sdl, Gone)
    BY <1>6 DEF Reconnect, Reports, Gone
  <2>5. Gone \in Events /\ Gone[1] = "removed"
    BY EventIs DEF Gone
  <2> QED
    BY <1>1, <2>1, <2>5, ReportSeen
<1>7. ASSUME NEW p \in DeckPanes, MovePad(p) PROVE AllSeen'
  <2>1. hands' = [hands EXCEPT !.pads = Flip(hands.pads, p)] /\ sdl' = sdl
    BY <1>7 DEF MovePad
  <2>2. hands'.buttons = hands.buttons /\ hands'.hat = hands.hat /\ hands'.sticks = hands.sticks
    BY <1>0, <2>1
  <2> QED
    BY <1>2, <2>1, <2>2
<1>8. ASSUME NEW p \in DeckPanes, TouchScreen(p) PROVE AllSeen'
  <2>1. hands' = hands /\ sdl' = sdl
    BY <1>8 DEF TouchScreen
  <2> QED
    BY <1>2, <2>1
<1> QED
  BY <1>0, <1>3, <1>4, <1>5, <1>6, <1>7, <1>8 DEF HandsMove

\* An edge leaves a button as the report says.
LEMMA EdgeHeld ==
  ASSUME DeckTypes, NEW b \in DeckButtons, NEW on \in BOOLEAN, ButtonActions(b, on)
  PROVE  \A x : x \in held' <=> IF x = b THEN on ELSE x \in held
<1>1. CASE SameEdge(b, on)
  BY <1>1 DEF ButtonActions, SameEdge
<1>2. CASE ~SameEdge(b, on) /\ on
  <2>1. held' = held \cup {b}
    BY <1>2 DEF ButtonActions, ButtonDown
  <2> QED
    BY <1>2, <2>1
<1>3. CASE ~SameEdge(b, on) /\ ~on
  <2>1. held' = held \ {b}
    BY <1>3 DEF ButtonActions, ButtonUp
  <2> QED
    BY <1>3, <2>1
<1> QED
  BY <1>1, <1>2, <1>3

\* An event is read.
LEMMA ReadSeen ==
  ASSUME DeckTypes, AllSeen, sdl # <<>>, sdl' = Tail(sdl), UNCHANGED <<hands, reported>>,
         NEW e, e = Head(sdl),
         \A b \in DeckButtons :
           b \in held' => (e[1] = "button" /\ e[2] = b /\ e[3])
                          \/ (b \in held /\ ~(e[1] = "button" /\ e[2] = b /\ ~e[3]) /\ e[1] # "removed"),
         \A X \in HatSets :
           hat' \in X => (e[1] = "hat" /\ e[2] \in X)
                         \/ (hat \in X /\ e[1] \notin {"hat", "removed"})
  PROVE  AllSeen'
<1>0. sdl \in Seq(Events) /\ e \in Events
  <2>1. sdl \in Seq(Events)
    BY DEF DeckTypes, HandsTypes
  <2> QED
    BY <2>1, TailIs
<1>1. ASSUME NEW b \in DeckButtons PROVE ButtonSeen(b)'
  <2>1. CASE Screened(b)
    <3> DEFINE x == <<"button", b, TRUE>>
    <3>1. (b \in held => b \in reported.buttons) /\ \A i \in 1 .. Len(sdl) : sdl[i] # x
      BY <2>1 DEF AllSeen, ButtonSeen
    <3>2. Len(sdl) \in Nat /\ Len(sdl) >= 1 /\ Head(sdl) = sdl[1] /\ Len(Tail(sdl)) = Len(sdl) - 1
          /\ \A i \in 1 .. Len(sdl) - 1 : Tail(sdl)[i] = sdl[i + 1] /\ i + 1 \in 1 .. Len(sdl)
      BY <1>0, TailIs
    <3>4. ~(e[1] = "button" /\ e[2] = b /\ e[3])
      <4>1. 1 \in 1 .. Len(sdl)
        BY <3>2
      <4>2. e # x
        BY <3>1, <3>2, <4>1
      <4> QED
        BY <1>0, <4>2, EventSets
    <3>5. b \in held' => b \in reported.buttons
      BY <3>1, <3>4
    <3> HIDE DEF x
    <3>6. \A i \in 1 .. Len(Tail(sdl)) : Tail(sdl)[i] # x
      BY <3>1, <3>2
    <3> QED
      BY <2>1, <3>5, <3>6 DEF ButtonSeen, Screened, x
  <2>2. CASE ~Screened(b)
    <3> DEFINE On == {<<"button", b, TRUE>>}
    <3>1. Silenced(sdl, b \in held, On, LetGo(b), b \in hands.buttons)
      BY <2>2 DEF AllSeen, ButtonSeen
    <3>2. b \in held' => e \in On \/ (b \in held /\ e \notin LetGo(b))
      BY <1>0, EventSets
    <3>3. b \in held' => Head(sdl) \in On \/ (b \in held /\ Head(sdl) \notin LetGo(b))
      BY <3>2
    <3> DEFINE now1 == b \in held'
               now == b \in held
               stays == b \in hands.buttons
               Offs == LetGo(b)
    <3> HIDE DEF On, Offs, now, now1, stays
    <3>5. now1 => Head(sdl) \in On \/ stays \/ (now /\ Head(sdl) \notin Offs)
      BY <3>3 DEF now, now1, Offs
    <3>6. Silenced(sdl, now, On, Offs, stays)
      BY <3>1 DEF now, stays, Offs
    <3>8. sdl # <<>> /\ sdl \in Seq(Events)
      BY <1>0
    <3>7. Silenced(Tail(sdl), now1, On, LetGo(b), stays)
      BY ONLY <3>5, <3>6, <3>8, SilencedRead DEF Offs
    <3>4. Silenced(Tail(sdl), b \in held', On, LetGo(b), b \in hands.buttons)
      BY <3>7 DEF now1, stays
    <3> QED
      BY <2>2, <3>4 DEF ButtonSeen, Screened, On, LetGo, Gone
  <2> QED
    BY <2>1, <2>2
<1>2. ASSUME NEW p \in DeckPanes PROVE StickSeen(p)'
  <2> DEFINE On == {<<"axis", p, TRUE>>}
  <2>1. Silenced(sdl, FALSE, On, Centred(p), p \in hands.sticks)
    BY DEF AllSeen, StickSeen
  <2> HIDE DEF On
  <2>4. Silenced(Tail(sdl), FALSE, On, Centred(p), p \in hands.sticks)
    BY <1>0, <2>1, SilencedRead
  <2> QED
    BY <2>4 DEF StickSeen, On, Centred, Gone
<1>3. ASSUME NEW X \in HatSets PROVE HatSeenIn(X)'
  <2>1. Silenced(sdl, hat \in X, HatOn(X), HatOff(X), hands.hat \in X)
    BY DEF AllSeen, HatSeenIn
  <2>2. hat' \in X => e \in HatOn(X) \/ (hat \in X /\ e \notin HatOff(X))
    BY <1>0, EventSets
  <2> DEFINE now1 == hat' \in X
             now == hat \in X
             stays == hands.hat \in X
  <2> HIDE DEF now, now1, stays
  <2>5. now1 => Head(sdl) \in HatOn(X) \/ stays \/ (now /\ Head(sdl) \notin HatOff(X))
    BY <2>2 DEF now, now1
  <2>6. Silenced(sdl, now, HatOn(X), HatOff(X), stays)
    BY <2>1 DEF now, stays
  <2>8. sdl # <<>> /\ sdl \in Seq(Events)
    BY <1>0
  <2>7. Silenced(Tail(sdl), now1, HatOn(X), HatOff(X), stays)
    BY ONLY <2>5, <2>6, <2>8, SilencedRead
  <2>4. Silenced(Tail(sdl), hat' \in X, HatOn(X), HatOff(X), hands.hat \in X)
    BY <2>7 DEF now1, stays
  <2> QED
    BY <2>4 DEF HatSeenIn, HatOn, HatOff, Gone
<1> QED
  BY <1>1, <1>2, <1>3 DEF AllSeen

\* The hat's sets are of positions that it was moved to.
LEMMA HatSetsMoved == \A X \in HatSets : X \subseteq Moved /\ "neutral" \notin X
BY DEF HatSets, Moved, Hats

LEMMA PollSeen == ASSUME DeckTypes, AllSeen, PollInput PROVE AllSeen'
<1>0. hands' = hands /\ sdl \in Seq(Events)
  BY PollTyped DEF DeckTypes, HandsTypes
<1>1. CASE PollDeck \/ TakeSdl \/ PadActions
  <2>1. UNCHANGED <<sdl, held, hat>> /\ reported'.buttons = reported.buttons
    BY <1>1 DEF PollDeck, TakeSdl, PadActions, providerVars, DeckTypes, ProviderTypes
  <2> QED
    BY <1>0, <2>1 DEF AllSeen, ButtonSeen, Screened, StickSeen, HatSeenIn, Silenced, Later, LetGo, Centred, HatOn,
         HatOff, Gone
<1>2. ASSUME NEW b \in Paddles, PaddleEdge(b) PROVE AllSeen'
  <2> DEFINE on == b \in hands.buttons
  <2>1. /\ (b \in reported.buttons) # (b \in hands.buttons) /\ ButtonActions(b, on) /\ UNCHANGED <<sdl, hat>>
        /\ reported' = [reported EXCEPT !.buttons = Flip(reported.buttons, b)]
    BY <1>2 DEF PaddleEdge, ButtonActions
  <2>2. on \in BOOLEAN /\ b \in DeckButtons
    BY Profile
  <2>3. on <=> b \in hands.buttons
    OBVIOUS
  <2> HIDE DEF on
  <2>4. \A x : x \in held' <=> IF x = b THEN on ELSE x \in held
    BY <2>1, <2>2, EdgeHeld
  <2>5. /\ on => b \in reported'.buttons
        /\ \A x : x # b => (x \in reported'.buttons <=> x \in reported.buttons)
    BY <2>1, <2>3 DEF Flip, DeckTypes, ProviderTypes
  <2>6. ASSUME NEW x \in DeckButtons PROVE ButtonSeen(x)'
    <3>1. CASE Screened(x)
      <4>1. (x \in held => x \in reported.buttons) /\ \A i \in 1 .. Len(sdl) : sdl[i] # <<"button", x, TRUE>>
        BY <3>1 DEF AllSeen, ButtonSeen
      <4>2. x \in held' => x \in reported'.buttons
        BY <2>4, <2>5, <4>1
      <4> QED
        BY <2>1, <3>1, <4>1, <4>2 DEF ButtonSeen, Screened
    <3>2. CASE ~Screened(x)
      <4>1. Silenced(sdl, x \in held, {<<"button", x, TRUE>>}, LetGo(x), x \in hands.buttons)
        BY <3>2 DEF AllSeen, ButtonSeen
      <4>2. Silenced(sdl, x \in held', {<<"button", x, TRUE>>}, LetGo(x), x \in hands.buttons)
        BY <2>3, <2>4, <4>1, SilencedStill
      <4> QED
        BY <1>0, <2>1, <3>2, <4>2 DEF ButtonSeen, Screened, LetGo, Gone
    <3> QED
      BY <3>1, <3>2
  <2>7. ASSUME NEW p \in DeckPanes PROVE StickSeen(p)'
    BY <1>0, <2>1 DEF AllSeen, StickSeen, Silenced, Later, Centred, Gone
  <2>8. ASSUME NEW X \in HatSets PROVE HatSeenIn(X)'
    BY <1>0, <2>1 DEF AllSeen, HatSeenIn, Silenced, Later, HatOn, HatOff, Gone
  <2> QED
    BY <2>6, <2>7, <2>8 DEF AllSeen
<1> DEFINE e == Head(sdl)
<1>3. CASE DecodeButton
  <2> DEFINE b == e[2]
             on == e[3]
  <2>1. /\ sdl # <<>> /\ e[1] = "button" /\ ButtonActions(b, on) /\ UNCHANGED <<reported, hat>> /\ sdl' = Tail(sdl)
    BY <1>3 DEF DecodeButton, Event, ButtonActions
  <2>2. e \in Events
    BY <1>0, <2>1, TailIs
  <2>3. b \in DeckButtons /\ on \in BOOLEAN
    BY <2>1, <2>2, EventIs
  <2> HIDE DEF b, on
  <2>4. \A x : x \in held' <=> IF x = b THEN on ELSE x \in held
    BY <2>1, <2>3, EdgeHeld
  <2>5. e[2] = b /\ e[3] = on
    BY DEF b, on
  <2> HIDE DEF e
  <2>6. \A x \in DeckButtons :
           x \in held' => (e[1] = "button" /\ e[2] = x /\ e[3])
                          \/ (x \in held /\ ~(e[1] = "button" /\ e[2] = x /\ ~e[3]) /\ e[1] # "removed")
    BY <2>1, <2>3, <2>4, <2>5
  <2>7. e = Head(sdl)
    BY DEF e
  <2> QED
    BY <1>0, <2>1, <2>6, <2>7, ReadSeen
<1>4. CASE DecodeAxis
  <2>1. sdl # <<>> /\ e[1] = "axis" /\ UNCHANGED <<reported, hat, held>> /\ sdl' = Tail(sdl)
    BY <1>4 DEF DecodeAxis, Event
  <2>2. e = Head(sdl)
    OBVIOUS
  <2> HIDE DEF e
  <2> QED
    BY <1>0, <2>1, <2>2, ReadSeen
<1>5. CASE DecodeHat
  <2>1. sdl # <<>> /\ e[1] = "hat" /\ UNCHANGED <<reported, held>> /\ hat' = e[2] /\ sdl' = Tail(sdl)
    BY <1>5 DEF DecodeHat, Event
  <2>2. e = Head(sdl)
    OBVIOUS
  <2> HIDE DEF e
  <2> QED
    BY <1>0, <2>1, <2>2, ReadSeen
<1>6. CASE DecodeRemoved
  <2>1. sdl # <<>> /\ UNCHANGED reported /\ held' = {} /\ hat' = "neutral" /\ sdl' = Tail(sdl)
    BY <1>6 DEF DecodeRemoved, Event
  <2>2. e = Head(sdl)
    OBVIOUS
  <2> HIDE DEF e
  <2> QED
    BY <1>0, <2>1, <2>2, ReadSeen, HatSetsMoved
<1> QED
  BY <1>1, <1>2, <1>3, <1>4, <1>5, <1>6 DEF PollInput

LEMMA SeenStep == ASSUME DeckTypes, AllSeen, DeckNext PROVE AllSeen'
<1>1. CASE HandleAction \/ RouterTick
  <2>1. UNCHANGED <<hands, sdl, providerVars>>
    BY <1>1, RouterTyped
  <2> QED
    BY <2>1 DEF providerVars, AllSeen, ButtonSeen, Screened, StickSeen, HatSeenIn, Silenced, Later, LetGo, Centred,
         HatOn, HatOff, Gone
<1> QED
  BY NextIs, <1>1, HandsSeen, PollSeen

-----------------------------------------------------------------------------
(* From the provider to the router *)

\* An act that puts something on has what holds it there.
Provided(a) ==
  a.on =>
    /\ a.does \in Repeated => a.by \in held
    /\ a.does = "throttle" => StickOrLater(a.by)
    /\ a.does = "quill" => a.by \in reported.pads
    /\ a.does = "dpad" => a.by = hat
    /\ a.does = "admin" => AdminChord
Says(r, Offs) == \E i \in 1 .. Len(r) : r[i] \in Offs
\* What no longer holds has its act in r.
TellsEnd(r) ==
  /\ \A b \in RepeatButtons : b \in held => b \in held' \/ Says(r, OffBy(Repeated, b))
  /\ \A p \in DeckPanes : StickOrLater(p) => StickOrLater(p)' \/ Says(r, OffBy({"throttle"}, p))
  /\ \A p \in DeckPanes : p \in reported.pads => p \in reported'.pads \/ Says(r, OffBy({"quill"}, p))
  /\ \A X \in HatSets : hat \in X => hat' \in X \/ Says(r, DpadOff(X))
  /\ ~DecodeRemoved => (AdminChord => AdminChord' \/ Says(r, AdminOff))
Provides ==
  \E r \in Seq(Made) : batch' = batch \o r /\ (\A i \in 1 .. Len(r) : Provided(r[i])') /\ TellsEnd(r)

LEMMA StickKept ==
  ASSUME DeckTypes, hands' = hands, NEW p \in DeckPanes, StickOrLater(p),
         sdl' = sdl \/ (sdl # <<>> /\ sdl' = Tail(sdl) /\ Head(sdl)[1] \notin {"axis", "removed"})
  PROVE  StickOrLater(p)'
<1>1. CASE p \in hands.sticks
  BY <1>1 DEF StickOrLater
<1>2. CASE p \notin hands.sticks
  <2>1. Later(sdl, Centred(p), 0)
    BY <1>2 DEF StickOrLater
  <2>2. CASE sdl' = sdl
    BY <2>1, <2>2 DEF StickOrLater, Later, Centred, Gone
  <2>3. CASE sdl # <<>> /\ sdl' = Tail(sdl) /\ Head(sdl)[1] \notin {"axis", "removed"}
    <3>1. sdl \in Seq(Events)
      BY DEF DeckTypes, HandsTypes
    <3>2. Head(sdl) \in Events
      BY <2>3, <3>1, TailIs
    <3>3. Head(sdl) \notin Centred(p)
      BY <2>3, <3>2, EventSets
    <3>4. Later(Tail(sdl), Centred(p), 0)
      BY <2>1, <2>3, <3>1, <3>3, LaterRead
    <3> QED
      BY <2>3, <3>4 DEF StickOrLater, Later, Centred, Gone
  <2> QED
    BY <2>2, <2>3
<1> QED
  BY <1>1, <1>2

\* Nothing said, nothing ended.
LEMMA ProvidesNothing ==
  ASSUME DeckTypes, batch' = batch, UNCHANGED <<held, chords, hat>>, reported'.pads = reported.pads,
         \A p \in DeckPanes : StickOrLater(p) => StickOrLater(p)'
  PROVE  Provides
<1> DEFINE r == <<>>
<1>1. batch \in Seq(Made)
  BY DEF DeckTypes, ProviderTypes
<1>2. r \in Seq(Made) /\ Len(r) = 0 /\ batch' = batch \o r
  BY <1>1
<1> HIDE DEF r
<1>3. \A i \in 1 .. Len(r) : Provided(r[i])'
  BY <1>2
<1>4. TellsEnd(r)
  BY DEF TellsEnd, AdminChord
<1> QED
  BY <1>2, <1>3, <1>4 DEF Provides

LEMMA EdgeProvides ==
  ASSUME DeckTypes, NEW b \in DeckButtons, NEW on \in BOOLEAN, ButtonActions(b, on), reported'.pads = reported.pads,
         \A p \in DeckPanes : StickOrLater(p) => StickOrLater(p)'
  PROVE  Provides
<1>0. hat' = hat
  BY DEF ButtonActions
<1>1. CASE SameEdge(b, on)
  <2>1. batch' = batch /\ UNCHANGED <<held, chords, hat>>
    BY <1>1 DEF ButtonActions
  <2> QED
    BY <2>1, ProvidesNothing
<1>2. CASE ~SameEdge(b, on) /\ on
  <2>0. ButtonDown(b)
    BY <1>2 DEF ButtonActions
  <2>1. PICK r \in Seq(Made) :
          /\ batch' = batch \o r
          /\ \A i \in 1 .. Len(r) : \/ r[i] = Act(ButtonDoes[b], b, TRUE) /\ b \notin LongButtons
                                    \/ \E c \in chords' : r[i] = Act(c.does, NoPane, TRUE)
          /\ chords' = chords \cup Completed(b)
    BY <2>0, DownMakes
  <2>2. held' = held \cup {b}
    BY <2>0 DEF ButtonDown
  <2>3. \A i \in 1 .. Len(r) : Provided(r[i])'
    <3> TAKE i \in 1 .. Len(r)
    <3>1. CASE r[i] = Act(ButtonDoes[b], b, TRUE)
      <4>1. r[i].does = ButtonDoes[b] /\ r[i].by = b
        BY <3>1 DEF Act
      <4>2. ButtonDoes[b] \notin {"throttle", "quill", "dpad", "admin"}
        BY Profile DEF DeckDoes
      <4> QED
        BY <2>2, <4>1, <4>2 DEF Provided
    <3>2. CASE \E c \in chords' : r[i] = Act(c.does, NoPane, TRUE)
      <4>1. PICK c \in chords' : r[i] = Act(c.does, NoPane, TRUE)
        BY <3>2
      <4>2. r[i].does = c.does
        BY <4>1 DEF Act
      <4>3. c \in DeckChords
        BY <2>1 DEF DeckTypes, ProviderTypes, Completed
      <4>4. c.does \notin {"throttle", "quill", "dpad"} \cup Repeated
        BY <4>3, Profile DEF ChordDoes, Repeated
      <4>5. c.does = "admin" => AdminChord'
        BY <4>1 DEF AdminChord
      <4> QED
        BY <4>2, <4>4, <4>5 DEF Provided
    <3> QED
      BY <2>1, <3>1, <3>2
  <2>4. TellsEnd(r)
    BY <1>0, <2>1, <2>2 DEF TellsEnd, AdminChord
  <2> QED
    BY <2>1, <2>3, <2>4 DEF Provides
<1>3. CASE ~SameEdge(b, on) /\ ~on
  <2>0. ButtonUp(b)
    BY <1>3 DEF ButtonActions
  <2>1. PICK r \in Seq(Made) :
          /\ batch' = batch \o r
          /\ \A i \in 1 .. Len(r) : ~r[i].on \/ (r[i] = Act("startup", b, TRUE) /\ b \in longs \ chorded)
          /\ b \notin LongButtons => \E i \in 1 .. Len(r) : r[i] = Act(ButtonDoes[b], b, FALSE)
          /\ \A c \in chords \ chords' : \E i \in 1 .. Len(r) : r[i] = Act(c.does, NoPane, FALSE)
    BY <2>0, UpMakes
  <2>2. held' = held \ {b}
    BY <2>0 DEF ButtonUp
  <2>3. \A i \in 1 .. Len(r) : Provided(r[i])'
    <3> TAKE i \in 1 .. Len(r)
    <3>1. CASE ~r[i].on
      BY <3>1 DEF Provided
    <3>2. CASE r[i] = Act("startup", b, TRUE)
      <4>1. r[i].does = "startup"
        BY <3>2 DEF Act
      <4> QED
        BY <4>1 DEF Provided, Repeated
    <3> QED
      BY <2>1, <3>1, <3>2
  <2>4. ASSUME NEW x \in RepeatButtons, x \in held, x \notin held' PROVE Says(r, OffBy(Repeated, x))
    <3>1. x = b /\ ButtonDoes[b] \in Repeated
      BY <2>2, <2>4 DEF RepeatButtons
    <3>2. b \notin LongButtons
      BY <3>1 DEF LongButtons, Repeated
    <3>3. PICK i \in 1 .. Len(r) : r[i] = Act(ButtonDoes[b], b, FALSE)
      BY <2>1, <3>2
    <3>4. r[i].does = ButtonDoes[b] /\ r[i].by = b /\ ~r[i].on
      BY <3>3 DEF Act
    <3>5. r[i] \in Made
      OBVIOUS
    <3>6. r[i] \in OffBy(Repeated, x)
      BY <3>1, <3>4, <3>5 DEF OffBy
    <3> QED
      BY <3>6 DEF Says
  <2>5. ASSUME AdminChord, ~AdminChord' PROVE Says(r, AdminOff)
    <3>1. PICK c \in chords : c.does = "admin"
      BY <2>5 DEF AdminChord
    <3>2. c \notin chords'
      BY <2>5, <3>1 DEF AdminChord
    <3>3. PICK i \in 1 .. Len(r) : r[i] = Act(c.does, NoPane, FALSE)
      BY <2>1, <3>2
    <3>4. r[i].does = "admin" /\ ~r[i].on
      BY <3>1, <3>3 DEF Act
    <3>5. r[i] \in Made
      OBVIOUS
    <3>6. r[i] \in AdminOff
      BY <3>4, <3>5 DEF AdminOff
    <3> QED
      BY <3>6 DEF Says
  <2>6. TellsEnd(r)
    BY <1>0, <2>4, <2>5 DEF TellsEnd
  <2> QED
    BY <2>1, <2>3, <2>6 DEF Provides
<1> QED
  BY <1>1, <1>2, <1>3

LEMMA PadsProvide == ASSUME DeckTypes, PadActions PROVE Provides
<1>1. PICK r \in Seq(Made) :
           /\ batch' = batch \o r
           /\ \A i \in 1 .. Len(r) : \E p \in DeckPanes :
                (r[i] = Act("quill", p, FALSE)) \/ (r[i] = Act("quill", p, TRUE) /\ p \in hands.pads)
           /\ \A p \in reported.pads \ hands.pads : \E i \in 1 .. Len(r) : r[i] = Act("quill", p, FALSE)
  BY PadsMake
<1>2. UNCHANGED <<held, chords, hat, sdl, hands>> /\ reported'.pads = hands.pads
  BY DEF PadActions, Provider, DeckTypes, ProviderTypes
<1>3. \A i \in 1 .. Len(r) : Provided(r[i])'
  <2> TAKE i \in 1 .. Len(r)
  <2>1. PICK p \in DeckPanes : (r[i] = Act("quill", p, FALSE)) \/ (r[i] = Act("quill", p, TRUE) /\ p \in hands.pads)
    BY <1>1
  <2>2. r[i].does = "quill" /\ r[i].by = p /\ (r[i].on => p \in hands.pads)
    BY <2>1 DEF Act
  <2> QED
    BY <1>2, <2>2 DEF Provided, Repeated
<1>4. ASSUME NEW p \in DeckPanes, p \in reported.pads, p \notin hands.pads PROVE Says(r, OffBy({"quill"}, p))
  <2>1. PICK i \in 1 .. Len(r) : r[i] = Act("quill", p, FALSE)
    BY <1>1, <1>4
  <2>2. r[i].does = "quill" /\ r[i].by = p /\ ~r[i].on
    BY <2>1 DEF Act
  <2>3. r[i] \in Made
    OBVIOUS
  <2>4. r[i] \in OffBy({"quill"}, p)
    BY <2>2, <2>3 DEF OffBy
  <2> QED
    BY <2>4 DEF Says
<1>5. \A p \in DeckPanes : StickOrLater(p) => StickOrLater(p)'
  BY <1>2, StickKept
<1>6. TellsEnd(r)
  BY <1>2, <1>4, <1>5 DEF TellsEnd, AdminChord
<1> QED
  BY <1>1, <1>3, <1>6 DEF Provides

LEMMA AxisProvides == ASSUME DeckTypes, AllSeen, DecodeAxis PROVE Provides
<1>a. sdl # <<>> /\ sdl \in Seq(Events) /\ Head(sdl)[1] = "axis"
  BY DEF DecodeAxis, Event, DeckTypes, HandsTypes
<1>b. Head(sdl) \in Events
  BY <1>a, TailIs
<1>c. Head(sdl)[2] \in DeckPanes /\ Head(sdl)[3] \in BOOLEAN
  BY <1>a, <1>b, EventIs
<1>2. PICK e \in Events, p \in DeckPanes, on \in BOOLEAN : e = Head(sdl) /\ p = e[2] /\ on = e[3]
  BY <1>b, <1>c
<1>3. sdl \in Seq(Events)
  BY <1>a
<1> DEFINE a == Act("throttle", p, on)
           r == <<a>>
<1>1. /\ sdl # <<>> /\ e[1] = "axis" /\ sdl' = Tail(sdl) /\ batch' = batch \o r
      /\ UNCHANGED <<reported, held, chords, hat, hands>>
  BY <1>2 DEF DecodeAxis, Event, Tell, Provider
<1>4. a \in Made /\ a.does = "throttle" /\ a.by = p /\ a.on = on
  BY <1>3, MadeIs DEF Act
<1> HIDE DEF a
<1>5. r \in Seq(Made) /\ Len(r) = 1 /\ r[1] = a /\ \A i \in 1 .. Len(r) : r[i] = a
  BY <1>4, Single
<1>6. on => StickOrLater(p)'
  <2> DEFINE On == {<<"axis", p, TRUE>>}
             stays == p \in hands.sticks
             Offs == Centred(p)
             was == FALSE
             now == TRUE
  <2> SUFFICES ASSUME on PROVE StickOrLater(p)'
    OBVIOUS
  <2>1. Silenced(sdl, was, On, Offs, stays)
    BY <1>3 DEF AllSeen, StickSeen
  <2>2. e \in On
    BY <1>1, <1>2, <1>3, EventSets
  <2> HIDE DEF On, stays, Offs, was
  <2>3. now => Head(sdl) \in On
    BY <1>2, <2>2
  <2> HIDE DEF now
  <2>6. sdl \in Seq(Events) /\ sdl # <<>>
    BY <1>1, <1>3
  <2>4. Silenced(Tail(sdl), now, On, Offs, stays)
    BY ONLY <2>1, <2>3, <2>6, SilencedRead
  <2>5. stays \/ Later(Tail(sdl), Centred(p), 0)
    BY <2>4 DEF Silenced, now, Offs
  <2> QED
    BY <1>1, <2>5 DEF stays, StickOrLater, Later, Centred, Gone
<1> HIDE DEF r
<1>7. \A i \in 1 .. Len(r) : Provided(r[i])'
  BY <1>4, <1>5, <1>6 DEF Provided, Repeated
<1>8. ASSUME NEW q \in DeckPanes, StickOrLater(q), ~StickOrLater(q)' PROVE Says(r, OffBy({"throttle"}, q))
  <2>1. q \notin hands.sticks /\ Later(sdl, Centred(q), 0)
    BY <1>1, <1>8 DEF StickOrLater
  <2>2. ~Later(Tail(sdl), Centred(q), 0)
    BY <1>1, <1>8 DEF StickOrLater, Later, Centred, Gone
  <2>3. Head(sdl) \in Centred(q)
    BY <1>1, <1>3, <2>1, <2>2, LaterRead
  <2>4. p = q /\ ~on
    BY <1>1, <1>2, <2>3, EventSets
  <2>5. a \in OffBy({"throttle"}, q)
    BY <1>4, <2>4 DEF OffBy
  <2> QED
    BY <1>5, <2>5 DEF Says
<1>9. TellsEnd(r)
  BY <1>1, <1>8 DEF TellsEnd, AdminChord
<1> QED
  BY <1>1, <1>5, <1>7, <1>9 DEF Provides

LEMMA HatProvides == ASSUME DeckTypes, DecodeHat PROVE Provides
<1>1. PICK h \in Hats, r \in Seq(Made) :
           /\ Head(sdl) = <<"hat", h, TRUE>> /\ hat' = h /\ batch' = batch \o r
           /\ \A i \in 1 .. Len(r) : r[i] = Act("dpad", hat, FALSE) \/ r[i] = Act("dpad", h, TRUE)
           /\ h # hat /\ hat # "neutral" => \E i \in 1 .. Len(r) : r[i] = Act("dpad", hat, FALSE)
  BY HatMakes
<1>2. UNCHANGED <<held, chords, hands, reported>> /\ sdl # <<>> /\ sdl' = Tail(sdl) /\ Head(sdl)[1] = "hat"
  BY DEF DecodeHat, Event, Provider
<1>3. \A i \in 1 .. Len(r) : Provided(r[i])'
  <2> TAKE i \in 1 .. Len(r)
  <2>1. CASE r[i] = Act("dpad", hat, FALSE)
    <3>1. ~r[i].on
      BY <2>1 DEF Act
    <3> QED
      BY <3>1 DEF Provided
  <2>2. CASE r[i] = Act("dpad", h, TRUE)
    <3>1. r[i].does = "dpad" /\ r[i].by = h
      BY <2>2 DEF Act
    <3> QED
      BY <1>1, <3>1 DEF Provided, Repeated
  <2> QED
    BY <1>1, <2>1, <2>2
<1>4. ASSUME NEW X \in HatSets, hat \in X, h \notin X PROVE Says(r, DpadOff(X))
  <2>1. h # hat /\ hat # "neutral"
    BY <1>4, HatSetsMoved
  <2>2. PICK i \in 1 .. Len(r) : r[i] = Act("dpad", hat, FALSE)
    BY <1>1, <2>1
  <2>3. r[i].does = "dpad" /\ ~r[i].on
    BY <2>2 DEF Act
  <2>4. r[i] \in Made
    OBVIOUS
  <2>5. r[i] \in DpadOff(X)
    BY <2>3, <2>4 DEF DpadOff
  <2> QED
    BY <2>5 DEF Says
<1>5. \A p \in DeckPanes : StickOrLater(p) => StickOrLater(p)'
  BY <1>2, StickKept
<1>6. TellsEnd(r)
  BY <1>1, <1>2, <1>4, <1>5 DEF TellsEnd, AdminChord
<1> QED
  BY <1>1, <1>3, <1>6 DEF Provides

LEMMA RemovedProvides == ASSUME DeckTypes, DecodeRemoved PROVE Provides
<1> DEFINE a == Act("disconnect", NoPane, TRUE)
           r == <<a>>
<1>1. batch' = batch \o r
  BY DEF DecodeRemoved, Tell
<1>2. a \in Made /\ a.does = "disconnect"
  BY MadeIs DEF Act
<1> HIDE DEF a
<1>3. r \in Seq(Made) /\ Len(r) = 1 /\ r[1] = a /\ \A i \in 1 .. Len(r) : r[i] = a
  BY <1>2, Single
<1> HIDE DEF r
<1>4. \A i \in 1 .. Len(r) : Provided(r[i])'
  BY <1>2, <1>3 DEF Provided, Repeated
<1>5. /\ \A does, x : a \in OffBy(does, x)
      /\ \A X : a \in DpadOff(X)
  BY <1>2 DEF OffBy, DpadOff
<1>6. /\ \A does, x : Says(r, OffBy(does, x))
      /\ \A X : Says(r, DpadOff(X))
  BY <1>3, <1>5 DEF Says
<1>7. TellsEnd(r)
  BY <1>6 DEF TellsEnd
<1> QED
  BY <1>1, <1>3, <1>4, <1>7 DEF Provides

LEMMA PollProvides == ASSUME DeckTypes, AllSeen, PollInput PROVE Provides
<1>0. hands' = hands /\ sdl \in Seq(Events)
  BY PollTyped DEF DeckTypes, HandsTypes
<1>1. CASE PollDeck \/ TakeSdl
  <2>1. UNCHANGED <<sdl, batch, held, chords, hat, reported>>
    BY <1>1 DEF PollDeck, TakeSdl, providerVars
  <2> QED
    BY <1>0, <2>1, StickKept, ProvidesNothing
<1>2. ASSUME NEW b \in Paddles, PaddleEdge(b) PROVE Provides
  <2> DEFINE on == b \in hands.buttons
  <2>1. ButtonActions(b, on) /\ sdl' = sdl /\ reported' = [reported EXCEPT !.buttons = Flip(reported.buttons, b)]
    BY <1>2 DEF PaddleEdge
  <2>2. on \in BOOLEAN /\ b \in DeckButtons
    BY Profile
  <2> HIDE DEF on
  <2>3. reported'.pads = reported.pads
    BY <2>1 DEF DeckTypes, ProviderTypes
  <2> QED
    BY <1>0, <2>1, <2>2, <2>3, StickKept, EdgeProvides
<1>3. CASE DecodeButton
  <2> DEFINE b == Head(sdl)[2]
             on == Head(sdl)[3]
  <2>1. /\ sdl # <<>> /\ Head(sdl)[1] = "button" /\ ButtonActions(b, on) /\ reported' = reported /\ sdl' = Tail(sdl)
    BY <1>3 DEF DecodeButton, Event
  <2>2. Head(sdl) \in Events
    BY <1>0, <2>1, TailIs
  <2>3. b \in DeckButtons /\ on \in BOOLEAN
    BY <2>1, <2>2, EventIs
  <2> HIDE DEF b, on
  <2>4. \A p \in DeckPanes : StickOrLater(p) => StickOrLater(p)'
    BY <1>0, <2>1, StickKept
  <2> QED
    BY <2>1, <2>3, <2>4, EdgeProvides
<1> QED
  BY <1>1, <1>2, <1>3, PadsProvide, AxisProvides, HatProvides, RemovedProvides DEF PollInput

LEMMA BatchTold ==
  ASSUME NEW q \in Seq(Made), NEW r \in Seq(Made), NEW On, NEW Offs, NEW now, NEW stays, NEW stays1,
         Silenced(q, now, On, Offs, stays), \A i \in 1 .. Len(r) : r[i] \in On => stays1,
         stays => stays1 \/ Says(r, Offs)
  PROVE  Silenced(q \o r, now, On, Offs, stays1)
<1> DEFINE was == FALSE
<1>0. Len(r) \in Nat
  OBVIOUS
<1>1. Says(r, Offs) => Later(r, Offs, 0)
  BY <1>0 DEF Says, Later
<1>2. ~was
  OBVIOUS
<1> HIDE DEF was
<1>3. Silenced(r, was, On, Offs, stays1)
  BY <1>2 DEF Silenced
<1>4. Silenced(r, FALSE, On, Offs, stays1)
  BY <1>3 DEF Silenced
<1> QED
  BY <1>1, <1>4, SilencedJoin

Followed ==
  /\ CommandsHeld /\ ThrottlesHeld /\ QuillsHeld /\ HatHeld /\ HoldsHeld

\* A controller that was not lost is none that goes.
LEMMA NotGone ==
  ASSUME DeckTypes, NeverLost, HoldsHeld, sdl # <<>>
  PROVE  Head(sdl) # Gone /\ Head(sdl)[1] # "removed"
<1>1. sdl \in Seq(Events)
  BY DEF DeckTypes, HandsTypes
<1>2. Head(sdl) = sdl[1] /\ 1 \in 1 .. Len(sdl) /\ Head(sdl) \in Events
  BY <1>1, TailIs
<1>3. Head(sdl) # Gone
  BY <1>2 DEF HoldsHeld
<1> QED
  BY <1>2, <1>3, EventIs

LEMMA FollowsPoll == ASSUME DeckTypes, AllSeen, Followed, PollInput PROVE Followed'
<1>0. UNCHANGED <<hands, router, gui, speed, trouble, clear>> /\ batch \in Seq(Made) /\ sdl \in Seq(Events)
  BY PollTyped DEF DeckTypes, HandsTypes, ProviderTypes
<1>1. PICK r \in Seq(Made) : batch' = batch \o r /\ (\A i \in 1 .. Len(r) : Provided(r[i])') /\ TellsEnd(r)
  BY PollProvides DEF Provides
<1>2. CommandsHeld'
  <2> SUFFICES ASSUME NEW b \in RepeatButtons
               PROVE  Silenced(batch', b \in router'.commands, OnBy(Repeated, b), OffBy(Repeated, b), b \in held')
    BY DEF CommandsHeld, OnBy, OffBy, RepeatButtons
  <2> DEFINE On == OnBy(Repeated, b)
             Offs == OffBy(Repeated, b)
             now == b \in router.commands
             stays == b \in held
             stays1 == b \in held'
  <2>1. Silenced(batch, now, On, Offs, stays)
    BY DEF Followed, CommandsHeld
  <2>2. \A i \in 1 .. Len(r) : r[i] \in On => stays1
    BY <1>1 DEF OnBy, Provided
  <2>3. stays => stays1 \/ Says(r, Offs)
    BY <1>1 DEF TellsEnd
  <2>4. (b \in router'.commands) = now
    BY <1>0
  <2> HIDE DEF On, Offs, now, stays, stays1
  <2>5. Silenced(batch \o r, now, On, Offs, stays1)
    BY <1>0, <2>1, <2>2, <2>3, BatchTold
  <2> QED
    BY <1>1, <2>4, <2>5 DEF On, Offs, stays1
<1>3. ThrottlesHeld'
  <2> SUFFICES ASSUME NEW p \in DeckPanes
               PROVE  Silenced(batch', p \in router'.throttles, OnBy({"throttle"}, p), OffBy({"throttle"}, p),
                               StickOrLater(p)')
    BY DEF ThrottlesHeld, OnBy, OffBy
  <2> DEFINE On == OnBy({"throttle"}, p)
             Offs == OffBy({"throttle"}, p)
             now == p \in router.throttles
             stays == StickOrLater(p)
             stays1 == StickOrLater(p)'
  <2>1. Silenced(batch, now, On, Offs, stays)
    BY DEF Followed, ThrottlesHeld
  <2>2. \A i \in 1 .. Len(r) : r[i] \in On => stays1
    BY <1>1 DEF OnBy, Provided
  <2>3. stays => stays1 \/ Says(r, Offs)
    BY <1>1 DEF TellsEnd
  <2>4. (p \in router'.throttles) = now
    BY <1>0
  <2> HIDE DEF On, Offs, now, stays, stays1
  <2>5. Silenced(batch \o r, now, On, Offs, stays1)
    BY <1>0, <2>1, <2>2, <2>3, BatchTold
  <2> QED
    BY <1>1, <2>4, <2>5 DEF On, Offs, stays1
<1>4. QuillsHeld'
  <2> SUFFICES ASSUME NEW p \in DeckPanes
               PROVE  Silenced(batch', p \in router'.quills, OnBy({"quill"}, p), OffBy({"quill"}, p),
                               p \in reported'.pads)
    BY DEF QuillsHeld, OnBy, OffBy
  <2> DEFINE On == OnBy({"quill"}, p)
             Offs == OffBy({"quill"}, p)
             now == p \in router.quills
             stays == p \in reported.pads
             stays1 == p \in reported'.pads
  <2>1. Silenced(batch, now, On, Offs, stays)
    BY DEF Followed, QuillsHeld
  <2>2. \A i \in 1 .. Len(r) : r[i] \in On => stays1
    BY <1>1 DEF OnBy, Provided
  <2>3. stays => stays1 \/ Says(r, Offs)
    BY <1>1 DEF TellsEnd
  <2>4. (p \in router'.quills) = now
    BY <1>0
  <2> HIDE DEF On, Offs, now, stays, stays1
  <2>5. Silenced(batch \o r, now, On, Offs, stays1)
    BY <1>0, <2>1, <2>2, <2>3, BatchTold
  <2> QED
    BY <1>1, <2>4, <2>5 DEF On, Offs, stays1
<1>5. HatHeld'
  <2> SUFFICES ASSUME NEW X \in HatSets
               PROVE  Silenced(batch', Boosted(X)', DpadOn(X), DpadOff(X), hat' \in X)
    BY DEF HatHeld, DpadOn, DpadOff, HatSets
  <2> DEFINE On == DpadOn(X)
             Offs == DpadOff(X)
             now == Boosted(X)
             stays == hat \in X
             stays1 == hat' \in X
  <2>1. Silenced(batch, now, On, Offs, stays)
    BY DEF Followed, HatHeld
  <2>2. \A i \in 1 .. Len(r) : r[i] \in On => stays1
    BY <1>1 DEF DpadOn, Provided
  <2>3. stays => stays1 \/ Says(r, Offs)
    BY <1>1 DEF TellsEnd
  <2>4. Boosted(X)' = now
    BY <1>0 DEF Boosted, Moved
  <2> HIDE DEF On, Offs, now, stays, stays1
  <2>5. Silenced(batch \o r, now, On, Offs, stays1)
    BY <1>0, <2>1, <2>2, <2>3, BatchTold
  <2> QED
    BY <1>1, <2>4, <2>5 DEF On, Offs, stays1
<1>6. HoldsHeld'
  <2> SUFFICES ASSUME NeverLost'
               PROVE  /\ \A i \in 1 .. Len(sdl') : sdl'[i] # Gone
                      /\ Silenced(batch', gui'.holds # {}, OnBy({"admin"}, NoPane), AdminOff, AdminChord')
    BY DEF HoldsHeld, OnBy, AdminOff, Gone
  <2>0. NeverLost /\ HoldsHeld
    BY <1>0 DEF NeverLost, Followed
  <2> DEFINE On == OnBy({"admin"}, NoPane)
             Offs == AdminOff
             now == gui.holds # {}
             stays == AdminChord
             stays1 == AdminChord'
  <2>1. Silenced(batch, now, On, Offs, stays) /\ \A i \in 1 .. Len(sdl) : sdl[i] # Gone
    BY <2>0 DEF HoldsHeld
  <2>2. \A i \in 1 .. Len(r) : r[i] \in On => stays1
    BY <1>1 DEF OnBy, Provided
  <2>a. ~DecodeRemoved
    BY <2>0, NotGone DEF DecodeRemoved, Event
  <2>3. stays => stays1 \/ Says(r, Offs)
    BY <1>1, <2>a DEF TellsEnd
  <2>4. (gui'.holds # {}) = now
    BY <1>0
  <2> HIDE DEF On, Offs, now, stays, stays1
  <2>5. Silenced(batch \o r, now, On, Offs, stays1)
    BY <1>0, <2>1, <2>2, <2>3, BatchTold
  <2>6. sdl' = sdl \/ (sdl # <<>> /\ sdl' = Tail(sdl))
    BY DEF PollInput, PollDeck, PaddleEdge, PadActions, TakeSdl, DecodeButton, DecodeAxis, DecodeHat, DecodeRemoved,
           Event
  <2>7. \A i \in 1 .. Len(sdl') : sdl'[i] # Gone
    <3>1. CASE sdl' = sdl
      BY <2>1, <3>1
    <3>2. CASE sdl # <<>> /\ sdl' = Tail(sdl)
      BY <1>0, <2>1, <3>2, TailIs
    <3> QED
      BY <2>6, <3>1, <3>2
  <2> QED
    BY <1>1, <2>4, <2>5, <2>7 DEF On, Offs, stays1
<1> QED
  BY <1>2, <1>3, <1>4, <1>5, <1>6 DEF Followed

-----------------------------------------------------------------------------
(* What the router makes of an act *)

\* What is on has been put on by the act, or was on and not put off by it.
Routes ==
  /\ \A b \in RepeatButtons : b \in router'.commands =>
       act \in OnBy(Repeated, b) \/ (b \in router.commands /\ act \notin OffBy(Repeated, b))
  /\ \A p \in DeckPanes : p \in router'.throttles =>
       act \in OnBy({"throttle"}, p) \/ (p \in router.throttles /\ act \notin OffBy({"throttle"}, p))
  /\ \A p \in DeckPanes : p \in router'.quills =>
       act \in OnBy({"quill"}, p) \/ (p \in router.quills /\ act \notin OffBy({"quill"}, p))
  /\ \A X \in HatSets : Boosted(X)' =>
       act \in DpadOn(X) \/ (Boosted(X) /\ act \notin DpadOff(X))
  /\ gui'.holds # {} =>
       act \in OnBy({"admin"}, NoPane) \/ (gui.holds # {} /\ act \notin AdminOff)

\* The sets of acts.
LEMMA ActSets ==
  ASSUME NEW a \in Made
  PROVE  /\ \A does, x : /\ a \in OnBy(does, x) <=> a.does \in does /\ a.by = x /\ a.on
                         /\ a \in OffBy(does, x) <=> a.does = "disconnect" \/ (a.does \in does /\ a.by = x /\ ~a.on)
         /\ \A X : /\ a \in DpadOn(X) <=> a.does = "dpad" /\ a.on /\ a.by \in X
                   /\ a \in DpadOff(X) <=> a.does = "disconnect" \/ (a.does = "dpad" /\ ~(a.on /\ a.by \in X))
         /\ a \in AdminOff <=> a.does = "admin" /\ ~a.on
BY DEF OnBy, OffBy, DpadOn, DpadOff, AdminOff

\* An act that only one part of the router is about.
LEMMA RoutesBut ==
  ASSUME NEW a \in Made, a = act,
         a.does # "disconnect",
         a.does \notin Repeated => router'.commands = router.commands,
         a.does # "throttle" => router'.throttles = router.throttles,
         a.does # "quill" => router'.quills = router.quills,
         a.does # "dpad" => router'.boost = router.boost /\ router'.scroll = router.scroll,
         a.does # "admin" => gui'.holds = gui.holds,
         a.does \in Repeated => \A b \in RepeatButtons : b \in router'.commands =>
            (a.by = b /\ a.on) \/ (b \in router.commands /\ ~(a.by = b /\ ~a.on)),
         a.does = "throttle" => \A p \in DeckPanes : p \in router'.throttles =>
            (a.by = p /\ a.on) \/ (p \in router.throttles /\ ~(a.by = p /\ ~a.on)),
         a.does = "quill" => \A p \in DeckPanes : p \in router'.quills =>
            (a.by = p /\ a.on) \/ (p \in router.quills /\ ~(a.by = p /\ ~a.on)),
         a.does = "dpad" => \A X \in HatSets : Boosted(X)' => a.on /\ a.by \in X,
         a.does = "admin" => (gui'.holds # {} => (a.by = NoPane /\ a.on) \/ (gui.holds # {} /\ a.on))
  PROVE  Routes
<1>1. \A b \in RepeatButtons : b \in router'.commands =>
        a \in OnBy(Repeated, b) \/ (b \in router.commands /\ a \notin OffBy(Repeated, b))
  BY ActSets
<1>2. \A p \in DeckPanes : p \in router'.throttles =>
        a \in OnBy({"throttle"}, p) \/ (p \in router.throttles /\ a \notin OffBy({"throttle"}, p))
  BY ActSets
<1>3. \A p \in DeckPanes : p \in router'.quills =>
        a \in OnBy({"quill"}, p) \/ (p \in router.quills /\ a \notin OffBy({"quill"}, p))
  BY ActSets
<1>4. ASSUME NEW X \in HatSets, Boosted(X)'
      PROVE  a \in DpadOn(X) \/ (Boosted(X) /\ a \notin DpadOff(X))
  <2>1. CASE a.does = "dpad"
    BY <1>4, <2>1, ActSets
  <2>2. CASE a.does # "dpad"
    <3>1. Boosted(X)
      BY <1>4, <2>2 DEF Boosted, Moved
    <3> QED
      BY <2>2, <3>1, ActSets
  <2> QED
    BY <2>1, <2>2
<1>5. gui'.holds # {} =>
        a \in OnBy({"admin"}, NoPane) \/ (gui.holds # {} /\ a \notin AdminOff)
  BY ActSets
<1> QED
  BY <1>1, <1>2, <1>3, <1>4, <1>5 DEF Routes

\* The pane of an act of a chord.
LEMMA ChordPane ==
  ASSUME act \in Made, act.does \in ChordDoes
  PROVE  act.by = NoPane /\ Pane = gui.focus
<1>1. act.by = NoPane /\ NoPane \notin DeckPanes
  BY Profile DEF Made
<1> QED
  BY <1>1 DEF Pane

LEMMA HandlesRoute ==
  ASSUME DeckTypes, ClearView, clear, RouterHandles
  PROVE  Routes
<1>0. /\ router \in [throttles : SUBSET DeckPanes, commanded : [DeckPanes -> 0 .. TopThrottle + 1],
                     quills : SUBSET DeckPanes, boost : Hats, scroll : BOOLEAN,
                     commands : SUBSET RepeatButtons, sequence : 0 .. 2]
      /\ gui \in [focus : DeckPanes, controls : BOOLEAN, panel : [DeckPanes -> Panels],
                  holds : SUBSET DeckPanes]
      /\ ~gui.controls /\ gui.holds \subseteq {gui.focus}
  BY DEF DeckTypes, RouterTypes, ClearView
<1>1. act \in Made /\ act.on \in BOOLEAN
  BY HandlesIsHandling, Popped
<1>2. PICK a \in Made : a = act
  BY <1>1
<1>3. CASE HandleDisconnect
  <2>1. router' = NothingHeld /\ gui' = gui /\ act.does = "disconnect"
    BY <1>3 DEF HandleDisconnect, OnlyRouter, Handling
  <2>2. /\ router'.commands = {} /\ router'.throttles = {} /\ router'.quills = {}
        /\ router'.boost = "neutral" /\ ~router'.scroll
    BY <2>1 DEF NothingHeld
  <2>3. \A X \in HatSets : ~Boosted(X)'
    BY <2>2, HatSetsMoved DEF Boosted, Moved
  <2>4. a \notin AdminOff
    BY <1>2, <2>1, ActSets
  <2> QED
    BY <1>2, <2>1, <2>2, <2>3, <2>4 DEF Routes
<1>4. CASE ControlsOnly
  BY <1>0, <1>4 DEF ControlsOnly
<1>5. CASE HandleThrottle
  <2>1. /\ router' = [router EXCEPT !.throttles = PutIf(router.throttles, act.by),
                                    !.commanded[act.by] = IF act.on THEN router.commanded[act.by] ELSE NotCommanded]
        /\ gui' = gui /\ act.does = "throttle"
    BY <1>5 DEF HandleThrottle, OnlyRouter, Reaches, Handling
  <2>2. router'.throttles = PutIf(router.throttles, act.by)
        /\ router'.commands = router.commands /\ router'.quills = router.quills
        /\ router'.boost = router.boost /\ router'.scroll = router.scroll
    BY <1>0, <2>1
  <2>3. \A p : p \in PutIf(router.throttles, act.by) =>
          (act.by = p /\ act.on) \/ (p \in router.throttles /\ ~(act.by = p /\ ~act.on))
    BY DEF PutIf
  <2> QED
    BY <1>2, <2>1, <2>2, <2>3, RoutesBut DEF Repeated
<1>6. CASE HandleQuill
  <2>1. /\ router' = [router EXCEPT !.quills = PutIf(router.quills, act.by)]
        /\ gui' = gui /\ act.does = "quill"
    BY <1>6 DEF HandleQuill, OnlyRouter, Reaches, Handling
  <2>2. router'.quills = PutIf(router.quills, act.by)
        /\ router'.commands = router.commands /\ router'.throttles = router.throttles
        /\ router'.boost = router.boost /\ router'.scroll = router.scroll
    BY <1>0, <2>1
  <2>3. \A p : p \in PutIf(router.quills, act.by) =>
          (act.by = p /\ act.on) \/ (p \in router.quills /\ ~(act.by = p /\ ~act.on))
    BY DEF PutIf
  <2> QED
    BY <1>2, <2>1, <2>2, <2>3, RoutesBut DEF Repeated
<1>7. CASE HandleScrollBoost
  <2> DEFINE s == act.on /\ Shows("catalog")
             t == IF act.on /\ ~Shows("catalog") THEN act.by ELSE "neutral"
  <2>1. /\ router' = [router EXCEPT !.scroll = s, !.boost = t] /\ gui' = gui /\ act.does = "dpad"
    BY <1>7 DEF HandleScrollBoost, OnlyRouter, Reaches, Handling
  <2>2. /\ router'.scroll = s /\ router'.boost = t
        /\ router'.quills = router.quills /\ router'.commands = router.commands /\ router'.throttles = router.throttles
    BY <1>0, <2>1
  <2>3. act.by \in Moved
    BY <1>1, <2>1 DEF Made
  <2>4. ASSUME NEW X \in HatSets, Boosted(X)' PROVE act.on /\ act.by \in X
    <3>1. router'.boost \in X \/ (router'.scroll /\ X = Moved)
      BY <2>4 DEF Boosted, Moved
    <3>2. CASE router'.boost \in X
      BY <2>2, <3>2, HatSetsMoved
    <3>3. CASE router'.scroll /\ X = Moved
      BY <2>2, <2>3, <3>3
    <3> QED
      BY <3>1, <3>2, <3>3
  <2> HIDE DEF s, t
  <2> QED
    BY <1>2, <2>1, <2>2, <2>4, RoutesBut DEF Repeated
<1>8. CASE HandleAdmin
  <2>1. gui' = [gui EXCEPT !.holds = PutIf(gui.holds, Pane)] /\ router' = router /\ act.does = "admin"
    BY <1>8 DEF HandleAdmin, Reaches, Handling
  <2>2. act.by = NoPane /\ Pane = gui.focus
    BY <1>1, <2>1, ChordPane DEF ChordDoes
  <2>3. gui'.holds = PutIf(gui.holds, gui.focus)
    BY <1>0, <2>1, <2>2
  <2>4. gui'.holds # {} => act.on
    BY <1>0, <2>3 DEF PutIf
  <2> QED
    BY <1>2, <2>1, <2>2, <2>4, RoutesBut DEF Repeated
<1>9. CASE AdminNotShown
  <2>1. gui' = gui /\ router' = router /\ act.does = "admin" /\ act.on
    BY <1>9 DEF AdminNotShown, OnlyRouter, Reaches, Handling
  <2>2. act.by = NoPane
    BY <1>1, <2>1, ChordPane DEF ChordDoes
  <2> QED
    BY <1>2, <2>1, <2>2, RoutesBut DEF Repeated
<1>10. CASE HandleRepeat
  <2> DEFINE closes == act.does = "close" /\ act.on /\ ~Shows("none")
             s == IF closes THEN router.commands \ {act.by} ELSE PutIf(router.commands, act.by)
  <2>1. /\ router' = [router EXCEPT !.commands = s] /\ act.does \in Repeated
        /\ gui' = IF closes THEN [gui EXCEPT !.panel[Pane] = "none"] ELSE gui
    BY <1>10 DEF HandleRepeat, Reaches, Handling, Repeated
  <2>2. \A b : b \in s => (act.by = b /\ act.on) \/ (b \in router.commands /\ ~(act.by = b /\ ~act.on))
    BY DEF PutIf
  <2> HIDE DEF s, closes
  <2>3. /\ router'.commands = s /\ gui'.holds = gui.holds
        /\ router'.quills = router.quills /\ router'.throttles = router.throttles
        /\ router'.boost = router.boost /\ router'.scroll = router.scroll
    BY <1>0, <2>1
  <2> QED
    BY <1>2, <2>1, <2>2, <2>3, RoutesBut DEF Repeated
<1>11. CASE HandleGlobal \/ HandleSequence \/ HandleCatalog \/ HandleOnce
  <2>1. /\ router' = router \/ router' = [router EXCEPT !.sequence = 2]
        /\ act.does \in {"halt", "controls", "focus", "sequence", "catalog", "panel", "startup"}
    BY <1>11 DEF HandleGlobal, HandleSequence, HandleCatalog, HandleOnce, Reaches, Handling
  <2>2. gui'.holds = gui.holds
    <3>1. CASE HandleGlobal
      BY <1>0, <3>1 DEF HandleGlobal
    <3>2. CASE HandleSequence
      BY <1>0, <3>2 DEF HandleSequence
    <3>3. CASE HandleCatalog
      BY <1>0, <3>3 DEF HandleCatalog
    <3>4. CASE HandleOnce
      BY <3>4 DEF HandleOnce, OnlyRouter
    <3> QED
      BY <1>11, <3>1, <3>2, <3>3, <3>4
  <2>3. /\ router'.commands = router.commands
        /\ router'.quills = router.quills /\ router'.throttles = router.throttles
        /\ router'.boost = router.boost /\ router'.scroll = router.scroll
    BY <1>0, <2>1
  <2> QED
    BY <1>2, <2>1, <2>2, <2>3, RoutesBut DEF Repeated
<1> QED
  BY <1>3, <1>4, <1>5, <1>6, <1>7, <1>8, <1>9, <1>10, <1>11 DEF RouterHandles

\* An act is handled.
LEMMA FollowsHandles == ASSUME DeckTypes, ClearView, clear, Followed, RouterHandles PROVE Followed'
<1>0. /\ batch # <<>> /\ act \in Made /\ batch' = Tail(batch) /\ batch \in Seq(Made) /\ Head(batch) = act
      /\ UNCHANGED <<hands, sdl, held, chords, hat, reported, trouble>>
  BY HandlesIsHandling, Popped DEF providerVars, act, DeckTypes, ProviderTypes
<1>1. Routes
  BY HandlesRoute
<1>2. CommandsHeld'
  <2> SUFFICES ASSUME NEW b \in RepeatButtons
               PROVE  Silenced(batch', b \in router'.commands, OnBy(Repeated, b), OffBy(Repeated, b), b \in held')
    BY DEF CommandsHeld, OnBy, OffBy, RepeatButtons
  <2> DEFINE On == OnBy(Repeated, b)
             Offs == OffBy(Repeated, b)
             now == b \in router.commands
             now1 == b \in router'.commands
             stays == b \in held
  <2>1. Silenced(batch, now, On, Offs, stays)
    BY DEF Followed, CommandsHeld
  <2>2. now1 => act \in On \/ (now /\ act \notin Offs)
    BY <1>1 DEF Routes
  <2> HIDE DEF On, Offs, now, now1, stays
  <2>3. now1 => Head(batch) \in On \/ stays \/ (now /\ Head(batch) \notin Offs)
    BY <1>0, <2>2
  <2>4. batch # <<>> /\ batch \in Seq(Made)
    BY <1>0
  <2>5. Silenced(Tail(batch), now1, On, Offs, stays)
    BY ONLY <2>1, <2>3, <2>4, SilencedRead
  <2> QED
    BY <1>0, <2>5 DEF On, Offs, now1, stays
<1>3. ThrottlesHeld'
  <2> SUFFICES ASSUME NEW p \in DeckPanes
               PROVE  Silenced(batch', p \in router'.throttles, OnBy({"throttle"}, p), OffBy({"throttle"}, p),
                               StickOrLater(p)')
    BY DEF ThrottlesHeld, OnBy, OffBy
  <2> DEFINE On == OnBy({"throttle"}, p)
             Offs == OffBy({"throttle"}, p)
             now == p \in router.throttles
             now1 == p \in router'.throttles
             stays == StickOrLater(p)
  <2>0. StickOrLater(p)' = stays
    BY <1>0 DEF StickOrLater, Later, Centred, Gone
  <2>1. Silenced(batch, now, On, Offs, stays)
    BY DEF Followed, ThrottlesHeld
  <2>2. now1 => act \in On \/ (now /\ act \notin Offs)
    BY <1>1 DEF Routes
  <2> HIDE DEF On, Offs, now, now1, stays
  <2>3. now1 => Head(batch) \in On \/ stays \/ (now /\ Head(batch) \notin Offs)
    BY <1>0, <2>2
  <2>4. batch # <<>> /\ batch \in Seq(Made)
    BY <1>0
  <2>5. Silenced(Tail(batch), now1, On, Offs, stays)
    BY ONLY <2>1, <2>3, <2>4, SilencedRead
  <2> QED
    BY <1>0, <2>0, <2>5 DEF On, Offs, now1
<1>4. QuillsHeld'
  <2> SUFFICES ASSUME NEW p \in DeckPanes
               PROVE  Silenced(batch', p \in router'.quills, OnBy({"quill"}, p), OffBy({"quill"}, p),
                               p \in reported'.pads)
    BY DEF QuillsHeld, OnBy, OffBy
  <2> DEFINE On == OnBy({"quill"}, p)
             Offs == OffBy({"quill"}, p)
             now == p \in router.quills
             now1 == p \in router'.quills
             stays == p \in reported.pads
  <2>1. Silenced(batch, now, On, Offs, stays)
    BY DEF Followed, QuillsHeld
  <2>2. now1 => act \in On \/ (now /\ act \notin Offs)
    BY <1>1 DEF Routes
  <2> HIDE DEF On, Offs, now, now1, stays
  <2>3. now1 => Head(batch) \in On \/ stays \/ (now /\ Head(batch) \notin Offs)
    BY <1>0, <2>2
  <2>4. batch # <<>> /\ batch \in Seq(Made)
    BY <1>0
  <2>5. Silenced(Tail(batch), now1, On, Offs, stays)
    BY ONLY <2>1, <2>3, <2>4, SilencedRead
  <2> QED
    BY <1>0, <2>5 DEF On, Offs, now1, stays
<1>5. HatHeld'
  <2> SUFFICES ASSUME NEW X \in HatSets
               PROVE  Silenced(batch', Boosted(X)', DpadOn(X), DpadOff(X), hat' \in X)
    BY DEF HatHeld, DpadOn, DpadOff, HatSets
  <2> DEFINE On == DpadOn(X)
             Offs == DpadOff(X)
             now == Boosted(X)
             now1 == Boosted(X)'
             stays == hat \in X
  <2>1. Silenced(batch, now, On, Offs, stays)
    BY DEF Followed, HatHeld
  <2>2. now1 => act \in On \/ (now /\ act \notin Offs)
    BY <1>1 DEF Routes
  <2> HIDE DEF On, Offs, now, now1, stays
  <2>3. now1 => Head(batch) \in On \/ stays \/ (now /\ Head(batch) \notin Offs)
    BY <1>0, <2>2
  <2>4. batch # <<>> /\ batch \in Seq(Made)
    BY <1>0
  <2>5. Silenced(Tail(batch), now1, On, Offs, stays)
    BY ONLY <2>1, <2>3, <2>4, SilencedRead
  <2> QED
    BY <1>0, <2>5 DEF On, Offs, now1, stays
<1>6. HoldsHeld'
  <2> SUFFICES ASSUME NeverLost'
               PROVE  /\ \A i \in 1 .. Len(sdl') : sdl'[i] # Gone
                      /\ Silenced(batch', gui'.holds # {}, OnBy({"admin"}, NoPane), AdminOff, AdminChord')
    BY DEF HoldsHeld, OnBy, AdminOff, Gone
  <2>0. NeverLost /\ HoldsHeld
    BY <1>0 DEF NeverLost, Followed
  <2> DEFINE On == OnBy({"admin"}, NoPane)
             Offs == AdminOff
             now == gui.holds # {}
             now1 == gui'.holds # {}
             stays == AdminChord
  <2>1. Silenced(batch, now, On, Offs, stays) /\ \A i \in 1 .. Len(sdl) : sdl[i] # Gone
    BY <2>0 DEF HoldsHeld
  <2>2. now1 => act \in On \/ (now /\ act \notin Offs)
    BY <1>1 DEF Routes
  <2>6. AdminChord' = stays
    BY <1>0 DEF AdminChord
  <2> HIDE DEF On, Offs, now, now1, stays
  <2>3. now1 => Head(batch) \in On \/ stays \/ (now /\ Head(batch) \notin Offs)
    BY <1>0, <2>2
  <2>4. batch # <<>> /\ batch \in Seq(Made)
    BY <1>0
  <2>5. Silenced(Tail(batch), now1, On, Offs, stays)
    BY <2>1, <2>3, <2>4, SilencedRead
  <2> QED
    BY <1>0, <2>1, <2>5, <2>6 DEF On, Offs, now1
<1> QED
  BY <1>2, <1>3, <1>4, <1>5, <1>6 DEF Followed

\* Nothing is told and nothing is handled.
LEMMA FollowsStill ==
  ASSUME DeckTypes, Followed, UNCHANGED <<batch, held, chords, hat>>, reported'.pads = reported.pads,
         router'.commands = router.commands, router'.throttles = router.throttles,
         router'.quills = router.quills, router'.boost = router.boost, router'.scroll => router.scroll,
         gui'.holds = gui.holds, \A p \in DeckPanes : StickOrLater(p) => StickOrLater(p)',
         NeverLost' /\ HoldsHeld => NeverLost /\ \A i \in 1 .. Len(sdl') : sdl'[i] # Gone
  PROVE  Followed'
<1>1. CommandsHeld'
  BY DEF CommandsHeld, Followed, OnBy, OffBy, RepeatButtons, Silenced, Later
<1>2. ThrottlesHeld'
  <2> SUFFICES ASSUME NEW p \in DeckPanes
               PROVE  Silenced(batch', p \in router'.throttles, OnBy({"throttle"}, p), OffBy({"throttle"}, p),
                               StickOrLater(p)')
    BY DEF ThrottlesHeld, OnBy, OffBy
  <2>1. Silenced(batch, p \in router.throttles, OnBy({"throttle"}, p), OffBy({"throttle"}, p), StickOrLater(p))
    BY DEF Followed, ThrottlesHeld
  <2> HIDE DEF Followed
  <2>2. Silenced(batch, p \in router.throttles, OnBy({"throttle"}, p), OffBy({"throttle"}, p), StickOrLater(p)')
    BY <2>1, SilencedStill
  <2> QED
    BY <2>2
<1>3. QuillsHeld'
  BY DEF QuillsHeld, Followed, OnBy, OffBy, Silenced, Later
<1>4. HatHeld'
  <2> SUFFICES ASSUME NEW X \in HatSets
               PROVE  Silenced(batch', Boosted(X)', DpadOn(X), DpadOff(X), hat' \in X)
    BY DEF HatHeld, DpadOn, DpadOff, HatSets
  <2>1. Silenced(batch, Boosted(X), DpadOn(X), DpadOff(X), hat \in X)
    BY DEF Followed, HatHeld
  <2>2. Boosted(X)' => Boosted(X)
    BY DEF Boosted, Moved
  <2>3. Silenced(batch, Boosted(X)', DpadOn(X), DpadOff(X), hat \in X)
    BY <2>1, <2>2, SilencedStill
  <2> QED
    BY <2>3
<1>5. HoldsHeld'
  <2> SUFFICES ASSUME NeverLost'
               PROVE  /\ \A i \in 1 .. Len(sdl') : sdl'[i] # Gone
                      /\ Silenced(batch', gui'.holds # {}, OnBy({"admin"}, NoPane), AdminOff, AdminChord')
    BY DEF HoldsHeld, OnBy, AdminOff, Gone
  <2>1. NeverLost /\ \A i \in 1 .. Len(sdl') : sdl'[i] # Gone
    BY DEF Followed
  <2>2. Silenced(batch, gui.holds # {}, OnBy({"admin"}, NoPane), AdminOff, AdminChord)
    BY <2>1 DEF Followed, HoldsHeld
  <2>3. AdminChord' = AdminChord
    BY DEF AdminChord
  <2> QED
    BY <2>1, <2>2, <2>3
<1> QED
  BY <1>1, <1>2, <1>3, <1>4, <1>5 DEF Followed

LEMMA AppendLater ==
  ASSUME NEW q \in Seq(Events), NEW e \in Events, NEW Offs, Later(q, Offs, 0) \/ e \in Offs
  PROVE  Later(Append(q, e), Offs, 0)
<1> DEFINE r == <<e>>
<1>1. Append(q, e) = q \o r /\ r \in Seq(Events)
  BY Appended
<1>2. e \in Offs => Later(r, Offs, 0)
  BY SilencedOne
<1> HIDE DEF r
<1>3. 0 \in Nat /\ 0 <= Len(q)
  OBVIOUS
<1> QED
  BY <1>1, <1>2, <1>3, LaterJoin

LEMMA FollowsHands == ASSUME DeckTypes, Followed, HandsMove PROVE Followed'
<1>0. UNCHANGED <<batch, held, chords, hat, reported, router>> /\ sdl \in Seq(Events)
  BY HandsTyped DEF providerVars, DeckTypes, HandsTypes
<1>g. gui'.holds = gui.holds
  BY DEF HandsMove, MoveButton, MoveStick, MovePad, TouchScreen, MoveHat, Reconnect, DeckTypes, RouterTypes
<1>t. trouble \in [inputs : 0 .. DeckInputs, rest : 0 .. DeckTrouble] /\ DeckTrouble \in Nat
  BY DeckAssumption DEF DeckTypes, HandsTypes
<1>1. \/ sdl' = sdl /\ hands'.sticks = hands.sticks
      \/ \E e \in Events :
           /\ sdl' = Append(sdl, e)
           /\ (e # Gone /\ trouble'.rest = trouble.rest) \/ trouble'.rest = trouble.rest - 1
           /\ \A p \in DeckPanes : p \in hands.sticks =>
                p \in hands'.sticks \/ e \in Centred(p)
  <2>1. ASSUME NEW b \in DeckButtons, MoveButton(b), sdl' # sdl
        PROVE \E e \in Events :
           /\ sdl' = Append(sdl, e)
           /\ (e # Gone /\ trouble'.rest = trouble.rest)
           /\ \A p \in DeckPanes : p \in hands.sticks => p \in hands'.sticks
    <3> DEFINE on == b \notin hands.buttons
               e == <<"button", b, on>>
    <3>1. sdl' = Append(sdl, e) /\ trouble' = [trouble EXCEPT !.inputs = trouble.inputs - 1]
          /\ hands' = [hands EXCEPT !.buttons = Flip(hands.buttons, b)]
      BY <2>1 DEF MoveButton, Reports, ByHand
    <3>2. on \in BOOLEAN
      OBVIOUS
    <3>3. e \in Events
      BY <3>2, EventIs
    <3>4. e[1] = "button" /\ Gone[1] = "removed"
      BY DEF Gone
    <3> HIDE DEF e
    <3>5. e # Gone
      BY <3>4
    <3>6. trouble'.rest = trouble.rest /\ hands'.sticks = hands.sticks
      BY <1>t, <3>1 DEF DeckTypes, HandsTypes
    <3> QED
      BY <3>1, <3>3, <3>5, <3>6
  <2>2. ASSUME NEW p \in DeckPanes, MoveStick(p)
        PROVE \E e \in Events :
           /\ sdl' = Append(sdl, e)
           /\ (e # Gone /\ trouble'.rest = trouble.rest)
           /\ \A x \in DeckPanes : x \in hands.sticks => x \in hands'.sticks \/ e \in Centred(x)
    <3> DEFINE on == p \notin hands.sticks
               e == <<"axis", p, on>>
    <3>1. sdl' = Append(sdl, e) /\ trouble' = [trouble EXCEPT !.inputs = trouble.inputs - 1]
          /\ hands' = [hands EXCEPT !.sticks = Flip(hands.sticks, p)]
      BY <2>2 DEF MoveStick, Reports, ByHand
    <3>2. on \in BOOLEAN
      OBVIOUS
    <3>3. e \in Events
      BY <3>2, EventIs
    <3>4. e[1] = "axis" /\ Gone[1] = "removed" /\ e[2] = p /\ (e[3] <=> p \notin hands.sticks)
      BY DEF Gone
    <3> HIDE DEF e
    <3>5. e # Gone
      BY <3>4
    <3>6. trouble'.rest = trouble.rest /\ hands'.sticks = Flip(hands.sticks, p)
      BY <1>t, <3>1 DEF DeckTypes, HandsTypes
    <3>7. \A x \in DeckPanes : x \in hands.sticks => x \in hands'.sticks \/ e \in Centred(x)
      <4> TAKE x \in DeckPanes
      <4>1. ASSUME x = p, p \in hands.sticks PROVE e \in Centred(p)
        <5>1. e[1] = "axis" /\ e[2] = p /\ ~e[3]
          BY <3>4, <4>1
        <5> QED
          BY ZenonT(60), <3>3, <5>1, EventSets
      <4>2. CASE x # p
        BY <3>6, <4>2 DEF Flip
      <4> QED
        BY <4>1, <4>2
    <3> QED
      BY <3>1, <3>3, <3>5, <3>6, <3>7
  <2>3. ASSUME NEW h \in Hats, MoveHat(h)
        PROVE \E e \in Events :
           /\ sdl' = Append(sdl, e)
           /\ (e # Gone /\ trouble'.rest = trouble.rest)
           /\ \A x \in DeckPanes : x \in hands.sticks => x \in hands'.sticks
    <3> DEFINE e == <<"hat", h, TRUE>>
    <3>1. sdl' = Append(sdl, e) /\ trouble' = [trouble EXCEPT !.inputs = trouble.inputs - 1]
          /\ hands' = [hands EXCEPT !.hat = h]
      BY <2>3 DEF MoveHat, Reports, ByHand
    <3>3. e \in Events
      BY EventIs
    <3>4. e[1] = "hat" /\ Gone[1] = "removed"
      BY DEF Gone
    <3> HIDE DEF e
    <3>5. e # Gone
      BY <3>4
    <3>6. trouble'.rest = trouble.rest /\ hands'.sticks = hands.sticks
      BY <1>t, <3>1 DEF DeckTypes, HandsTypes
    <3> QED
      BY <3>1, <3>3, <3>5, <3>6
  <2>4. CASE Reconnect
    <3>1. /\ sdl' = Append(sdl, Gone) /\ hands' = hands
          /\ trouble' = [trouble EXCEPT !.inputs = trouble.inputs - 1, !.rest = trouble.rest - 1]
      BY <2>4 DEF Reconnect, Reports, Troubles, Gone
    <3>2. trouble'.rest = trouble.rest - 1 /\ Gone \in Events
      BY <1>t, <3>1, EventIs
    <3> QED
      BY <3>1, <3>2
  <2>5. ASSUME NEW p \in DeckPanes, MovePad(p) \/ TouchScreen(p)
        PROVE  sdl' = sdl /\ hands'.sticks = hands.sticks
    BY <2>5 DEF MovePad, TouchScreen, DeckTypes, HandsTypes
  <2>6. ASSUME NEW b \in DeckButtons, MoveButton(b), sdl' = sdl
        PROVE  hands'.sticks = hands.sticks
    BY <2>6 DEF MoveButton, DeckTypes, HandsTypes
  <2> QED
    BY <2>1, <2>2, <2>3, <2>4, <2>5, <2>6, DeckAssumption DEF HandsMove
<1>2. \A p \in DeckPanes : StickOrLater(p) => StickOrLater(p)'
  <2> SUFFICES ASSUME NEW p \in DeckPanes, StickOrLater(p) PROVE StickOrLater(p)'
    OBVIOUS
  <2>1. CASE sdl' = sdl /\ hands'.sticks = hands.sticks
    BY <2>1 DEF StickOrLater, Later, Centred, Gone
  <2>2. ASSUME NEW e \in Events, sdl' = Append(sdl, e),
               \A x \in DeckPanes : x \in hands.sticks => x \in hands'.sticks \/ e \in Centred(x)
        PROVE  StickOrLater(p)'
    <3>1. CASE p \in hands'.sticks
      BY <3>1 DEF StickOrLater
    <3>2. CASE p \notin hands'.sticks
      <4>1. Later(sdl, Centred(p), 0) \/ e \in Centred(p)
        BY <2>2, <3>2 DEF StickOrLater
      <4>2. Later(Append(sdl, e), Centred(p), 0)
        BY <1>0, <4>1, AppendLater
      <4> QED
        BY <2>2, <4>2 DEF StickOrLater, Later, Centred, Gone
    <3> QED
      BY <3>1, <3>2
  <2> QED
    BY <1>1, <2>1, <2>2
<1>3. ASSUME NeverLost', HoldsHeld PROVE NeverLost /\ \A i \in 1 .. Len(sdl') : sdl'[i] # Gone
  <2>0. trouble.rest \in 0 .. DeckTrouble /\ trouble'.rest = DeckTrouble
    BY <1>t, <1>3 DEF NeverLost
  <2>1. CASE sdl' = sdl /\ hands'.sticks = hands.sticks
    <3>1. trouble'.rest = trouble.rest \/ trouble'.rest = trouble.rest - 1
      BY <1>t DEF HandsMove, MoveButton, MoveStick, MovePad, TouchScreen, MoveHat, Reconnect, ByHand, Troubles
    <3>2. NeverLost
      BY <1>t, <2>0, <3>1 DEF NeverLost
    <3> QED
      BY <1>3, <2>1, <3>2 DEF HoldsHeld
  <2>2. ASSUME NEW e \in Events, sdl' = Append(sdl, e),
               (e # Gone /\ trouble'.rest = trouble.rest) \/ trouble'.rest = trouble.rest - 1
        PROVE  NeverLost /\ \A i \in 1 .. Len(sdl') : sdl'[i] # Gone
    <3>1. e # Gone /\ trouble'.rest = trouble.rest
      BY <1>t, <2>0, <2>2
    <3>2. NeverLost
      BY <2>0, <3>1 DEF NeverLost
    <3>3. \A i \in 1 .. Len(sdl) : sdl[i] # Gone
      BY <1>3, <3>2 DEF HoldsHeld
    <3>4. \A i \in 1 .. Len(Append(sdl, e)) : Append(sdl, e)[i] # Gone
      <4> TAKE i \in 1 .. Len(Append(sdl, e))
      <4>1. i \in 1 .. Len(sdl) \/ i = Len(sdl) + 1
        BY <1>0, Appended
      <4> QED
        BY <1>0, <3>1, <3>3, <4>1, Appended
    <3> QED
      BY <2>2, <3>2, <3>4
  <2> QED
    BY <1>1, <2>1, <2>2
<1> QED
  BY <1>0, <1>g, <1>2, <1>3, FollowsStill

LEMMA ClearStays == ASSUME DeckTypes, DeckNext, clear' PROVE clear
<1>1. clear \in BOOLEAN
  BY DEF DeckTypes, GhostTypes
<1>2. CASE HandsMove
  BY <1>2 DEF HandsMove, MoveButton, MoveStick, MovePad, TouchScreen, MoveHat, Reconnect, ghosts
<1>3. CASE PollInput
  BY <1>3, PollTyped
<1>4. CASE RouterHandles
  BY <1>4 DEF RouterHandles, HandleDisconnect, ControlsOnly, HandleThrottle, HandleQuill, HandleScrollBoost,
     HandleAdmin, AdminNotShown, HandleRepeat, HandleGlobal, HandleSequence, HandleCatalog, HandleOnce, OnlyRouter
<1>5. CASE HandleFails
  BY <1>5 DEF HandleFails
<1>6. CASE Handled \/ RouterTick
  BY <1>6 DEF Handled, RouterTick, ghosts
<1> QED
  BY NextIs, <1>2, <1>3, <1>4, <1>5, <1>6 DEF HandleAction, RouterHandles

LEMMA ClearStep == ASSUME DeckTypes, ClearView, DeckNext PROVE ClearView'
<1> SUFFICES ASSUME clear' PROVE ~gui'.controls /\ gui'.holds \subseteq {gui'.focus}
  BY DEF ClearView
<1>0. /\ clear /\ ~gui.controls /\ gui.holds \subseteq {gui.focus}
      /\ gui \in [focus : DeckPanes, controls : BOOLEAN, panel : [DeckPanes -> Panels],
                  holds : SUBSET DeckPanes]
  BY ClearStays DEF ClearView, DeckTypes, RouterTypes
<1>a. CASE gui' = gui
  BY <1>0, <1>a
<1>2. CASE HandsMove
  <2>1. ASSUME NEW p \in DeckPanes, TouchScreen(p) PROVE ~gui'.controls /\ gui'.holds \subseteq {gui'.focus}
    BY <1>0, <2>1 DEF TouchScreen
  <2> QED
    BY <1>2, <1>a, <2>1 DEF HandsMove, MoveButton, MoveStick, MovePad, MoveHat, Reconnect
<1>3. CASE PollInput
  BY <1>3, <1>a, PollTyped
<1>4. CASE RouterHandles
  <2>1. act \in Made
    BY <1>4, HandlesIsHandling, Popped
  <2>2. CASE HandleDisconnect \/ HandleThrottle \/ HandleQuill \/ HandleScrollBoost \/ AdminNotShown \/ HandleOnce
    BY <1>a, <2>2 DEF HandleDisconnect, HandleThrottle, HandleQuill, HandleScrollBoost, AdminNotShown, HandleOnce,
       OnlyRouter
  <2>3. CASE ControlsOnly
    BY <1>0, <2>3 DEF ControlsOnly
  <2>4. CASE HandleAdmin
    <3>1. gui' = [gui EXCEPT !.holds = PutIf(gui.holds, Pane)] /\ act.does = "admin"
      BY <2>4 DEF HandleAdmin, Reaches, Handling
    <3>2. Pane = gui.focus
      BY <2>1, <3>1, ChordPane DEF ChordDoes
    <3> QED
      BY <1>0, <3>1, <3>2 DEF PutIf
  <2>5. CASE HandleRepeat
    BY <1>0, <2>5 DEF HandleRepeat
  <2>6. CASE HandleGlobal
    <3>1. gui'.controls = gui.controls /\ gui'.focus = gui.focus /\ gui'.holds = gui.holds
      BY <1>0, <2>6 DEF HandleGlobal
    <3> QED
      BY <1>0, <3>1
  <2>7. CASE HandleSequence
    BY <1>0, <2>7 DEF HandleSequence
  <2>8. CASE HandleCatalog
    BY <1>0, <2>8 DEF HandleCatalog
  <2> QED
    BY <1>4, <2>2, <2>3, <2>4, <2>5, <2>6, <2>7, <2>8 DEF RouterHandles
<1>5. CASE HandleFails
  BY <1>5 DEF HandleFails
<1>6. CASE Handled \/ RouterTick
  BY <1>6, <1>a DEF Handled, RouterTick
<1> QED
  BY NextIs, <1>2, <1>3, <1>4, <1>5, <1>6 DEF HandleAction, RouterHandles

LEMMA FollowsStep ==
  ASSUME DeckTypes, AllSeen, ClearView, clear => Followed, DeckNext, clear'
  PROVE  Followed'
<1>0. clear /\ Followed
  BY ClearStays
<1>1. CASE HandsMove
  BY <1>0, <1>1, FollowsHands
<1>2. CASE PollInput
  BY <1>0, <1>2, FollowsPoll
<1>3. CASE RouterHandles
  BY <1>0, <1>3, FollowsHandles
<1>4. CASE HandleFails
  BY <1>4 DEF HandleFails
<1>5. CASE Handled \/ RouterTick
  <2>1. UNCHANGED <<batch, held, chords, hat, reported, hands, sdl, trouble, gui>>
    BY <1>5 DEF Handled, RouterTick, providerVars
  <2>2. \A p \in DeckPanes : StickOrLater(p) => StickOrLater(p)'
    BY <2>1, StickKept
  <2>3. /\ router'.commands = router.commands /\ router'.throttles = router.throttles
        /\ router'.quills = router.quills /\ router'.boost = router.boost /\ (router'.scroll => router.scroll)
    BY <1>5 DEF Handled, RouterTick, DeckTypes, RouterTypes
  <2>4. NeverLost' /\ HoldsHeld => NeverLost /\ \A i \in 1 .. Len(sdl') : sdl'[i] # Gone
    BY <2>1 DEF NeverLost, HoldsHeld
  <2> QED
    BY <1>0, <2>1, <2>2, <2>3, <2>4, FollowsStill
<1> QED
  BY NextIs, <1>1, <1>2, <1>3, <1>4, <1>5 DEF HandleAction, RouterHandles

-----------------------------------------------------------------------------
(* What is repeated is held *)

Follows ==
  /\ DeckTypes /\ PollOrder /\ ChordsHeld /\ ClearView /\ AllSeen
  /\ clear => Followed

LEMMA FollowsInit == ASSUME DeckInit PROVE Follows
<1>1. DeckTypes
  BY TypesInit
<1>2. PollOrder /\ ChordsHeld
  BY DEF DeckInit, PollOrder, ChordsHeld
<1>3. ClearView
  BY DEF DeckInit, ClearView
<1>4. sdl = <<>> /\ batch = <<>> /\ held = {} /\ hat = "neutral" /\ router = NothingHeld /\ gui.holds = {}
  BY DEF DeckInit
<1>5. 1 .. Len(sdl) = {} /\ 1 .. Len(batch) = {}
  BY <1>4
<1>6. AllSeen
  <2>1. \A b \in DeckButtons : ButtonSeen(b)
    BY <1>4, <1>5 DEF ButtonSeen, Silenced, Screened
  <2>2. \A p \in DeckPanes : StickSeen(p)
    BY <1>4, <1>5 DEF StickSeen, Silenced
  <2>3. \A X \in HatSets : HatSeenIn(X)
    BY <1>4, <1>5, HatSetsMoved DEF HatSeenIn, Silenced
  <2> QED
    BY <2>1, <2>2, <2>3 DEF AllSeen
<1>7. Followed
  <2>1. /\ router.commands = {} /\ router.throttles = {} /\ router.quills = {}
        /\ router.boost = "neutral" /\ ~router.scroll
    BY <1>4 DEF NothingHeld
  <2>2. CommandsHeld
    BY <1>4, <1>5, <2>1 DEF Silenced, CommandsHeld
  <2>3. ThrottlesHeld
    BY <1>4, <1>5, <2>1 DEF Silenced, ThrottlesHeld
  <2>4. QuillsHeld
    BY <1>4, <1>5, <2>1 DEF Silenced, QuillsHeld
  <2>5. HatHeld
    BY <1>4, <1>5, <2>1, HatSetsMoved DEF Silenced, HatHeld, Boosted
  <2>6. HoldsHeld
    BY <1>4, <1>5 DEF HoldsHeld, Silenced
  <2> QED
    BY <2>2, <2>3, <2>4, <2>5, <2>6 DEF Followed
<1> QED
  BY <1>1, <1>2, <1>3, <1>6, <1>7 DEF Follows

LEMMA FollowsNext == ASSUME Follows, DeckNext PROVE Follows'
<1>1. clear' => Followed'
  BY FollowsStep DEF Follows
<1> QED
  BY <1>1, TypesStep, OrderStep, ChordsStep, ClearStep, SeenStep DEF Follows

LEMMA FollowsImply == ASSUME Follows PROVE RepeatsAreHeld
<1> SUFFICES ASSUME Seen, clear
             PROVE  /\ router.commands \subseteq hands.buttons /\ router.throttles \subseteq hands.sticks
                    /\ router.quills \subseteq hands.pads /\ router.boost \in {"neutral", hands.hat}
                    /\ router.scroll => hands.hat # "neutral"
                    /\ gui.holds # {} /\ NeverLost =>
                         \E c \in DeckChords : c.does = "admin" /\ c.buttons \subseteq hands.buttons
  BY DEF RepeatsAreHeld
<1>0. /\ sdl = <<>> /\ batch = <<>> /\ reported.pads = hands.pads /\ reported.buttons = hands.buttons \cap Paddles
      /\ Followed
  BY DEF Seen, Follows, PollOrder
<1>1. 1 .. Len(sdl) = {} /\ 1 .. Len(batch) = {}
  BY <1>0
<1>2. \A Offs : ~Later(sdl, Offs, 0) /\ ~Later(batch, Offs, 0)
  BY <1>1 DEF Later
<1>3. held \subseteq hands.buttons
  <2>1. ASSUME NEW b \in DeckButtons, b \in held PROVE b \in hands.buttons
    <3>1. ButtonSeen(b)
      BY DEF Follows, AllSeen
    <3>2. CASE Screened(b)
      BY <1>0, <2>1, <3>1, <3>2 DEF ButtonSeen
    <3>3. CASE ~Screened(b)
      <4>1. Silenced(sdl, b \in held, {<<"button", b, TRUE>>}, LetGo(b), b \in hands.buttons)
        BY <3>1, <3>3 DEF ButtonSeen
      <4> QED
        BY <1>2, <2>1, <4>1 DEF Silenced
    <3> QED
      BY <3>2, <3>3
  <2> QED
    BY <2>1 DEF Follows, DeckTypes, ProviderTypes
<1>4. router.commands \subseteq hands.buttons
  <2>1. ASSUME NEW b \in RepeatButtons, b \in router.commands PROVE b \in held
    BY <1>0, <1>2, <2>1 DEF Followed, Silenced, CommandsHeld
  <2> QED
    BY <1>3, <2>1 DEF Follows, DeckTypes, RouterTypes
<1>5. router.throttles \subseteq hands.sticks
  <2>1. ASSUME NEW p \in DeckPanes, p \in router.throttles PROVE p \in hands.sticks
    <3>1. StickOrLater(p)
      BY <1>0, <1>2, <2>1 DEF Followed, Silenced, ThrottlesHeld
    <3> QED
      BY <1>2, <3>1 DEF StickOrLater
  <2> QED
    BY <2>1 DEF Follows, DeckTypes, RouterTypes
<1>6. router.quills \subseteq hands.pads
  <2>1. ASSUME NEW p \in DeckPanes, p \in router.quills PROVE p \in hands.pads
    BY <1>0, <1>2, <2>1 DEF Followed, Silenced, QuillsHeld
  <2> QED
    BY <2>1 DEF Follows, DeckTypes, RouterTypes
<1>7. ASSUME NEW X \in HatSets, Boosted(X) PROVE hands.hat \in X
  <2>1. hat \in X
    BY <1>0, <1>2, <1>7 DEF Followed, Silenced, HatHeld
  <2>2. Silenced(sdl, hat \in X, HatOn(X), HatOff(X), hands.hat \in X)
    BY DEF Follows, AllSeen, HatSeenIn
  <2> QED
    BY <1>2, <2>1, <2>2 DEF Silenced
<1>8. router.boost \in {"neutral", hands.hat}
  <2>1. router.boost \in Hats
    BY DEF Follows, DeckTypes, RouterTypes
  <2>2. ASSUME NEW x \in {"up", "down"}, router.boost = x PROVE hands.hat = x
    <3>1. {x} \in HatSets /\ Boosted({x})
      BY <2>2 DEF HatSets, Boosted
    <3> QED
      BY <1>7, <3>1
  <2> QED
    BY <2>1, <2>2 DEF Hats
<1>9. router.scroll => hands.hat # "neutral"
  <2>1. Moved \in HatSets /\ (router.scroll => Boosted(Moved))
    BY DEF HatSets, Boosted
  <2> QED
    BY <1>7, <2>1 DEF Moved
<1>10. ASSUME gui.holds # {}, NeverLost
       PROVE  \E c \in DeckChords : c.does = "admin" /\ c.buttons \subseteq hands.buttons
  <2>1. AdminChord
    BY <1>0, <1>2, <1>10 DEF Followed, Silenced, HoldsHeld
  <2>2. PICK c \in chords : c.does = "admin"
    BY <2>1 DEF AdminChord
  <2>3. c \in DeckChords /\ c.buttons \subseteq held
    BY DEF Follows, DeckTypes, ProviderTypes, ChordsHeld
  <2> QED
    BY <1>3, <2>2, <2>3
<1> QED
  BY <1>4, <1>5, <1>6, <1>8, <1>9, <1>10

-----------------------------------------------------------------------------
(* Each press counts once *)

PressOf(b) == <<"button", b, TRUE>>
LiftOf(b) == <<"button", b, FALSE>>
EventOf(b) == {PressOf(b), LiftOf(b)}

\* What q still tells of b, which is in B once it is read: d has the places i such that b is
\* down when i events have been read, and n[i] is how many presses are read after that.
Traced(q, B, b, d, n) ==
  /\ n \in [0 .. Len(q) -> Int] /\ n[Len(q)] = 0 /\ (Len(q) \in d <=> b \in B)
  /\ \A i \in 1 .. Len(q) :
       /\ q[i] = PressOf(b) => i \in d /\ i - 1 \notin d /\ n[i - 1] = n[i] + 1
       /\ q[i] = LiftOf(b) => i \notin d /\ i - 1 \in d /\ n[i - 1] = n[i]
       /\ q[i] \notin EventOf(b) => (i \in d <=> i - 1 \in d) /\ n[i - 1] = n[i]
  /\ \A k \in 0 .. Len(q) : Later(q, EventOf(b), k) \/ (k \in d <=> Len(q) \in d)

\* The reports have been read as far as the events, or the paddle's report is ahead of them.
Level(b, d, n) == (0 \in d <=> b \in held) /\ owed[b] = n[0]
Ahead(b, d, n) ==
  /\ ~(0 \in d <=> b \in held) /\ owed[b] = IF b \in held THEN n[0] - 1 ELSE n[0]
  /\ pc \notin {"poll", "tick"} /\ (pc = "paddles" => (b \in reported.buttons <=> b \in hands.buttons))
  /\ Later(sdl, EventOf(b), 0)
Tally(b) ==
  \E d, n : Traced(sdl, hands.buttons, b, d, n) /\ (Level(b, d, n) \/ Ahead(b, d, n))
Tallied == SdlPaddles /\ NeverLost => \A b \in DeckButtons : Tally(b)

LEMMA PressLift ==
  ASSUME NEW b \in DeckButtons
  PROVE  /\ PressOf(b) # LiftOf(b) /\ EventOf(b) = {PressOf(b), LiftOf(b)}
         /\ PressOf(b) \in Events /\ LiftOf(b) \in Events /\ Gone \notin EventOf(b)
         /\ \A e \in Events : /\ e = PressOf(b) <=> e[1] = "button" /\ e[2] = b /\ e[3]
                              /\ e = LiftOf(b) <=> e[1] = "button" /\ e[2] = b /\ ~e[3]
<1>1. /\ PressOf(b)[3] = TRUE /\ LiftOf(b)[3] = FALSE /\ PressOf(b)[1] = "button" /\ LiftOf(b)[1] = "button"
      /\ PressOf(b)[2] = b /\ LiftOf(b)[2] = b /\ Gone[1] = "removed"
  BY DEF PressOf, LiftOf, Gone
<1>2. PressOf(b) # LiftOf(b)
  BY <1>1
<1>3. PressOf(b) \in Events /\ LiftOf(b) \in Events
  BY EventIs DEF PressOf, LiftOf
<1>4. Gone \notin EventOf(b)
  BY <1>1 DEF EventOf
<1>5. ASSUME NEW e \in Events
      PROVE  /\ e = PressOf(b) <=> e[1] = "button" /\ e[2] = b /\ e[3]
             /\ e = LiftOf(b) <=> e[1] = "button" /\ e[2] = b /\ ~e[3]
  <2>1. e = <<e[1], e[2], e[3]>> /\ e[3] \in BOOLEAN
    BY EventIs
  <2>2. ASSUME e[1] = "button", e[2] = b, e[3] PROVE e = PressOf(b)
    <3>1. e[3] = TRUE
      BY <2>1, <2>2
    <3> QED
      BY <2>1, <2>2, <3>1 DEF PressOf
  <2>3. ASSUME e[1] = "button", e[2] = b, ~e[3] PROVE e = LiftOf(b)
    <3>1. e[3] = FALSE
      BY <2>1, <2>3
    <3> QED
      BY <2>1, <2>3, <3>1 DEF LiftOf
  <2> QED
    BY <1>1, <2>2, <2>3
<1> QED
  BY <1>2, <1>3, <1>4, <1>5 DEF EventOf

\* What a report of e makes of the buttons B.
Reporting(e, b, B, B1) ==
  \/ e = PressOf(b) /\ b \notin B /\ b \in B1
  \/ e = LiftOf(b) /\ b \in B /\ b \notin B1
  \/ e \notin EventOf(b) /\ (b \in B <=> b \in B1)

LEMMA TraceAppend ==
  ASSUME NEW q \in Seq(Events), NEW e \in Events, NEW b \in DeckButtons, NEW B, NEW B1, NEW d, NEW n,
         Traced(q, B, b, d, n), Reporting(e, b, B, B1)
  PROVE  \E d1, n1 : /\ Traced(Append(q, e), B1, b, d1, n1) /\ (0 \in d1 <=> 0 \in d)
                     /\ n1[0] = n[0] + (IF e = PressOf(b) THEN 1 ELSE 0)
<1> DEFINE m == Len(q)
           w == IF e = PressOf(b) THEN 1 ELSE 0
           d1 == {i \in d : i <= m} \cup (IF b \in B1 THEN {m + 1} ELSE {})
           n1 == [i \in 0 .. m + 1 |-> IF i = m + 1 THEN 0 ELSE n[i] + w]
           r == Append(q, e)
<1>1. /\ Len(r) = m + 1 /\ r[m + 1] = e /\ m \in Nat /\ \A i \in 1 .. m : r[i] = q[i]
      /\ w \in Int /\ r = q \o <<e>> /\ <<e>> \in Seq(Events)
  BY Appended
<1>2. /\ n \in [0 .. m -> Int] /\ n[m] = 0 /\ (m \in d <=> b \in B)
      /\ \A i \in 1 .. m :
           /\ q[i] = PressOf(b) => i \in d /\ i - 1 \notin d /\ n[i - 1] = n[i] + 1
           /\ q[i] = LiftOf(b) => i \notin d /\ i - 1 \in d /\ n[i - 1] = n[i]
           /\ q[i] \notin EventOf(b) => (i \in d <=> i - 1 \in d) /\ n[i - 1] = n[i]
      /\ \A k \in 0 .. m : Later(q, EventOf(b), k) \/ (k \in d <=> m \in d)
  BY DEF Traced
<1>3. /\ n1 \in [0 .. m + 1 -> Int] /\ n1[m + 1] = 0 /\ \A i \in 0 .. m : n1[i] = n[i] + w
      /\ m + 1 \in d1 <=> b \in B1
      /\ \A i \in 0 .. m : i \in d1 <=> i \in d
  BY <1>1, <1>2
<1>4. \A S : e \in S => Later(<<e>>, S, 0)
  BY SilencedOne
<1>5. /\ e = PressOf(b) => w = 1
      /\ e # PressOf(b) => w = 0
  OBVIOUS
<1> HIDE DEF r, d1, n1, w
<1>6. ASSUME NEW i \in 1 .. m + 1
      PROVE  /\ r[i] = PressOf(b) => i \in d1 /\ i - 1 \notin d1 /\ n1[i - 1] = n1[i] + 1
             /\ r[i] = LiftOf(b) => i \notin d1 /\ i - 1 \in d1 /\ n1[i - 1] = n1[i]
             /\ r[i] \notin EventOf(b) => (i \in d1 <=> i - 1 \in d1) /\ n1[i - 1] = n1[i]
  <2>1. CASE i = m + 1
    <3>1. r[i] = e /\ i - 1 = m /\ m \in 0 .. m /\ n1[i] = 0 /\ n1[m] = w
      BY SMTT(60), <1>1, <1>2, <1>3, <2>1
    <3> QED
      BY <1>2, <1>3, <1>5, <2>1, <3>1, PressLift DEF Reporting
  <2>2. CASE i # m + 1
    <3>1. i \in 1 .. m /\ i - 1 \in 0 .. m /\ i \in 0 .. m /\ r[i] = q[i]
      BY <1>1, <2>2
    <3>2. n[i] \in Int /\ n[i - 1] \in Int /\ n1[i] = n[i] + w /\ n1[i - 1] = n[i - 1] + w
      BY <1>2, <1>3, <3>1
    <3>3. (i \in d1 <=> i \in d) /\ (i - 1 \in d1 <=> i - 1 \in d)
      BY <1>3, <3>1
    <3> QED
      BY <1>1, <1>2, <3>1, <3>2, <3>3
  <2> QED
    BY <2>1, <2>2
<1>7. ASSUME NEW k \in 0 .. m + 1
      PROVE  Later(r, EventOf(b), k) \/ (k \in d1 <=> m + 1 \in d1)
  <2>1. CASE k = m + 1
    BY <2>1
  <2>2. CASE k # m + 1 /\ e \in EventOf(b)
    <3>1. k \in Nat /\ k <= Len(q)
      BY <1>1, <2>2
    <3> QED
      BY <1>1, <1>4, <2>2, <3>1, LaterJoin
  <2>3. CASE k # m + 1 /\ e \notin EventOf(b)
    <3>1. k \in 0 .. m /\ k \in Nat
      BY <1>1, <2>3
    <3>2. CASE Later(q, EventOf(b), k)
      BY <1>1, <3>1, <3>2, LaterJoin
    <3>3. CASE k \in d <=> m \in d
      BY <1>2, <1>3, <2>3, <3>1, <3>3 DEF Reporting, EventOf
    <3> QED
      BY <1>2, <3>1, <3>2, <3>3
  <2> QED
    BY <2>1, <2>2, <2>3
<1>8. Traced(r, B1, b, d1, n1)
  BY <1>1, <1>3, <1>6, <1>7 DEF Traced
<1>9. (0 \in d1 <=> 0 \in d) /\ n1[0] = n[0] + w
  BY <1>1, <1>3
<1> QED
  BY <1>8, <1>9 DEF r, w

LEMMA TraceTail ==
  ASSUME NEW q \in Seq(Events), q # <<>>, NEW b \in DeckButtons, NEW B, NEW d, NEW n, Traced(q, B, b, d, n)
  PROVE  \E d1, n1 : Traced(Tail(q), B, b, d1, n1) /\ (0 \in d1 <=> 1 \in d) /\ n1[0] = n[1]
<1> DEFINE m == Len(q) - 1
           d1 == {i \in 0 .. m : i + 1 \in d}
           n1 == [i \in 0 .. m |-> n[i + 1]]
           r == Tail(q)
<1>1. /\ Len(r) = m /\ m \in Nat /\ \A i \in 1 .. m : r[i] = q[i + 1] /\ i + 1 \in 1 .. Len(q)
      /\ Len(q) = m + 1 /\ r \in Seq(Events)
  BY TailIs
<1>2. /\ n \in [0 .. m + 1 -> Int] /\ n[m + 1] = 0 /\ (m + 1 \in d <=> b \in B)
      /\ \A i \in 1 .. m + 1 :
           /\ q[i] = PressOf(b) => i \in d /\ i - 1 \notin d /\ n[i - 1] = n[i] + 1
           /\ q[i] = LiftOf(b) => i \notin d /\ i - 1 \in d /\ n[i - 1] = n[i]
           /\ q[i] \notin EventOf(b) => (i \in d <=> i - 1 \in d) /\ n[i - 1] = n[i]
      /\ \A k \in 0 .. m + 1 : Later(q, EventOf(b), k) \/ (k \in d <=> m + 1 \in d)
  BY <1>1 DEF Traced
<1>3. n1 \in [0 .. m -> Int] /\ \A i \in 0 .. m : n1[i] = n[i + 1] /\ (i \in d1 <=> i + 1 \in d)
  BY <1>1, <1>2
<1> HIDE DEF r, d1, n1, m
<1>6. ASSUME NEW i \in 1 .. m
      PROVE  /\ r[i] = PressOf(b) => i \in d1 /\ i - 1 \notin d1 /\ n1[i - 1] = n1[i] + 1
             /\ r[i] = LiftOf(b) => i \notin d1 /\ i - 1 \in d1 /\ n1[i - 1] = n1[i]
             /\ r[i] \notin EventOf(b) => (i \in d1 <=> i - 1 \in d1) /\ n1[i - 1] = n1[i]
  <2>1. /\ i + 1 \in 1 .. m + 1 /\ r[i] = q[i + 1] /\ (i + 1) - 1 = i /\ (i - 1) + 1 = i
        /\ i \in 0 .. m /\ i - 1 \in 0 .. m
    BY <1>1
  <2>2. /\ n1[i] = n[i + 1] /\ (i \in d1 <=> i + 1 \in d)
        /\ n1[i - 1] = n[i] /\ (i - 1 \in d1 <=> i \in d)
    BY <1>3, <2>1
  <2>3. /\ q[i + 1] = PressOf(b) => i + 1 \in d /\ i \notin d /\ n[i] = n[i + 1] + 1
        /\ q[i + 1] = LiftOf(b) => i + 1 \notin d /\ i \in d /\ n[i] = n[i + 1]
        /\ q[i + 1] \notin EventOf(b) => (i + 1 \in d <=> i \in d) /\ n[i] = n[i + 1]
    BY <1>2, <2>1
  <2> QED
    BY <2>1, <2>2, <2>3
<1>7. ASSUME NEW k \in 0 .. m
      PROVE  Later(r, EventOf(b), k) \/ (k \in d1 <=> m \in d1)
  <2>1. k + 1 \in 0 .. m + 1 /\ m \in 0 .. m /\ k \in 0 .. Len(q) - 1
    BY <1>1
  <2>2. CASE Later(q, EventOf(b), k + 1)
    BY <2>1, <2>2, LaterTail DEF r
  <2> QED
    BY <1>2, <1>3, <2>1, <2>2
<1>8. m \in d1 <=> b \in B
  BY <1>1, <1>2, <1>3
<1>9. n1[m] = 0 /\ (0 \in d1 <=> 1 \in d) /\ n1[0] = n[1]
  BY <1>1, <1>2, <1>3
<1>10. Traced(r, B, b, d1, n1)
  BY <1>1, <1>3, <1>6, <1>7, <1>8, <1>9 DEF Traced
<1> QED
  BY <1>9, <1>10 DEF r

\* What the hands do is told in full, but for a controller that goes.
HandsTold(b) ==
  \/ sdl' = sdl /\ (b \in hands'.buttons <=> b \in hands.buttons) /\ owed'[b] = owed[b]
  \/ \E e \in Events : /\ e # Gone /\ sdl' = Append(sdl, e) /\ Reporting(e, b, hands.buttons, hands'.buttons)
                       /\ owed'[b] = owed[b] + (IF e = PressOf(b) THEN 1 ELSE 0)

HandsTellAll ==
  /\ sdl' = sdl \/ \E e \in Events : e # Gone /\ sdl' = Append(sdl, e)
  /\ \A b \in DeckButtons : HandsTold(b)

LEMMA HandsTell ==
  ASSUME DeckTypes, SdlPaddles, HandsMove
  PROVE  \/ trouble'.rest = trouble.rest - 1
         \/ trouble'.rest = trouble.rest /\ HandsTellAll
<1>0. /\ hands \in [buttons : SUBSET DeckButtons, sticks : SUBSET DeckPanes, pads : SUBSET DeckPanes, hat : Hats]
      /\ sdl \in Seq(Events) /\ AnalogPanes \subseteq DeckPanes /\ owed \in [DeckButtons -> Int]
      /\ trouble \in [inputs : 0 .. DeckInputs, rest : 0 .. DeckTrouble]
  BY DeckAssumption DEF DeckTypes, HandsTypes, GhostTypes
<1>1. ASSUME NEW x \in DeckButtons, MoveButton(x)
      PROVE  trouble'.rest = trouble.rest /\ HandsTellAll
  <2> DEFINE on == x \notin hands.buttons
             e == <<"button", x, on>>
  <2>1. /\ hands' = [hands EXCEPT !.buttons = Flip(hands.buttons, x)] /\ sdl' = Append(sdl, e)
        /\ owed' = IF x \in hands.buttons THEN owed ELSE [owed EXCEPT ![x] = owed[x] + 1]
        /\ trouble' = [trouble EXCEPT !.inputs = trouble.inputs - 1]
    BY <1>1 DEF MoveButton, Reports, ByHand
  <2>2. on \in BOOLEAN
    OBVIOUS
  <2>3. e \in Events
    BY <2>2, EventIs
  <2>4. e[1] = "button" /\ e[2] = x /\ (e[3] <=> x \notin hands.buttons) /\ Gone[1] = "removed"
    BY DEF Gone
  <2> HIDE DEF e, on
  <2>5. e # Gone
    BY <2>4
  <2>6. /\ trouble'.rest = trouble.rest
        /\ \A b \in DeckButtons : b # x => (b \in hands'.buttons <=> b \in hands.buttons)
        /\ x \in hands'.buttons <=> x \notin hands.buttons
    BY <1>0, <2>1 DEF Flip
  <2>7. ASSUME NEW b \in DeckButtons PROVE HandsTold(b)
    <3>1. /\ e = PressOf(b) <=> e[1] = "button" /\ e[2] = b /\ e[3]
          /\ e = LiftOf(b) <=> e[1] = "button" /\ e[2] = b /\ ~e[3]
          /\ e \in EventOf(b) <=> e = PressOf(b) \/ e = LiftOf(b)
      BY <2>3, PressLift DEF EventOf
    <3>2. Reporting(e, b, hands.buttons, hands'.buttons)
      BY <2>4, <2>6, <3>1 DEF Reporting
    <3>3. owed'[b] = owed[b] + (IF e = PressOf(b) THEN 1 ELSE 0)
      BY <1>0, <2>1, <2>4, <3>1
    <3> QED
      BY <2>1, <2>3, <2>5, <3>2, <3>3 DEF HandsTold
  <2> QED
    BY <2>1, <2>3, <2>5, <2>6, <2>7 DEF HandsTellAll
<1>2. ASSUME NEW e \in Events, e[1] \in {"axis", "hat"}, sdl' = Append(sdl, e), hands'.buttons = hands.buttons,
             owed' = owed
      PROVE  HandsTellAll
  <2>1. e # Gone
    <3>1. Gone[1] = "removed"
      BY DEF Gone
    <3> QED
      BY <1>2, <3>1
  <2>2. ASSUME NEW b \in DeckButtons PROVE HandsTold(b)
    <3>1. e # PressOf(b) /\ e # LiftOf(b)
      BY <1>2, PressLift
    <3>2. e \notin EventOf(b)
      BY <3>1 DEF EventOf
    <3>3. Reporting(e, b, hands.buttons, hands'.buttons)
      BY <1>2, <3>2 DEF Reporting
    <3>4. owed'[b] = owed[b] + (IF e = PressOf(b) THEN 1 ELSE 0)
      BY <1>0, <1>2, <3>1
    <3> QED
      BY <1>2, <2>1, <3>3, <3>4 DEF HandsTold
  <2> QED
    BY <1>2, <2>1, <2>2 DEF HandsTellAll
<1>3. ASSUME NEW p \in DeckPanes, MoveStick(p)
      PROVE  trouble'.rest = trouble.rest /\ HandsTellAll
  <2> DEFINE on == p \notin hands.sticks
             e == <<"axis", p, on>>
  <2>1. /\ hands' = [hands EXCEPT !.sticks = Flip(hands.sticks, p)] /\ sdl' = Append(sdl, e) /\ owed' = owed
        /\ trouble' = [trouble EXCEPT !.inputs = trouble.inputs - 1]
    BY <1>3 DEF MoveStick, Reports, ByHand, ghosts
  <2>2. on \in BOOLEAN
    OBVIOUS
  <2>3. e \in Events
    BY <2>2, EventIs
  <2>4. e[1] \in {"axis", "hat"}
    OBVIOUS
  <2> HIDE DEF e, on
  <2>5. trouble'.rest = trouble.rest /\ hands'.buttons = hands.buttons
    BY <1>0, <2>1
  <2> QED
    BY <1>2, <2>1, <2>3, <2>4, <2>5
<1>4. ASSUME NEW h \in Hats, MoveHat(h)
      PROVE  trouble'.rest = trouble.rest /\ HandsTellAll
  <2> DEFINE e == <<"hat", h, TRUE>>
  <2>1. /\ hands' = [hands EXCEPT !.hat = h] /\ sdl' = Append(sdl, e) /\ owed' = owed
        /\ trouble' = [trouble EXCEPT !.inputs = trouble.inputs - 1]
    BY <1>4 DEF MoveHat, Reports, ByHand, ghosts
  <2>3. e \in Events
    BY EventIs
  <2>4. e[1] \in {"axis", "hat"}
    OBVIOUS
  <2> HIDE DEF e
  <2>5. trouble'.rest = trouble.rest /\ hands'.buttons = hands.buttons
    BY <1>0, <2>1
  <2> QED
    BY <1>2, <2>1, <2>3, <2>4, <2>5
<1>5. ASSUME NEW p \in DeckPanes, MovePad(p) \/ TouchScreen(p)
      PROVE  trouble'.rest = trouble.rest /\ HandsTellAll
  <2>1. hands'.buttons = hands.buttons /\ sdl' = sdl /\ owed' = owed /\ trouble'.rest = trouble.rest
    BY <1>0, <1>5 DEF MovePad, TouchScreen, ByHand, ghosts
  <2> QED
    BY <2>1 DEF HandsTellAll, HandsTold
<1>6. CASE Reconnect
  <2>1. trouble' = [trouble EXCEPT !.inputs = trouble.inputs - 1, !.rest = trouble.rest - 1]
    BY <1>6 DEF Reconnect, Troubles
  <2> QED
    BY <1>0, <2>1
<1> QED
  BY <1>0, <1>1, <1>3, <1>4, <1>5, <1>6 DEF HandsMove


NoneGone == SdlPaddles /\ NeverLost => \A i \in 1 .. Len(sdl) : sdl[i] # Gone

LEMMA LostStep ==
  ASSUME DeckTypes, DeckNext
  PROVE  trouble'.rest \in Int /\ trouble'.rest <= trouble.rest /\ (NeverLost' => NeverLost)
<1>0. /\ trouble \in [inputs : 0 .. DeckInputs, rest : 0 .. DeckTrouble] /\ DeckTrouble \in Nat
      /\ trouble' \in [inputs : 0 .. DeckInputs, rest : 0 .. DeckTrouble]
  BY TypesStep, DeckAssumption DEF DeckTypes, HandsTypes
<1>1. trouble'.rest = trouble.rest \/ trouble'.rest = trouble.rest - 1
  <2>1. CASE HandsMove
    BY <1>0, <2>1 DEF HandsMove, MoveButton, MoveStick, MovePad, TouchScreen, MoveHat, Reconnect, ByHand, Troubles
  <2>2. CASE PollInput
    <3>1. trouble' = trouble
      BY <2>2, PollTyped
    <3> QED
      BY <3>1
  <2>3. CASE RouterHandles
    <3>1. trouble' = trouble
      BY <2>3, HandlesIsHandling DEF Handling
    <3> QED
      BY <3>1
  <2>4. CASE HandleFails
    BY <1>0, <2>4 DEF HandleFails, Troubles
  <2>5. CASE Handled \/ RouterTick
    BY <2>5 DEF Handled, RouterTick
  <2> QED
    BY NextIs, <2>1, <2>2, <2>3, <2>4, <2>5 DEF HandleAction, RouterHandles
<1>2. trouble.rest \in 0 .. DeckTrouble /\ trouble'.rest \in 0 .. DeckTrouble
  BY <1>0
<1> QED
  BY <1>0, <1>1, <1>2 DEF NeverLost

LEMMA GoneStep == ASSUME DeckTypes, NoneGone, DeckNext PROVE NoneGone'
<1> SUFFICES ASSUME SdlPaddles, NeverLost'
             PROVE  \A i \in 1 .. Len(sdl') : sdl'[i] # Gone
  BY DEF NoneGone
<1>0. /\ sdl \in Seq(Events) /\ trouble \in [inputs : 0 .. DeckInputs, rest : 0 .. DeckTrouble] /\ DeckTrouble \in Nat
  BY DeckAssumption DEF DeckTypes, HandsTypes
<1>1. \A i \in 1 .. Len(sdl) : sdl[i] # Gone
  BY LostStep DEF NoneGone
<1>2. CASE HandsMove
  <2>1. trouble'.rest # trouble.rest - 1
    BY <1>0 DEF NeverLost
  <2>2. sdl' = sdl \/ \E e \in Events : e # Gone /\ sdl' = Append(sdl, e)
    BY <1>2, <2>1, HandsTell DEF HandsTellAll
  <2>3. ASSUME NEW e \in Events, e # Gone, sdl' = Append(sdl, e), NEW i \in 1 .. Len(sdl')
        PROVE  sdl'[i] # Gone
    <3>1. /\ Len(sdl') = Len(sdl) + 1 /\ sdl'[Len(sdl) + 1] = e /\ Len(sdl) \in Nat
          /\ \A k \in 1 .. Len(sdl) : sdl'[k] = sdl[k]
      BY <1>0, <2>3, Appended
    <3>2. i = Len(sdl) + 1 \/ i \in 1 .. Len(sdl)
      BY <3>1
    <3> QED
      BY <1>1, <2>3, <3>1, <3>2
  <2> QED
    BY <1>1, <2>2, <2>3
<1>3. CASE sdl' = sdl
  BY <1>1, <1>3
<1>4. CASE sdl # <<>> /\ sdl' = Tail(sdl)
  <2>1. Len(sdl') = Len(sdl) - 1 /\ \A i \in 1 .. Len(sdl) - 1 : sdl'[i] = sdl[i + 1] /\ i + 1 \in 1 .. Len(sdl)
    BY <1>0, <1>4, TailIs
  <2> QED
    BY <1>1, <2>1
<1>5. CASE PollInput
  <2>1. sdl' = sdl \/ (sdl # <<>> /\ sdl' = Tail(sdl))
    BY <1>5 DEF PollInput, PollDeck, PaddleEdge, PadActions, TakeSdl, DecodeButton, DecodeAxis, DecodeHat,
         DecodeRemoved, Event
  <2> QED
    BY <1>3, <1>4, <2>1
<1>6. CASE HandleAction \/ RouterTick
  BY <1>3, <1>6, RouterTyped
<1> QED
  BY NextIs, <1>2, <1>5, <1>6

LEMMA EdgeOwed ==
  ASSUME DeckTypes, NEW b \in DeckButtons, NEW on \in BOOLEAN, ButtonActions(b, on)
  PROVE  /\ \A x \in DeckButtons : x # b => owed'[x] = owed[x]
         /\ owed'[b] = IF on /\ b \notin held THEN owed[b] - 1 ELSE owed[b]
<1>0. owed \in [DeckButtons -> Int]
  BY DEF DeckTypes, GhostTypes
<1>1. CASE SameEdge(b, on)
  BY <1>1 DEF ButtonActions, SameEdge
<1>2. CASE ~SameEdge(b, on) /\ on
  <2>1. owed' = [owed EXCEPT ![b] = owed[b] - 1]
    BY <1>2 DEF ButtonActions, ButtonDown
  <2> QED
    BY <1>0, <1>2, <2>1 DEF SameEdge
<1>3. CASE ~SameEdge(b, on) /\ ~on
  <2>1. owed' = owed
    BY <1>3 DEF ButtonActions, ButtonUp
  <2> QED
    BY <1>3, <2>1
<1> QED
  BY <1>1, <1>2, <1>3

LEMMA TallyHands ==
  ASSUME DeckTypes, NEW b \in DeckButtons, Tally(b), HandsTold(b), UNCHANGED <<pc, held, reported>>, pc \in {"poll", "sdl"}
  PROVE  Tally(b)'
<1>0. sdl \in Seq(Events) /\ owed \in [DeckButtons -> Int]
  BY DEF DeckTypes, HandsTypes, GhostTypes
<1>1. PICK d, n : Traced(sdl, hands.buttons, b, d, n) /\ (Level(b, d, n) \/ Ahead(b, d, n))
  BY DEF Tally
<1>2. n[0] \in Int /\ owed[b] \in Int
  <2>1. Len(sdl) \in Nat /\ n \in [0 .. Len(sdl) -> Int]
    BY <1>0, <1>1 DEF Traced
  <2> QED
    BY <1>0, <2>1
<1>3. CASE sdl' = sdl /\ (b \in hands'.buttons <=> b \in hands.buttons) /\ owed'[b] = owed[b]
  <2>1. Traced(sdl, hands'.buttons, b, d, n)
    BY <1>1, <1>3 DEF Traced
  <2>2. (Level(b, d, n) \/ Ahead(b, d, n))'
    BY <1>1, <1>3 DEF Level, Ahead, EventOf, PressOf, LiftOf
  <2> QED
    BY <1>3, <2>1, <2>2 DEF Tally
<1>4. ASSUME NEW e \in Events, sdl' = Append(sdl, e), Reporting(e, b, hands.buttons, hands'.buttons),
             owed'[b] = owed[b] + (IF e = PressOf(b) THEN 1 ELSE 0)
      PROVE  Tally(b)'
  <2>1. PICK d1, n1 : /\ Traced(Append(sdl, e), hands'.buttons, b, d1, n1) /\ (0 \in d1 <=> 0 \in d)
                      /\ n1[0] = n[0] + (IF e = PressOf(b) THEN 1 ELSE 0)
    BY <1>0, <1>1, <1>4, TraceAppend
  <2> DEFINE w == IF e = PressOf(b) THEN 1 ELSE 0
  <2>2. w \in Int /\ n1[0] = n[0] + w /\ owed'[b] = owed[b] + w
    BY <1>4, <2>1
  <2> HIDE DEF w
  <2>3. CASE Level(b, d, n)
    <3>1. Level(b, d1, n1)'
      BY <1>2, <2>1, <2>2, <2>3 DEF Level
    <3> QED
      BY <1>4, <2>1, <3>1 DEF Tally
  <2>4. CASE Ahead(b, d, n)
    <3>1. Later(sdl, EventOf(b), 0)
      BY <2>4 DEF Ahead
    <3>2. Later(Append(sdl, e), EventOf(b), 0)
      BY <1>0, <3>1, AppendLater
    <3>3. Later(sdl', EventOf(b), 0)
      BY <1>4, <3>2
    <3>4. owed'[b] = IF b \in held' THEN n1[0] - 1 ELSE n1[0]
      BY <1>2, <2>2, <2>4 DEF Ahead
    <3>5. ~(0 \in d1 <=> b \in held')
      BY <2>1, <2>4 DEF Ahead
    <3>6. pc' \notin {"poll", "tick", "paddles"}
      BY <2>4 DEF Ahead
    <3>7. Ahead(b, d1, n1)'
      BY <3>3, <3>4, <3>5, <3>6 DEF Ahead, EventOf, PressOf, LiftOf
    <3> QED
      BY <1>4, <2>1, <3>7 DEF Tally
  <2> QED
    BY <1>1, <2>3, <2>4
<1> QED
  BY <1>3, <1>4 DEF HandsTold

\* A step that is none of b's.
LEMMA TallyStill ==
  ASSUME DeckTypes, NEW b \in DeckButtons, Tally(b), sdl' = sdl, hands' = hands, owed'[b] = owed[b],
         b \in held' <=> b \in held,
         pc' \in {"poll", "tick"} => pc \in {"poll", "tick"} \/ sdl = <<>>,
         pc' = "paddles" => pc = "poll" \/ (pc = "paddles" /\ (b \in reported'.buttons <=> b \in reported.buttons))
  PROVE  Tally(b)'
<1>1. PICK d, n : Traced(sdl, hands.buttons, b, d, n) /\ (Level(b, d, n) \/ Ahead(b, d, n))
  BY DEF Tally
<1>2. CASE Level(b, d, n)
  <2>1. Level(b, d, n)'
    BY <1>2 DEF Level
  <2> QED
    BY <1>1, <2>1 DEF Tally
<1>3. CASE Ahead(b, d, n)
  <2>1. sdl # <<>>
    <3>1. 1 .. Len(sdl) # {}
      BY <1>3 DEF Ahead, Later
    <3> QED
      BY <3>1
  <2>2. Ahead(b, d, n)'
    BY <1>3, <2>1 DEF Ahead, Later, EventOf, PressOf, LiftOf
  <2> QED
    BY <1>1, <2>2 DEF Tally
<1> QED
  BY <1>1, <1>2, <1>3

\* An event of another kind, or of another button.
LEMMA TallyRead ==
  ASSUME DeckTypes, NEW b \in DeckButtons, Tally(b), pc = "decode", sdl # <<>>, sdl' = Tail(sdl),
         Head(sdl) \notin EventOf(b), UNCHANGED <<hands, pc>>, owed'[b] = owed[b], b \in held' <=> b \in held
  PROVE  Tally(b)'
<1>0. sdl \in Seq(Events)
  BY DEF DeckTypes, HandsTypes
<1>1. PICK d, n : Traced(sdl, hands.buttons, b, d, n) /\ (Level(b, d, n) \/ Ahead(b, d, n))
  BY DEF Tally
<1>2. PICK d1, n1 : Traced(Tail(sdl), hands.buttons, b, d1, n1) /\ (0 \in d1 <=> 1 \in d) /\ n1[0] = n[1]
  BY <1>0, <1>1, TraceTail
<1>3. Head(sdl) = sdl[1] /\ 1 \in 1 .. Len(sdl) /\ 1 - 1 = 0
  BY <1>0, TailIs
<1>4. (1 \in d <=> 0 \in d) /\ n[0] = n[1]
  BY <1>1, <1>3 DEF Traced
<1>5. CASE Level(b, d, n)
  <2>1. Level(b, d1, n1)'
    BY <1>2, <1>4, <1>5 DEF Level
  <2> QED
    BY <1>2, <2>1 DEF Tally
<1>6. CASE Ahead(b, d, n)
  <2>1. Later(Tail(sdl), EventOf(b), 0)
    BY <1>0, <1>6, LaterRead DEF Ahead
  <2>2. Later(sdl', EventOf(b), 0)
    BY <2>1
  <2>3. Ahead(b, d1, n1)'
    BY <1>2, <1>4, <1>6, <2>2 DEF Ahead, EventOf, PressOf, LiftOf
  <2> QED
    BY <1>2, <2>3 DEF Tally
<1> QED
  BY <1>1, <1>5, <1>6

\* An event of the button: the reports are read as far as the events again.
LEMMA TallyEvent ==
  ASSUME DeckTypes, NEW b \in DeckButtons, Tally(b), sdl # <<>>, sdl' = Tail(sdl), hands' = hands,
         NEW on \in BOOLEAN, on => Head(sdl) = PressOf(b), ~on => Head(sdl) = LiftOf(b), ButtonActions(b, on)
  PROVE  Tally(b)'
<1>0. sdl \in Seq(Events) /\ owed \in [DeckButtons -> Int]
  BY DEF DeckTypes, HandsTypes, GhostTypes
<1>1. PICK d, n : Traced(sdl, hands.buttons, b, d, n) /\ (Level(b, d, n) \/ Ahead(b, d, n))
  BY DEF Tally
<1>2. PICK d1, n1 : Traced(Tail(sdl), hands.buttons, b, d1, n1) /\ (0 \in d1 <=> 1 \in d) /\ n1[0] = n[1]
  BY <1>0, <1>1, TraceTail
<1>3. Head(sdl) = sdl[1] /\ 1 \in 1 .. Len(sdl) /\ 1 - 1 = 0 /\ Len(sdl) \in Nat
  BY <1>0, TailIs
<1>4. /\ on => 1 \in d /\ 0 \notin d /\ n[0] = n[1] + 1
      /\ ~on => 1 \notin d /\ 0 \in d /\ n[0] = n[1]
  BY <1>1, <1>3 DEF Traced
<1>5. n[0] \in Int /\ n[1] \in Int /\ owed[b] \in Int
  <2>1. n \in [0 .. Len(sdl) -> Int]
    BY <1>1 DEF Traced
  <2> QED
    BY <1>0, <1>3, <2>1
<1>6. (b \in held' <=> on) /\ owed'[b] = IF on /\ b \notin held THEN owed[b] - 1 ELSE owed[b]
  BY EdgeHeld, EdgeOwed
<1>7. owed'[b] = n1[0]
  BY <1>1, <1>2, <1>4, <1>5, <1>6 DEF Level, Ahead
<1>8. Level(b, d1, n1)'
  BY <1>2, <1>4, <1>6, <1>7 DEF Level
<1> QED
  BY <1>2, <1>8 DEF Tally

\* The paddle's report comes first, or tells what the event told.
LEMMA TallyPaddle ==
  ASSUME DeckTypes, NEW b \in DeckButtons, Tally(b), PaddleEdge(b)
  PROVE  Tally(b)'
<1> DEFINE on == b \in hands.buttons
<1>0. sdl \in Seq(Events) /\ owed \in [DeckButtons -> Int]
  BY DEF DeckTypes, HandsTypes, GhostTypes
<1>1. /\ pc = "paddles" /\ pc' = pc /\ (b \in reported.buttons) # (b \in hands.buttons) /\ ButtonActions(b, on)
      /\ reported' = [reported EXCEPT !.buttons = Flip(reported.buttons, b)] /\ UNCHANGED <<sdl, hands>>
  BY DEF PaddleEdge, Provider
<1>2. PICK d, n : Traced(sdl, hands.buttons, b, d, n) /\ (Level(b, d, n) \/ Ahead(b, d, n))
  BY DEF Tally
<1>3. (0 \in d <=> b \in held) /\ owed[b] = n[0]
  BY <1>1, <1>2 DEF Level, Ahead
<1>4. on \in BOOLEAN /\ (on <=> b \in hands.buttons)
  OBVIOUS
<1> HIDE DEF on
<1>5. (b \in held' <=> on) /\ owed'[b] = IF on /\ b \notin held THEN owed[b] - 1 ELSE owed[b]
  BY <1>1, <1>4, EdgeHeld, EdgeOwed
<1>6. Len(sdl) \in Nat /\ 0 \in 0 .. Len(sdl)
  BY <1>0
<1>7. (Len(sdl) \in d <=> on) /\ (Later(sdl, EventOf(b), 0) \/ (0 \in d <=> Len(sdl) \in d))
  BY <1>2, <1>4, <1>6 DEF Traced
<1>8. CASE on <=> b \in held
  <2>1. Level(b, d, n)'
    BY <1>3, <1>5, <1>8 DEF Level
  <2> QED
    BY <1>1, <1>2, <2>1 DEF Tally
<1>9. CASE ~(on <=> b \in held)
  <2>1. b \in reported'.buttons <=> b \in hands.buttons
    BY <1>1 DEF Flip, DeckTypes, ProviderTypes
  <2>2. Later(sdl, EventOf(b), 0)
    BY <1>3, <1>7, <1>9
  <2>3. owed'[b] = IF b \in held' THEN n[0] - 1 ELSE n[0]
    BY <1>3, <1>5, <1>9
  <2>4. ~(0 \in d <=> b \in held')
    BY <1>3, <1>5, <1>9
  <2>5. Ahead(b, d, n)'
    BY <1>1, <2>1, <2>2, <2>3, <2>4 DEF Ahead, Later, EventOf, PressOf, LiftOf
  <2> QED
    BY <1>1, <1>2, <2>5 DEF Tally
<1> QED
  BY <1>8, <1>9

LEMMA TallyStep == ASSUME DeckTypes, PollOrder, NoneGone, Tallied, DeckNext PROVE Tallied'
<1> SUFFICES ASSUME SdlPaddles, NeverLost', NEW b \in DeckButtons
             PROVE  Tally(b)'
  BY DEF Tallied
<1>0. /\ sdl \in Seq(Events) /\ trouble \in [inputs : 0 .. DeckInputs, rest : 0 .. DeckTrouble]
      /\ DeckTrouble \in Nat /\ NeverLost /\ Tally(b)
  BY DeckAssumption, LostStep DEF DeckTypes, HandsTypes, Tallied
<1>1. CASE HandsMove
  <2>1. trouble'.rest # trouble.rest - 1
    BY <1>0 DEF NeverLost
  <2>2. HandsTold(b)
    BY <1>1, <2>1, HandsTell DEF HandsTellAll
  <2>3. UNCHANGED <<pc, held, reported>> /\ pc \in {"poll", "sdl"}
    BY <1>1, HandsTyped DEF providerVars
  <2> QED
    BY <1>0, <2>2, <2>3, TallyHands
<1>2. CASE PollDeck \/ PadActions \/ TakeSdl
  <2>1. /\ UNCHANGED <<hands, sdl, held, owed>> /\ pc' \notin {"poll", "tick"}
        /\ pc' = "paddles" => pc = "poll"
    BY <1>2 DEF PollDeck, PadActions, TakeSdl, Then, Provider, providerVars, ghosts
  <2> QED
    BY <1>0, <2>1, TallyStill
<1>3. ASSUME NEW x \in Paddles, PaddleEdge(x) PROVE Tally(b)'
  <2>1. CASE x = b
    BY <1>0, <1>3, <2>1, TallyPaddle
  <2>2. CASE x # b
    <3> DEFINE on == x \in hands.buttons
    <3>1. /\ pc = "paddles" /\ pc' = pc /\ ButtonActions(x, on) /\ UNCHANGED <<sdl, hands>>
          /\ reported' = [reported EXCEPT !.buttons = Flip(reported.buttons, x)]
      BY <1>3 DEF PaddleEdge, Provider
    <3>2. on \in BOOLEAN /\ x \in DeckButtons
      BY Profile
    <3> HIDE DEF on
    <3>3. (b \in held' <=> b \in held) /\ owed'[b] = owed[b]
      BY <2>2, <3>1, <3>2, EdgeHeld, EdgeOwed
    <3>4. b \in reported'.buttons <=> b \in reported.buttons
      BY <2>2, <3>1 DEF Flip, DeckTypes, ProviderTypes
    <3> QED
      BY <1>0, <3>1, <3>3, <3>4, TallyStill
  <2> QED
    BY <2>1, <2>2
<1> DEFINE e == Head(sdl)
<1>4. CASE DecodeButton
  <2> DEFINE x == e[2]
             on == e[3]
  <2>1. /\ pc = "decode" /\ pc' = pc /\ sdl # <<>> /\ e[1] = "button" /\ ButtonActions(x, on) /\ hands' = hands
        /\ sdl' = Tail(sdl)
    BY <1>4 DEF DecodeButton, Event, Provider
  <2>2. e \in Events
    BY <1>0, <2>1, TailIs
  <2>3. x \in DeckButtons /\ on \in BOOLEAN
    BY <2>1, <2>2, EventIs
  <2> HIDE DEF x, on
  <2>4. e[2] = x /\ e[3] = on
    BY DEF x, on
  <2>5. e = Head(sdl)
    OBVIOUS
  <2> HIDE DEF e
  <2>6. CASE x = b
    <3>1. (on => e = PressOf(b)) /\ (~on => e = LiftOf(b))
      BY <2>1, <2>2, <2>4, <2>6, PressLift
    <3> QED
      BY <1>0, <2>1, <2>3, <2>5, <2>6, <3>1, TallyEvent
  <2>7. CASE x # b
    <3>1. e # PressOf(b) /\ e # LiftOf(b)
      BY <2>2, <2>4, <2>7, PressLift
    <3>2. e \notin EventOf(b)
      BY <3>1 DEF EventOf
    <3>3. (b \in held' <=> b \in held) /\ owed'[b] = owed[b]
      BY <2>1, <2>3, <2>7, EdgeHeld, EdgeOwed
    <3> QED
      BY <1>0, <2>1, <2>5, <3>2, <3>3, TallyRead
  <2> QED
    BY <2>6, <2>7
<1>5. CASE DecodeAxis \/ DecodeHat
  <2>1. /\ pc = "decode" /\ pc' = pc /\ sdl # <<>> /\ e[1] # "button" /\ UNCHANGED <<hands, held, owed>>
        /\ sdl' = Tail(sdl)
    BY <1>5 DEF DecodeAxis, DecodeHat, Event, Provider, ghosts
  <2>2. e \in Events
    BY <1>0, <2>1, TailIs
  <2>3. e = Head(sdl)
    OBVIOUS
  <2> HIDE DEF e
  <2>4. e # PressOf(b) /\ e # LiftOf(b)
    BY <2>1, <2>2, PressLift
  <2>5. e \notin EventOf(b)
    BY <2>4 DEF EventOf
  <2> QED
    BY <1>0, <2>1, <2>3, <2>5, TallyRead
<1>6. CASE DecodeRemoved
  <2>1. sdl # <<>> /\ e[1] = "removed"
    BY <1>6 DEF DecodeRemoved, Event
  <2>2. e \in Events /\ e = sdl[1] /\ 1 \in 1 .. Len(sdl)
    BY <1>0, <2>1, TailIs
  <2>3. e = Gone
    BY <2>1, <2>2, EventIs
  <2> QED
    BY <1>0, <2>2, <2>3 DEF NoneGone
<1>7. CASE HandleAction \/ RouterTick
  <2>1. UNCHANGED <<hands, sdl, providerVars>>
    BY <1>7, RouterTyped
  <2>2. owed' = owed
    <3>1. CASE RouterHandles
      BY <3>1, HandlesIsHandling DEF Handling
    <3>2. CASE HandleFails \/ Handled \/ RouterTick
      BY <3>2 DEF HandleFails, Handled, RouterTick, ghosts
    <3> QED
      BY <1>7, <3>1, <3>2 DEF HandleAction, RouterHandles
  <2>3. (pc' \in {"poll", "tick"} => pc \in {"poll", "tick"} \/ sdl = <<>>) /\ pc' # "paddles"
    <3>1. CASE RouterHandles
      <4>1. pc' = pc /\ pc = "decode"
        BY <3>1, HandlesIsHandling, Popped
      <4> QED
        BY <4>1
    <3>2. CASE HandleFails \/ Handled \/ RouterTick
      BY <3>2 DEF HandleFails, Handled, RouterTick, Decoded, Then
    <3> QED
      BY <1>7, <3>1, <3>2 DEF HandleAction, RouterHandles
  <2> QED
    BY <1>0, <2>1, <2>2, <2>3, TallyStill DEF providerVars
<1> QED
  BY NextIs, <1>1, <1>2, <1>3, <1>4, <1>5, <1>6, <1>7 DEF PollInput

LEMMA TallyInit == ASSUME DeckInit PROVE NoneGone /\ Tallied
<1>1. sdl = <<>> /\ hands.buttons = {} /\ held = {} /\ owed = [b \in DeckButtons |-> 0]
  BY DEF DeckInit
<1>2. Len(sdl) = 0 /\ 1 .. Len(sdl) = {} /\ 0 .. Len(sdl) = {0}
  BY <1>1
<1>3. NoneGone
  BY <1>2 DEF NoneGone
<1>4. ASSUME NEW b \in DeckButtons PROVE Tally(b)
  <2> DEFINE d == {}
             n == [i \in 0 .. Len(sdl) |-> 0]
  <2>1. n \in [0 .. Len(sdl) -> Int] /\ n[0] = 0
    BY <1>2
  <2> HIDE DEF n
  <2>2. Traced(sdl, hands.buttons, b, d, n)
    BY <1>1, <1>2, <2>1 DEF Traced
  <2>3. Level(b, d, n)
    BY <1>1, <2>1 DEF Level
  <2> QED
    BY <2>2, <2>3 DEF Tally
<1> QED
  BY <1>3, <1>4 DEF Tallied

LEMMA TallyImplies == ASSUME Tallied PROVE EachPressCountsOnce
<1> SUFFICES ASSUME Seen, SdlPaddles, NeverLost, NEW b \in DeckButtons PROVE owed[b] = 0
  BY DEF EachPressCountsOnce
<1>1. sdl = <<>> /\ pc = "poll"
  BY DEF Seen
<1>2. Len(sdl) = 0
  BY <1>1
<1>3. PICK d, n : Traced(sdl, hands.buttons, b, d, n) /\ (Level(b, d, n) \/ Ahead(b, d, n))
  BY DEF Tallied, Tally
<1>4. owed[b] = n[0]
  BY <1>1, <1>3 DEF Level, Ahead
<1>5. n[0] = 0
  BY <1>2, <1>3 DEF Traced
<1> QED
  BY <1>4, <1>5

\* For any profile, and whatever hands, touch screen and disconnections do between the polls:
\* what is repeated has its control held once the poll has caught up (SteamDeckInputRouter),
\* and a paddle that SDL and the Deck's reports both show is pressed once (_button_actions).
THEOREM DeckIsSafe == DeckSpec => []DeckSafety
<1> DEFINE Inv == Follows /\ NoneGone /\ Tallied
<1>1. DeckInit => Inv
  BY FollowsInit, TallyInit
<1>2. Inv /\ [DeckNext]_deckVars => Inv'
  <2>1. ASSUME Inv, DeckNext PROVE Inv'
    <3>1. DeckTypes /\ PollOrder
      BY <2>1 DEF Follows
    <3> QED
      BY <2>1, <3>1, FollowsNext, GoneStep, TallyStep
  <2>2. ASSUME Inv, UNCHANGED deckVars PROVE Inv'
    <3>1. UNCHANGED << hands, sdl, pc, reported, held, chords, hat, batch, router, gui, trouble, clear, owed >>
      BY <2>2 DEF deckVars, providerVars
    <3>2. DeckTypes'
      BY <2>2, TypesStutter DEF Follows
    <3>3. (PollOrder /\ ChordsHeld /\ ClearView)'
      BY <2>2, <3>1 DEF Follows, PollOrder, ChordsHeld, ClearView
    <3>4. AllSeen'
      BY <2>2, <3>1 DEF Follows, AllSeen, ButtonSeen, Screened, StickSeen, HatSeenIn, Silenced, Later, LetGo, Centred,
         HatOn, HatOff, Gone
    <3>5. (clear => Followed)'
      <4>1. ASSUME clear PROVE Followed'
        <5>1. DeckTypes /\ Followed
          BY <2>2, <4>1 DEF Follows
        <5>2. \A p \in DeckPanes : StickOrLater(p) => StickOrLater(p)'
          BY <3>1 DEF StickOrLater, Later, Centred, Gone
        <5>3. NeverLost' /\ HoldsHeld => NeverLost /\ \A i \in 1 .. Len(sdl') : sdl'[i] # Gone
          BY <3>1 DEF NeverLost, HoldsHeld
        <5> QED
          BY <3>1, <5>1, <5>2, <5>3, FollowsStill
      <4> QED
        BY <3>1, <4>1
    <3>6. NoneGone'
      BY <2>2, <3>1 DEF NoneGone, NeverLost, Gone
    <3>7. Tallied'
      <4>1. DeckTypes /\ owed' = owed
        BY <2>2, <3>1 DEF Follows
      <4>2. ASSUME SdlPaddles, NeverLost, NEW b \in DeckButtons PROVE Tally(b)'
        <5>1. Tally(b)
          BY <2>2, <4>2 DEF Tallied
        <5> QED
          BY <3>1, <4>1, <5>1, TallyStill
      <4> QED
        BY <3>1, <4>2 DEF Tallied, NeverLost
    <3> QED
      BY <3>2, <3>3, <3>4, <3>5, <3>6, <3>7 DEF Follows
  <2> QED
    BY <2>1, <2>2
<1>3. Inv => DeckSafety
  BY FollowsImply, TallyImplies DEF DeckSafety
<1> QED
  BY <1>1, <1>2, <1>3, PTL DEF DeckSpec

=============================================================================
