------------------------------ MODULE HoldButton ------------------------------
\* The press-and-hold button of the touch screens
\* (src/pytrain/gui/components/hold_button.py).  The button's state is one
\* record; a handler maps the record to the record it leaves, and names in
\* "fired" the callback it has called.  Beside the button there are a finger on a
\* touch screen whose event stream may drop and regain the contact, a controller
\* chord that starts and cancels holds, and the host that disables the button.
\* Time is discrete; no tick passes a timer that is due.

EXTENDS Integers

CONSTANTS
    HoldThreshold,   \* hold_threshold
    RecoveryWindow,  \* press_recovery_ms; 0 disables the recovery
    LeaveConfirm,    \* LEAVE_CONFIRM_MS
    RestartResume,   \* RESTART_RESUME_MS
    Debounce,        \* debounce_ms
    RepeatEvery,     \* repeat_interval
    HoldCallbacks,   \* the sets of callbacks a button may have
    HoldTouches,     \* bound: touches and chords
    HoldTricks       \* bound: jitters of the stream, acts of the host

ASSUME HoldAssumption ==
    /\ {HoldThreshold, LeaveConfirm, RepeatEvery} \subseteq Nat \ {0}
    /\ {RecoveryWindow, RestartResume, Debounce, HoldTouches, HoldTricks} \subseteq Nat
    /\ HoldCallbacks \subseteq (SUBSET {"press", "hold", "repeat"}) \ {{}}

Off == -1        \* a timer that is not running, a time that is None
Ignored == 3     \* a disabled button has ignored a press while a release waited
Late == HoldThreshold + 1                 \* times are not told apart beyond this
Older(t) == IF t \in {Off, Late} THEN t ELSE t + 1
Sooner(t) == IF t = Off THEN Off ELSE t - 1

VARIABLES
    button,    \* the HoldButton
    finger,    \* "up", "on" the button or "out" of it, still touching
    contact,   \* the event stream has the finger's contact
    chord,     \* the controller's chord is held
    touched,   \* ticks that the finger has been on the button, in contact
    clean,     \* nothing but jitter has disturbed this touch, which inherits nothing
    answers,   \* callbacks since the last press taken as a new one (2: or more), or Ignored
    touchesLeft,
    tricksLeft

holdVars == <<button, finger, contact, chord, touched, clean, answers, touchesLeft, tricksLeft>>

Buttons ==
    [callbacks : HoldCallbacks, enabled : BOOLEAN, pressed : BOOLEAN, held : BOOLEAN,
     handled : BOOLEAN, repeating : BOOLEAN, after : Off .. HoldThreshold + RepeatEvery,
     run : Off .. Late, bank : 0 .. Late, releasePending : BOOLEAN,
     releaseIn : Off .. RecoveryWindow, leavePending : BOOLEAN, leaveIn : Off .. LeaveConfirm,
     lost : 0 .. Late, lostAge : Off .. Late, overlay : BOOLEAN,
     fired : {"press", "hold", "repeat", "none"}]
HoldTypeOK ==
    /\ button \in Buttons
    /\ finger \in {"up", "on", "out"} /\ contact \in BOOLEAN /\ chord \in BOOLEAN
    /\ touched \in 0 .. Late /\ clean \in BOOLEAN /\ answers \in 0 .. Ignored
    /\ touchesLeft \in 0 .. HoldTouches /\ tricksLeft \in 0 .. HoldTricks

-----------------------------------------------------------------------------
\* The handlers.
Fire(b, callback) == [b EXCEPT !.fired = IF callback \in b.callbacks THEN callback ELSE "none"]
Elapsed(b) ==
    LET sum == b.bank + (IF b.run = Off THEN 0 ELSE b.run)
    IN IF sum > Late THEN Late ELSE sum
GiveUp(b) == [b EXCEPT !.pressed = FALSE, !.repeating = FALSE, !.after = Off, !.overlay = FALSE]
NoLeave(b) == [b EXCEPT !.leavePending = FALSE, !.leaveIn = Off]
NoteAbandoned(b) ==
    IF RecoveryWindow > 0 /\ "hold" \in b.callbacks /\ ~b.handled
    THEN [b EXCEPT !.lost = Elapsed(b), !.lostAge = 0] ELSE b
\* A press soon after an abandoned hold inherits its time, not its countdown.
Inherit(b) ==
    IF b.lostAge = Off THEN b
    ELSE [b EXCEPT !.lostAge = Off, !.lost = 0,
                   !.bank = IF b.lostAge <= RestartResume THEN b.lost ELSE @]

\* Mutant: a hold that is carried on counts from the start.
MutResume(b) == [NoLeave(b) EXCEPT !.releaseIn = Off, !.releasePending = FALSE,
                                   !.pressed = TRUE, !.run = 0, !.after = HoldThreshold]
Resume(b) == [NoLeave(b) EXCEPT !.releaseIn = Off, !.releasePending = FALSE, !.pressed = TRUE,
                                !.run = 0, !.after = HoldThreshold - b.bank]
Press(b) ==
    IF ~b.enabled THEN GiveUp(b)
    ELSE IF b.releasePending THEN Resume(b)
    ELSE Inherit([NoLeave(b) EXCEPT !.pressed = TRUE, !.bank = 0, !.run = 0, !.held = FALSE,
                                    !.repeating = FALSE, !.handled = FALSE,
                                    !.overlay = TRUE, !.after = HoldThreshold])

DeferredRelease(b) ==
    /\ RecoveryWindow > 0 /\ b.pressed /\ "hold" \in b.callbacks
    /\ ~b.handled /\ Elapsed(b) < HoldThreshold
\* Mutant: the countdown goes on while the release waits to be confirmed.
MutDefer(b) == [b EXCEPT !.bank = Elapsed(b), !.run = Off, !.releasePending = TRUE,
                         !.releaseIn = RecoveryWindow]
Defer(b) == [b EXCEPT !.bank = Elapsed(b), !.run = Off, !.releasePending = TRUE,
                      !.after = Off, !.releaseIn = RecoveryWindow]
DoRelease(b) ==
    LET n == NoteAbandoned(b)
        up == [GiveUp(n) EXCEPT !.repeating = b.repeating /\ b.enabled]
    IN IF ~b.enabled THEN up
       ELSE IF Elapsed(b) < Debounce THEN [up EXCEPT !.bank = 0]
       ELSE IF b.repeating THEN [up EXCEPT !.bank = 0, !.repeating = FALSE]
       ELSE IF ~(b.held /\ b.handled) THEN Fire([up EXCEPT !.bank = 0], "press")
       ELSE [up EXCEPT !.bank = 0]
Release(b) == IF DeferredRelease(b) THEN Defer(b) ELSE DoRelease(b)
ConfirmRelease(b) ==
    LET due == [b EXCEPT !.releaseIn = Off]
    IN IF b.releasePending THEN DoRelease([due EXCEPT !.releasePending = FALSE]) ELSE due

\* cancel_hold, and a confirmed leave.
Cancel(b) ==
    [NoLeave(GiveUp(NoteAbandoned(b))) EXCEPT !.releasePending = FALSE, !.releaseIn = Off,
                                              !.bank = 0]
LeaveEvent(b) == IF b.pressed THEN [b EXCEPT !.leavePending = TRUE, !.leaveIn = LeaveConfirm] ELSE b
\* Enter and motion events carry the state of the contact.
Contact(b) == IF b.releasePending THEN Resume(b) ELSE b
Enter(b) == Contact(NoLeave(b))
ConfirmLeave(b, outside) ==
    IF b.leavePending /\ b.pressed
    THEN (IF outside THEN Cancel(b) ELSE NoLeave(b))
    ELSE [b EXCEPT !.leaveIn = Off]
CancelInteraction(b) == [GiveUp(b) EXCEPT !.held = TRUE, !.handled = TRUE, !.run = Off]

Trigger(b) ==
    LET t == [b EXCEPT !.held = TRUE, !.handled = TRUE, !.after = Off]
    IN IF ~b.enabled THEN GiveUp(b)
       ELSE IF "repeat" \in b.callbacks
       THEN Fire([t EXCEPT !.repeating = TRUE, !.after = RepeatEvery], "repeat")
       ELSE Fire(t, IF "hold" \in b.callbacks THEN "hold" ELSE "press")
RepeatFire(b) ==
    IF ~b.enabled THEN GiveUp(b) ELSE Fire([b EXCEPT !.after = RepeatEvery], "repeat")
HoldTimeout(b) == IF b.repeating THEN RepeatFire(b) ELSE Trigger(b)

-----------------------------------------------------------------------------
HoldInit ==
    /\ button \in [callbacks : HoldCallbacks, enabled : {TRUE}, pressed : {FALSE},
                   held : {FALSE}, handled : {FALSE}, repeating : {FALSE}, after : {Off},
                   run : {Off}, bank : {0}, releasePending : {FALSE}, releaseIn : {Off},
                   leavePending : {FALSE}, leaveIn : {Off}, lost : {0}, lostAge : {Off},
                   overlay : {FALSE}, fired : {"none"}]
    /\ finger = "up" /\ contact = FALSE /\ chord = FALSE
    /\ touched = 0 /\ clean = TRUE /\ answers = 0
    /\ touchesLeft = HoldTouches /\ tricksLeft = HoldTricks

\* The button handles an event; a press that is not a resumption is a new one.
HoldAnswers(b) == IF b.fired \in {"press", "hold"} /\ answers < 2 THEN answers + 1 ELSE answers
Handle(b) == button' = b /\ answers' = HoldAnswers(b)
HandlePress ==
    /\ button' = Press([button EXCEPT !.fired = "none"])
    /\ answers' = IF ~button.releasePending THEN 0
                  ELSE IF button.enabled THEN answers ELSE Ignored
Quietly == [button EXCEPT !.fired = "none"]
Untouched == UNCHANGED <<finger, contact, chord, touched, clean, touchesLeft, tricksLeft>>

FingerDown ==
    /\ finger = "up" /\ touchesLeft > 0
    /\ finger' = "on" /\ contact' = TRUE /\ touchesLeft' = touchesLeft - 1
    /\ HandlePress
    /\ IF button.releasePending
       THEN UNCHANGED <<touched, clean>>
       ELSE touched' = 0 /\ clean' = (button.enabled /\ ~chord /\ button.lostAge = Off)
    /\ UNCHANGED <<chord, tricksLeft>>

\* The release is delivered to the button wherever the finger is lifted.
FingerUp ==
    /\ finger # "up"
    /\ finger' = "up" /\ contact' = FALSE
    /\ Handle(IF contact THEN Release(Quietly) ELSE Quietly)
    /\ UNCHANGED <<chord, touched, clean, touchesLeft, tricksLeft>>

SlideOut ==
    /\ finger = "on" /\ finger' = "out" /\ clean' = FALSE
    /\ Handle(LeaveEvent(Quietly))
    /\ UNCHANGED <<contact, chord, touched, touchesLeft, tricksLeft>>

SlideBack ==
    /\ finger = "out" /\ finger' = "on"
    /\ Handle(IF contact THEN Enter(Quietly) ELSE NoLeave(Quietly))
    /\ UNCHANGED <<contact, chord, touched, clean, touchesLeft, tricksLeft>>

\* The stream drops the contact of a finger that stays, and finds it again with a
\* press, or with a motion that shows it; or it reports a leave that was none.
ContactLost ==
    /\ finger = "on" /\ contact /\ RecoveryWindow > 0 /\ tricksLeft > 0
    /\ contact' = FALSE /\ tricksLeft' = tricksLeft - 1
    /\ clean' = (clean /\ (DeferredRelease(button) \/ ~button.pressed))
    /\ Handle(Release(Quietly))
    /\ UNCHANGED <<finger, chord, touched, touchesLeft>>

ContactFound ==
    /\ finger = "on" /\ ~contact /\ contact' = TRUE
    /\ \/ HandlePress
       \/ button.releasePending /\ Handle(Contact(Quietly))
    /\ clean' = (clean /\ button.releasePending)
    /\ UNCHANGED <<finger, chord, touched, touchesLeft, tricksLeft>>

FalseLeave ==
    /\ finger = "on" /\ tricksLeft > 0 /\ tricksLeft' = tricksLeft - 1
    /\ Handle(LeaveEvent(Quietly))
    /\ UNCHANGED <<finger, contact, chord, touched, clean, touchesLeft>>

ChordDown ==
    /\ ~chord /\ touchesLeft > 0 /\ chord' = TRUE /\ touchesLeft' = touchesLeft - 1
    /\ HandlePress /\ clean' = FALSE
    /\ UNCHANGED <<finger, contact, touched, tricksLeft>>

ChordUp ==
    /\ chord /\ chord' = FALSE /\ Handle(Cancel(Quietly)) /\ clean' = FALSE
    /\ UNCHANGED <<finger, contact, touched, touchesLeft, tricksLeft>>

HostActs ==
    /\ tricksLeft > 0 /\ tricksLeft' = tricksLeft - 1 /\ clean' = FALSE
    /\ \/ Handle([Quietly EXCEPT !.enabled = ~@])
       \/ Handle(CancelInteraction(Quietly))
    /\ UNCHANGED <<finger, contact, chord, touched, touchesLeft>>

Expire ==
    /\ \/ button.after = 0 /\ Handle(HoldTimeout(Quietly))
       \/ button.releaseIn = 0 /\ Handle(ConfirmRelease(Quietly))
       \/ button.leaveIn = 0 /\ Handle(ConfirmLeave(Quietly, finger # "on"))
    /\ Untouched

\* _progress_tick: a bar that still fills notices that the button is disabled.
BarNotices == button.overlay /\ ~button.enabled /\ Elapsed(button) < HoldThreshold
ProgressTick == BarNotices /\ Handle(GiveUp(Quietly)) /\ Untouched

\* A lost contact is found before the window is over.
HoldTick ==
    /\ 0 \notin {button.after, button.releaseIn, button.leaveIn} /\ ~BarNotices
    /\ finger # "on" \/ contact \/ button.releaseIn # 1
    /\ button' = [Quietly EXCEPT !.after = Sooner(@), !.releaseIn = Sooner(@),
                                 !.leaveIn = Sooner(@), !.run = Older(@), !.lostAge = Older(@)]
    /\ touched' = IF finger = "on" /\ contact THEN Older(touched) ELSE touched
    /\ UNCHANGED <<finger, contact, chord, clean, answers, touchesLeft, tricksLeft>>

HoldNext ==
    \/ FingerDown \/ FingerUp \/ SlideOut \/ SlideBack
    \/ ContactLost \/ ContactFound \/ FalseLeave
    \/ ChordDown \/ ChordUp \/ HostActs
    \/ Expire \/ ProgressTick \/ HoldTick

HoldSpec == HoldInit /\ [][HoldNext]_holdVars

-----------------------------------------------------------------------------
\* A hold or a repetition only ever fires while the finger touches the screen or
\* the chord is held: a release that waits to be confirmed stops the countdown
\* (_defer_release, _do_release, cancel_hold).
FiresUnderTheFinger ==
    [][button'.fired \in {"hold", "repeat"} => finger # "up" \/ chord]_holdVars

\* Jitter of the touch stream neither costs a hold the time it has made nor adds to
\* it: the hold fires after exactly its threshold of contact, for any jitter
\* (_defer_release, _resume_hold, _on_leave_candidate).
JitterKeepsTheHold ==
    clean /\ finger = "on" /\ "hold" \in button.callbacks /\ "repeat" \notin button.callbacks
    => /\ touched > HoldThreshold => button.handled
       /\ button.handled => touched >= HoldThreshold

\* A press is answered once: with the hold or with the short press, never with both
\* (_held, _handled_hold in _trigger_hold_or_repeat and _do_release).  A disabled button
\* that ignores a press is excepted: _on_press_event returns before it looks at
\* _release_pending, which outlives the release that follows, and a press after that is
\* taken for the same one and answered again.
AnsweredOnce == answers # 2

\* The progress bar, which covers the button's label, is only up while a press is
\* in progress, whichever of the ways a press can end it took (_stop_progress).
BarMeansPressed == button.overlay => button.pressed

\* A press that inherits the time of an abandoned hold carries its countdown on too
\* ("rather than starting the countdown again", hold_button.py:503): no hold waits
\* beyond its threshold.  The code does not keep this.
RestartKeepsTheHold ==
    button.pressed /\ button.callbacks = {"hold"} /\ Elapsed(button) > HoldThreshold
    => button.handled

\* What a touch is entitled to, whatever else happens to the button meanwhile.
HoldSafety == JitterKeepsTheHold /\ AnsweredOnce /\ BarMeansPressed
=============================================================================
