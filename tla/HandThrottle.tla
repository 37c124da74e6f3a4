----------------------------- MODULE HandThrottle -----------------------------
\* The hardware throttle: a keypad with its queue of keys (src/pytrain/gpio/keypad.py),
\* the controller's thread that chooses engines by them (gpio/controller.py), and the
\* buttons bound to the chosen engine (gpio/engine_controller.py, gpio_handler.py).
\* The commands of a button are two objects, one per syntax, which are readdressed for
\* every engine; a press is answered by the thread of the GPIO library, one press at
\* a time, while the controller's thread may be binding the buttons anew.
\* A motive is a scope and a number, the sequence of its digits.

EXTENDS Integers, Sequences, SequencesExt

CONSTANTS
    Digits,
    HandButtons,  \* the buttons that are wired
    Roster,       \* the motives in the state store
    LegacyOnes,   \* those that understand Legacy commands
    NoMotive,
    NumLasts,     \* num_lasts
    Patient,      \* TRUE: a key is pressed when the one before has been handled
    KeyPresses,   \* bound: keys
    ButtonPresses \* bound: presses of buttons

HandScopes == {"ENGINE", "TRAIN"}
Syntaxes == {"TMCC1", "TMCC2"}
\* What a press does, per syntax: "push" sends at once; "hold" and "repeat" wait for the
\* threshold and send one command, or go on while the button is held; for "none" the
\* table says that there is no command.  The code has no entry for aux1 in TMCC1.
Tmcc1Table == [forward |-> "push", boost |-> "repeat", bell |-> "repeat",
               startUp |-> "none", shutdown |-> "push"]
Tmcc2Table == [forward |-> "push", boost |-> "repeat", bell |-> "hold",
               startUp |-> "hold", shutdown |-> "hold", aux1 |-> "repeat"]
TableOf(syntax) == IF syntax = "TMCC1" THEN Tmcc1Table ELSE Tmcc2Table
SyntaxOf(m) == IF m \in LegacyOnes THEN "TMCC2" ELSE "TMCC1"
Entered(syntax) == HandButtons \cap DOMAIN TableOf(syntax)

AutoEnter == 4     \* a number of four digits needs no #
MaxLength == 256   \* of KeyQueue, beyond which the oldest keys are lost
ScopeKeys == {"A", "B"}
OtherKeys == {"*", "C", "D", "#"}
Keys == Digits \cup ScopeKeys \cup OtherKeys
\* A command object is made for an engine of a number nobody types here.
Unaddressed == <<"ENGINE", <<>>>>

ASSUME HandAssumption ==
    /\ HandButtons \subseteq DOMAIN Tmcc2Table
    /\ Digits \cap (ScopeKeys \cup OtherKeys \cup {"none"}) = {}
    /\ Roster \subseteq HandScopes \X Seq(Digits) /\ LegacyOnes \subseteq Roster
    /\ NoMotive \notin Roster \cup {Unaddressed} /\ Patient \in BOOLEAN
    /\ {NumLasts, KeyPresses, ButtonPresses} \subseteq Nat /\ NumLasts > 0
    /\ KeyPresses <= MaxLength

VARIABLES
    keyQueue,   \* [deque, keypress, eol, clear, digit]: the keys and the four events
    hPc,        \* the controller's thread
    key,        \* what wait_for_keypress returned
    scope,      \* _scope
    tmccId,     \* _tmcc_id, a sequence of digits; <<>> is None
    found,      \* _state is not None
    motives,    \* _last_motive, a UniqueDeque
    chosen,     \* the engine controller's _tmcc_id and _scope
    leaving,    \* while the buttons are bound anew: the motive before
    toBind,     \* the buttons still to be bound
    address,    \* [Syntaxes -> [buttons -> the motive of the command object]]
    half,       \* the button whose command has the new number and the old scope still
    bound,      \* when_pressed: the syntax of the button's command, or "none"
    fingers,    \* the buttons under a finger
    presses,    \* presses not yet answered
    answering,  \* the press being answered
    sentTo,     \* the last command of a button: whom it went to, whom it could go to
    typed,      \* the digits of the number that the user is typing
    entered,    \* the number that the last # ended, while it is being handled
    keysLeft, pressesLeft

keyVars == <<keyQueue, key, typed, entered, keysLeft>>
choiceVars == <<scope, tmccId, found, motives>>
bindVars == <<chosen, leaving, toBind, address, half, bound>>
pressVars == <<fingers, presses, answering, sentTo, pressesLeft>>
handVars == <<hPc, keyVars, choiceVars, bindVars, pressVars>>

Addresses == {<<m[1], n[2]>> : m, n \in Roster \cup {Unaddressed}}

NoKeys == [deque |-> <<>>, keypress |-> FALSE, eol |-> FALSE, clear |-> FALSE, digit |-> FALSE]
NoPress == [button |-> "none", syntax |-> "none", at |-> "none", among |-> {}]
HandPress == [button : HandButtons, syntax : Syntaxes \cup {"none"},
          at : {"queue", "threshold", "hold"}, among : SUBSET (Roster \cup {NoMotive})]

HandTypeOK ==
    /\ keyQueue \in [deque : Seq(Keys), keypress : BOOLEAN, eol : BOOLEAN,
                     clear : BOOLEAN, digit : BOOLEAN]
    /\ hPc \in {"wait", "woken", "decide", "bind", "dead"}
    /\ key \in Keys \cup {"none"} /\ scope \in HandScopes
    /\ tmccId \in Seq(Digits) /\ found \in BOOLEAN
    /\ motives \in Seq(Roster) /\ Len(motives) <= NumLasts /\ IsInjective(motives)
    /\ chosen \in Roster \cup {NoMotive} /\ leaving \in Roster \cup {NoMotive}
    /\ toBind \subseteq HandButtons
    /\ address \in [Syntaxes -> [HandButtons -> Addresses]] /\ half \in toBind \cup {"none"}
    /\ bound \in [HandButtons -> Syntaxes \cup {"none"}]
    /\ fingers \subseteq HandButtons /\ presses \in Seq(HandPress)
    /\ answering \in HandPress \cup {NoPress}
    /\ sentTo \in [to : Addresses, among : SUBSET (Roster \cup {NoMotive, Unaddressed})]
    /\ typed \in Seq(Digits) /\ entered \in Seq(Digits)
    /\ keysLeft \in 0 .. KeyPresses /\ pressesLeft \in 0 .. ButtonPresses

HandInit ==
    /\ keyQueue = NoKeys /\ hPc = "wait" /\ key = "none"
    /\ scope = "ENGINE" /\ tmccId = <<>> /\ found = FALSE /\ motives = <<>>
    /\ chosen = NoMotive /\ leaving = NoMotive /\ toBind = {}
    /\ address = [s \in Syntaxes |-> [b \in HandButtons |-> Unaddressed]] /\ half = "none"
    /\ bound = [b \in HandButtons |-> "none"]
    /\ fingers = {} /\ presses = <<>> /\ answering = NoPress
    /\ sentTo = [to |-> Unaddressed, among |-> {Unaddressed}]
    /\ typed = <<>> /\ entered = <<>>
    /\ keysLeft = KeyPresses /\ pressesLeft = ButtonPresses

-----------------------------------------------------------------------------
\* The keypad's thread: keypress_handler of the queue.
PressKey(k) ==
    /\ keysLeft > 0 /\ keysLeft' = keysLeft - 1
    /\ Patient => hPc = "wait" /\ ~keyQueue.keypress
    /\ keyQueue' = [deque |-> IF k \in {"C", "D"} THEN <<>>
                              ELSE IF k = "#" THEN keyQueue.deque
                              ELSE Append(keyQueue.deque, k),
                    keypress |-> TRUE, eol |-> k = "#", clear |-> k = "C",
                    digit |-> keyQueue.digit \/ k = "D"]
    /\ typed' = IF k = "*" /\ motives = <<>> THEN typed
                ELSE IF k \notin Digits \/ keyQueue.digit THEN <<>>
                ELSE IF Len(typed) = AutoEnter THEN <<k>> ELSE Append(typed, k)
    /\ entered' = IF k = "#" THEN typed ELSE <<>>
    /\ UNCHANGED <<hPc, key, choiceVars, bindVars, pressVars>>

\* wait_for_keypress; what it returns is computed before the event is cleared.
KeyWakes ==
    /\ hPc = "wait" /\ keyQueue.keypress /\ hPc' = "woken"
    /\ key' = IF keyQueue.eol \/ keyQueue.clear \/ keyQueue.deque = <<>> THEN "none"
              ELSE Last(keyQueue.deque)
    /\ UNCHANGED <<keyQueue, typed, entered, keysLeft, choiceVars, bindVars, pressVars>>

ForgetKeypress ==
    /\ hPc = "woken" /\ hPc' = "decide" /\ keyQueue' = [keyQueue EXCEPT !.keypress = FALSE]
    /\ UNCHANGED <<key, typed, entered, keysLeft, choiceVars, bindVars, pressVars>>

\* key_presses: the keys without those that have a meaning of their own, but for the
\* two of the scopes.
KeyRead(k) == IF k \in OtherKeys THEN <<>> ELSE <<k>>
KeysRead(keys) ==
    LET f[n \in 0 .. Len(keys)] == IF n = 0 THEN <<>> ELSE f[n - 1] \o KeyRead(keys[n])
    IN f
KeysTyped == KeysRead(keyQueue.deque)[Len(keyQueue.deque)]

\* UniqueDeque.push
Pushed(m) ==
    LET others == RemoveFirst(motives, m)
    IN SubSeq(<<m>> \o others, 1, IF Len(others) < NumLasts THEN Len(others) + 1 ELSE NumLasts)

\* update_engine: a motive that the store has is bound to the buttons; another one is
\* only remembered as the number on the display.
UpdateMotive(s, id, queue) ==
    /\ scope' = s /\ tmccId' = id
    /\ IF <<s, id>> \in Roster
       THEN /\ found' = TRUE
            /\ leaving' = chosen /\ chosen' = <<s, id>>
            /\ toBind' = Entered(SyntaxOf(<<s, id>>))
            /\ presses' = [i \in DOMAIN presses |->
                             [presses[i] EXCEPT !.among = @ \cup {<<s, id>>}]]
            /\ answering' = IF answering = NoPress THEN NoPress
                            ELSE [answering EXCEPT !.among = @ \cup {<<s, id>>}]
            /\ keyQueue' = queue /\ hPc' = "bind"
       ELSE /\ found' = FALSE /\ keyQueue' = NoKeys /\ hPc' = "wait"
            /\ UNCHANGED <<chosen, leaving, toBind, presses, answering>>
    /\ UNCHANGED <<address, half, bound, fingers, sentTo, pressesLeft>>

ResetQueue ==
    keyQueue' = NoKeys /\ hPc' = "wait" /\ UNCHANGED <<choiceVars, bindVars, pressVars>>

\* process_clear_key: an unknown number is forgotten, a known motive chosen again.
ClearKey ==
    /\ keyQueue.clear
    /\ IF tmccId # <<>> /\ found
       THEN UpdateMotive(scope, tmccId, NoKeys) /\ UNCHANGED motives
       ELSE /\ keyQueue' = NoKeys /\ hPc' = "wait" /\ tmccId' = <<>>
            /\ UNCHANGED <<scope, found, motives, bindVars, pressVars>>

\* int() raises when the keys of the scopes are among the digits, and the thread ends.
EnterNumber ==
    IF \E i \in DOMAIN KeysTyped : KeysTyped[i] \in ScopeKeys
    THEN hPc' = "dead" /\ UNCHANGED <<keyQueue, choiceVars, bindVars, pressVars>>
    ELSE UpdateMotive(scope, KeysTyped, keyQueue) /\ UNCHANGED motives

EnterKey ==
    /\ ~keyQueue.clear /\ keyQueue.eol
    /\ IF KeysTyped = <<>> THEN ResetQueue
       ELSE EnterNumber

\* change_scope: the motive is remembered, the digits are not.
ScopeKey ==
    /\ ~keyQueue.clear /\ ~keyQueue.eol /\ key \in ScopeKeys
    /\ scope' = (IF key = "A" THEN "ENGINE" ELSE "TRAIN")
    /\ tmccId' = <<>> /\ found' = FALSE /\ keyQueue' = NoKeys /\ hPc' = "wait"
    /\ motives' = IF tmccId # <<>> /\ found THEN Pushed(<<scope, tmccId>>) ELSE motives
    /\ UNCHANGED <<bindVars, pressVars>>

\* last_engine: the motive before, in a ring.
StarKey ==
    /\ ~keyQueue.clear /\ ~keyQueue.eol /\ key = "*"
    /\ IF motives = <<>>
       THEN hPc' = "wait" /\ UNCHANGED <<keyQueue, choiceVars, bindVars, pressVars>>
       ELSE LET ring == Tail(motives) \o <<Head(motives)>>
                none == tmccId = <<>> \/ ~found
                rotated == none \/ <<scope, tmccId>> = Head(motives)
                m == Head(IF rotated /\ ~none THEN ring ELSE motives)
            IN /\ motives' = IF rotated THEN ring ELSE motives
               /\ UpdateMotive(m[1], m[2], keyQueue)

\* A digit is a command after a D, else it is shown; the fourth ends the number.
DigitKey ==
    /\ ~keyQueue.clear /\ ~keyQueue.eol /\ key \in Digits
    /\ IF keyQueue.digit THEN ResetQueue
       ELSE IF Len(KeysTyped) >= AutoEnter THEN EnterNumber
       ELSE hPc' = "wait" /\ UNCHANGED <<keyQueue, choiceVars, bindVars, pressVars>>

NoKey ==
    /\ ~keyQueue.clear /\ ~keyQueue.eol /\ key = "none" /\ hPc' = "wait"
    /\ UNCHANGED <<keyQueue, choiceVars, bindVars, pressVars>>

Decide ==
    /\ hPc = "decide"
    /\ ClearKey \/ EnterKey \/ ScopeKey \/ StarKey \/ DigitKey \/ NoKey
    /\ UNCHANGED <<key, typed, entered, keysLeft>>

\* EngineController.update: the command of a button gets its number, then its scope, and
\* is bound; a button for which the table has no command loses its binding, and one
\* without an entry keeps it.
Renumber(b) ==
    LET syntax == SyntaxOf(chosen)
    IN /\ hPc = "bind" /\ half = "none" /\ b \in toBind /\ TableOf(syntax)[b] # "none"
       /\ half' = b /\ address' = [address EXCEPT ![syntax][b] = <<@[1], chosen[2]>>]
       /\ UNCHANGED <<hPc, keyVars, choiceVars, chosen, leaving, toBind, bound, pressVars>>

\* Mutant: a command keeps the scope it was made for.
MutBind ==
    LET syntax == SyntaxOf(chosen)
    IN /\ half # "none" /\ half' = "none" /\ toBind' = toBind \ {half}
       /\ bound' = [bound EXCEPT ![half] = syntax]
       /\ UNCHANGED <<hPc, keyVars, choiceVars, chosen, leaving, address, pressVars>>
Bind ==
    LET syntax == SyntaxOf(chosen)
    IN /\ half # "none" /\ half' = "none" /\ toBind' = toBind \ {half}
       /\ address' = [address EXCEPT ![syntax][half] = chosen]
       /\ bound' = [bound EXCEPT ![half] = syntax]
       /\ UNCHANGED <<hPc, keyVars, choiceVars, chosen, leaving, pressVars>>

Unbind(b) ==
    /\ hPc = "bind" /\ half = "none" /\ b \in toBind /\ TableOf(SyntaxOf(chosen))[b] = "none"
    /\ toBind' = toBind \ {b} /\ bound' = [bound EXCEPT ![b] = "none"]
    /\ UNCHANGED <<hPc, keyVars, choiceVars, chosen, leaving, address, half, pressVars>>

\* The rest of update_engine: the queue is reset and the motive remembered.
FinishUpdate ==
    /\ hPc = "bind" /\ toBind = {} /\ hPc' = "wait"
    /\ keyQueue' = NoKeys /\ leaving' = NoMotive /\ motives' = Pushed(<<scope, tmccId>>)
    /\ UNCHANGED <<key, typed, entered, keysLeft, scope, tmccId, found, chosen, toBind,
                   address, half, bound, pressVars>>

ControllerStep ==
    \/ KeyWakes \/ ForgetKeypress \/ Decide \/ Bind \/ FinishUpdate
    \/ \E b \in HandButtons : Renumber(b) \/ Unbind(b)

-----------------------------------------------------------------------------
\* Fingers on the buttons, and the thread that answers their presses.
FingerOn(b) ==
    /\ pressesLeft > 0 /\ pressesLeft' = pressesLeft - 1
    /\ b \notin fingers /\ fingers' = fingers \cup {b}
    /\ presses' = Append(presses, [button |-> b, syntax |-> "none", at |-> "queue",
                                   among |-> {chosen, leaving}])
    /\ UNCHANGED <<hPc, keyVars, choiceVars, bindVars, answering, sentTo>>
FingerOff(b) ==
    /\ b \in fingers /\ fingers' = fingers \ {b}
    /\ UNCHANGED <<hPc, keyVars, choiceVars, bindVars, presses, answering, sentTo, pressesLeft>>

Send(press) == sentTo' = [to |-> address[press.syntax][press.button], among |-> press.among]

TakePress ==
    /\ answering = NoPress /\ presses # <<>> /\ presses' = Tail(presses)
    /\ LET b == Head(presses).button
           press == [Head(presses) EXCEPT !.syntax = bound[b], !.at = "threshold"]
       IN IF bound[b] = "none" THEN UNCHANGED <<answering, sentTo>>
          ELSE IF TableOf(bound[b])[b] = "push" THEN Send(press) /\ UNCHANGED answering
          ELSE answering' = press /\ UNCHANGED sentTo
    /\ UNCHANGED <<hPc, keyVars, choiceVars, bindVars, fingers, pressesLeft>>

\* when_button_pressed_or_held_action
AnswerPress ==
    /\ answering # NoPress
    /\ IF answering.button \in fingers
       THEN /\ Send(answering)
            /\ answering' = IF TableOf(answering.syntax)[answering.button] = "repeat"
                            THEN [answering EXCEPT !.at = "hold"] ELSE NoPress
       ELSE /\ answering' = NoPress
            /\ IF answering.at = "threshold" THEN Send(answering) ELSE UNCHANGED sentTo
    /\ UNCHANGED <<hPc, keyVars, choiceVars, bindVars, fingers, presses, pressesLeft>>

HandNext ==
    \/ \E k \in Keys : PressKey(k)
    \/ ControllerStep
    \/ \E b \in HandButtons : FingerOn(b) \/ FingerOff(b)
    \/ TakePress \/ AnswerPress

HandSpec == HandInit /\ [][HandNext]_handVars

-----------------------------------------------------------------------------
\* A press only ever reaches a motive that was chosen, or was being left, at some time
\* since the finger came down, or at worst, between the two assignments, the number of
\* one in the scope of another: no binding outlives its motive (EngineController.update).
PressesReachTheirMotive ==
    \E m, n \in sentTo.among \ {NoMotive} : sentTo.to = <<m[1], n[2]>>

\* The number that a # ends is the number on the display, and drives the buttons if
\* there is such a motive; and no key ends the controller's thread (Controller.run).
NumbersChoose ==
    /\ hPc # "dead"
    /\ hPc = "wait" /\ ~keyQueue.keypress /\ entered # <<>>
       => tmccId = entered /\ (found => chosen = <<scope, entered>>)

\* A throttle does what its keys and buttons say.
ThrottleSafety == PressesReachTheirMotive /\ NumbersChoose
=============================================================================
