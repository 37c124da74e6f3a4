------------------------------- MODULE DeckInput -------------------------------
(***************************************************************************)
(* The controls of a Steam Deck (gui/controller/steam_deck_input.py).  A   *)
(* provider turns what SDL reports, and the raw reports of the Deck, into  *)
(* actions; a router handles them and repeats those whose control is held. *)
(* The GUI's thread polls both; the operator's hands and the touch screen  *)
(* act between the polls.                                                  *)
(***************************************************************************)
EXTENDS Integers, SequencesExt

CONSTANTS
  DeckButtons,  \* buttons of the profile
  ButtonDoes,   \* profile.buttons: the action of each
  Paddles,      \* buttons that the Deck's own reports show too
  SdlPaddles,   \* SDL reports the paddles (Desktop Mode)
  DeckChords,   \* profile.chords: [buttons, does]
  DeckPanes,    \* the two panes, left and right
  AnalogPanes,  \* bound: those whose stick and pad are used
  TopThrottle,  \* speed_max
  DeckInputs,   \* bound: what hands do, and trouble
  DeckTrouble   \* bound: disconnections and exceptions

DeckDoes == {"panel", "repeat", "close", "startup", "sequence", "catalog", "focus"}
ChordDoes == {"halt", "controls", "admin"}
NoPane == "nobody" \* chords have no pane of their own
ASSUME DeckAssumption ==
  /\ IsFiniteSet(DeckButtons) /\ ButtonDoes \in [DeckButtons -> DeckDoes]
  /\ IsFiniteSet(DeckChords)
  /\ DeckChords \subseteq [buttons : SUBSET DeckButtons, does : ChordDoes]
  /\ \A c \in DeckChords : Cardinality(c.buttons) > 1
  /\ IsFiniteSet(DeckPanes) /\ Cardinality(DeckPanes) = 2 /\ NoPane \notin DeckPanes
  /\ AnalogPanes \subseteq DeckPanes
  /\ Paddles \subseteq DeckButtons /\ SdlPaddles \in BOOLEAN
  /\ {TopThrottle, DeckInputs, DeckTrouble} \subseteq Nat

Panels == {"none", "catalog", "admin"}
Hats == {"neutral", "up", "down"}
Acts == [does : DeckDoes \cup ChordDoes \cup {"throttle", "quill", "dpad", "disconnect"},
         by : DeckButtons \cup DeckPanes \cup Hats \cup {NoPane}, on : BOOLEAN]
LongButtons == {b \in DeckButtons : ButtonDoes[b] = "startup"} \* _long_press_buttons

VARIABLES
  hands,     \* the operator: buttons held, sticks pushed, pads touched, the hat
  sdl,       \* SDL's queue of events
  pc,        \* of the GUI's thread: _poll_controller
  reported,  \* _hidraw_buttons, _hidraw_pad_touched
  held,      \* _held_buttons
  chords,    \* _fired_chords
  longs,     \* _long_press_pressed_at
  chorded,   \* _long_press_chorded
  hat,       \* _hat_y
  batch,     \* the actions poll has returned
  router,    \* throttles, commanded speeds, quills, boosts, held commands, sequences
  gui,       \* focused pane, controls screen, the popup panel of each pane, and the panes
             \* with a hold of the admin panel that was begun and not cancelled
  speed,     \* of each pane's engine
  trouble,   \* bounds: what is left of hands, of trouble
  clear,     \* ghost: no controls screen, no exception, no change of focus so far
  owed,      \* ghost: how often each button was pressed without a report yet
  together   \* ghost: buttons that a reported chord took, since they were pressed

providerVars == << reported, held, chords, longs, chorded, hat >>
deckVars == << hands, sdl, pc, providerVars, batch, router, gui, speed, trouble, clear, owed,
               together >>
ghosts == << clear, owed, together >>

DeckTypeOK ==
  /\ hands \in [buttons : SUBSET DeckButtons, sticks : SUBSET DeckPanes,
                pads : SUBSET DeckPanes, hat : Hats]
  /\ pc \in {"poll", "paddles", "sdl", "decode", "tick"}
  /\ reported \in [buttons : SUBSET Paddles, pads : SUBSET DeckPanes]
  /\ held \subseteq DeckButtons /\ chords \subseteq DeckChords
  /\ longs \subseteq LongButtons /\ chorded \subseteq LongButtons /\ hat \in Hats
  /\ \A i \in DOMAIN batch : batch[i] \in Acts
  /\ router \in [throttles : SUBSET DeckPanes, commanded : [DeckPanes -> 0 .. TopThrottle + 1],
                 quills : SUBSET DeckPanes, boost : Hats, scroll : BOOLEAN,
                 commands : SUBSET DeckButtons, sequence : 0 .. 2]
  /\ gui \in [focus : DeckPanes, controls : BOOLEAN, panel : [DeckPanes -> Panels],
              holds : SUBSET DeckPanes]
  /\ speed \in [DeckPanes -> 0 .. TopThrottle]
  /\ trouble \in [inputs : 0 .. DeckInputs, rest : 0 .. DeckTrouble]
  /\ clear \in BOOLEAN /\ together \subseteq DeckButtons
  /\ owed \in [DeckButtons -> Int]

NotCommanded == TopThrottle + 1
NothingHeld == [throttles |-> {}, commanded |-> [p \in DeckPanes |-> NotCommanded], quills |-> {},
         boost |-> "neutral", scroll |-> FALSE, commands |-> {}, sequence |-> 0]

DeckInit ==
  /\ hands = [buttons |-> {}, sticks |-> {}, pads |-> {}, hat |-> "neutral"]
  /\ sdl = <<>> /\ pc = "poll" /\ reported = [buttons |-> {}, pads |-> {}]
  /\ held = {} /\ chords = {} /\ longs = {} /\ chorded = {} /\ hat = "neutral" /\ batch = <<>>
  /\ router = NothingHeld /\ speed = [p \in DeckPanes |-> 0]
  /\ gui = [focus |-> CHOOSE p \in DeckPanes : TRUE, controls |-> FALSE, panel |-> [p \in DeckPanes |-> "none"],
            holds |-> {}]
  /\ trouble = [inputs |-> DeckInputs, rest |-> DeckTrouble]
  /\ clear = TRUE /\ owed = [b \in DeckButtons |-> 0] /\ together = {}

-----------------------------------------------------------------------------
\* hands: what they do while the thread is at work is in the next poll
Between == pc \in {"poll", "sdl"}
Flip(S, x) == IF x \in S THEN S \ {x} ELSE S \cup {x}
ByHand ==
  /\ Between /\ trouble.inputs > 0 /\ trouble' = [trouble EXCEPT !.inputs = @ - 1]
  /\ UNCHANGED << pc, providerVars, batch, router, speed >>
\* trouble is among what happens at all
Troubles ==
  /\ trouble.inputs > 0 /\ trouble.rest > 0
  /\ trouble' = [trouble EXCEPT !.inputs = @ - 1, !.rest = @ - 1]
Reports(kind, x, on) == sdl' = Append(sdl, <<kind, x, on>>)

MoveButton(b) ==
  /\ ByHand /\ hands' = [hands EXCEPT !.buttons = Flip(@, b)]
  /\ IF b \in Paddles /\ ~SdlPaddles THEN UNCHANGED sdl ELSE Reports("button", b, b \notin hands.buttons)
  /\ owed' = IF b \in hands.buttons THEN owed ELSE [owed EXCEPT ![b] = @ + 1]
  /\ UNCHANGED << gui, clear, together >>
MoveStick(p) ==
  /\ ByHand /\ hands' = [hands EXCEPT !.sticks = Flip(@, p)] /\ Reports("axis", p, p \notin hands.sticks)
  /\ UNCHANGED << gui, ghosts >>
MoveHat(h) ==
  /\ ByHand /\ h # hands.hat /\ hands' = [hands EXCEPT !.hat = h] /\ Reports("hat", h, TRUE)
  /\ UNCHANGED << gui, ghosts >>
MovePad(p) ==
  /\ ByHand /\ hands' = [hands EXCEPT !.pads = Flip(@, p)]
  /\ UNCHANGED << sdl, gui, ghosts >>
\* the touch screen opens and closes panels
TouchScreen(p) ==
  /\ ByHand
  /\ \/ \E x \in Panels : gui' = [gui EXCEPT !.panel[p] = x] /\ UNCHANGED clear
     \/ gui' = [gui EXCEPT !.controls = ~@] /\ clear' = FALSE
  /\ UNCHANGED << hands, sdl, owed, together >>
\* the controller goes and comes back: SDL tells both
Reconnect ==
  /\ Between /\ Troubles
  /\ Reports("removed", NoPane, TRUE)
  /\ UNCHANGED << hands, pc, providerVars, batch, router, gui, speed, ghosts >>

-----------------------------------------------------------------------------
\* the provider
Act(does, by, on) == [does |-> does, by |-> by, on |-> on]
Then(next) == pc' = next
Each(cs, on) == LET s == SetToSeq(cs) IN [i \in DOMAIN s |-> Act(s[i].does, NoPane, on)]
Tell(acts) == batch' = batch \o acts

\* as if every report counted
MutSameEdge(b, on) == FALSE
\* _button_actions; SDL and the Deck's reports may both come here with the same edge
SameEdge(b, on) == on = (b \in held)

Completed(b) == {c \in DeckChords \ chords : c.buttons \subseteq held \cup {b}}
\* as if a chord left the buttons it took alone
MutTakes(cs) == {}
Takes(cs) == LongButtons \cap UNION {c.buttons : c \in cs}
ButtonDown(b) ==
  LET completed == Completed(b)
  IN /\ held' = held \cup {b} /\ chords' = chords \cup completed
     /\ chorded' = chorded \cup Takes(completed)
     /\ IF completed # {} THEN Tell(Each(completed, TRUE)) /\ UNCHANGED longs
        ELSE IF b \in LongButtons THEN longs' = longs \cup {b} /\ UNCHANGED batch
        ELSE Tell(<<Act(ButtonDoes[b], b, TRUE)>>) /\ UNCHANGED longs
     /\ owed' = [owed EXCEPT ![b] = @ - 1]
     /\ together' = (together \ {b}) \cup UNION {c.buttons : c \in completed}

\* the release of a button ends the chords it took part in, and is a short or a long press
\* of one that starts an engine
ButtonUp(b) ==
  LET over == {c \in chords : b \in c.buttons}
      starts == b \in longs \ chorded
  IN /\ held' = held \ {b} /\ chords' = chords \ over
     /\ longs' = longs \ {b} /\ chorded' = chorded \ {b}
     /\ Tell(Each(over, FALSE) \o
             (IF b \notin LongButtons THEN <<Act(ButtonDoes[b], b, FALSE)>>
              ELSE IF starts THEN <<Act("startup", b, TRUE)>> ELSE <<>>))
     /\ UNCHANGED << owed, together >>

ButtonActions(b, on) ==
  /\ IF SameEdge(b, on) THEN UNCHANGED << held, chords, longs, chorded, batch, owed, together >>
     ELSE IF on THEN ButtonDown(b) ELSE ButtonUp(b)
  /\ UNCHANGED << hat, clear >>

Provider == UNCHANGED << hands, router, gui, speed, trouble >>

\* _drain_hidraw_pads: the latest report only
PollDeck == pc = "poll" /\ Then("paddles") /\ UNCHANGED << sdl, providerVars, batch, ghosts >> /\ Provider
PaddleEdge(b) ==
  /\ pc = "paddles" /\ (b \in reported.buttons) # (b \in hands.buttons)
  /\ reported' = [reported EXCEPT !.buttons = Flip(@, b)] /\ ButtonActions(b, b \in hands.buttons)
  /\ UNCHANGED << sdl, pc >> /\ Provider
\* a pad tells that it is touched each time, and once that it is not
PadActions ==
  LET lifted == SetToSeq(reported.pads \ hands.pads)
      touched == SetToSeq(hands.pads)
  IN /\ pc = "paddles" /\ reported.buttons = hands.buttons \cap Paddles /\ Then("sdl")
     /\ reported' = [reported EXCEPT !.pads = hands.pads]
     /\ Tell([i \in DOMAIN lifted |-> Act("quill", lifted[i], FALSE)]
             \o [i \in DOMAIN touched |-> Act("quill", touched[i], TRUE)])
     /\ UNCHANGED << sdl, held, chords, longs, chorded, hat, ghosts >> /\ Provider

\* event.get
TakeSdl == pc = "sdl" /\ Then("decode") /\ UNCHANGED << sdl, providerVars, batch, ghosts >> /\ Provider
Event(kind) ==
  /\ pc = "decode" /\ sdl # <<>> /\ Head(sdl)[1] = kind /\ sdl' = Tail(sdl)
  /\ UNCHANGED << pc, reported >> /\ Provider
DecodeButton == Event("button") /\ ButtonActions(Head(sdl)[2], Head(sdl)[3])
\* _normalize_axis is rid of the noise: a stick is pushed or it rests
DecodeAxis ==
  /\ Event("axis") /\ Tell(<<Act("throttle", Head(sdl)[2], Head(sdl)[3])>>)
  /\ UNCHANGED << held, chords, longs, chorded, hat, ghosts >>
\* _hat_actions
DecodeHat ==
  LET h == Head(sdl)[2]
      dpad(x, on) == IF x = "neutral" THEN <<>> ELSE <<Act("dpad", x, on)>>
  IN /\ Event("hat") /\ hat' = h
     /\ Tell(IF h = hat THEN <<>> ELSE dpad(hat, FALSE) \o dpad(h, TRUE))
     /\ UNCHANGED << held, chords, longs, chorded, ghosts >>
\* _remove_device
DecodeRemoved ==
  /\ Event("removed") /\ Tell(<<Act("disconnect", NoPane, TRUE)>>)
  /\ held' = {} /\ chords' = {} /\ longs' = {} /\ chorded' = {} /\ hat' = "neutral"
  /\ UNCHANGED ghosts

PollInput ==
  \/ PollDeck \/ \E b \in Paddles : PaddleEdge(b)
  \/ PadActions \/ TakeSdl \/ DecodeButton \/ DecodeAxis \/ DecodeHat \/ DecodeRemoved

-----------------------------------------------------------------------------
\* the router

act == Head(batch)
Decoded == pc = "decode" /\ sdl = <<>> \* poll has returned
Pane == IF act.by \in DeckPanes THEN act.by ELSE gui.focus \* _target_gui
Global == act.does \in {"halt", "controls", "focus", "disconnect"}
Shows(panel) == gui.panel[Pane] = panel
PutIf(S, x) == IF act.on THEN S \cup {x} ELSE S \ {x}

Handling(does) ==
  /\ Decoded /\ batch # <<>> /\ act.does \in does /\ batch' = Tail(batch)
  /\ UNCHANGED << hands, sdl, pc, providerVars, trouble, owed, together >>
\* an action that the controls screen lets through
Reaches(does) == Handling(does) /\ (Global \/ ~gui.controls)
Other(p) == CHOOSE q \in DeckPanes : q # p \* toggle_focus
OnlyRouter == UNCHANGED << gui, speed, clear >>

HandleDisconnect == Handling({"disconnect"}) /\ router' = NothingHeld /\ OnlyRouter

\* _controls_only
ControlsOnly ==
  /\ gui.controls /\ Handling(DeckDoes \cup ChordDoes \cup {"throttle", "quill", "dpad"}) /\ ~Global
  /\ gui' = [gui EXCEPT !.controls = ~(act.does = "close" /\ act.on)]
  /\ UNCHANGED << router, speed, clear >>

HandleThrottle ==
  /\ Reaches({"throttle"}) /\ OnlyRouter
  /\ router' = [router EXCEPT !.throttles = PutIf(@, act.by),
                              !.commanded[act.by] = IF act.on THEN @ ELSE NotCommanded]
HandleQuill ==
  /\ Reaches({"quill"}) /\ OnlyRouter /\ router' = [router EXCEPT !.quills = PutIf(@, act.by)]

\* _handle_scroll_boost
HandleScrollBoost ==
  /\ Reaches({"dpad"}) /\ OnlyRouter
  /\ router' = [router EXCEPT !.scroll = act.on /\ Shows("catalog"),
                              !.boost = IF act.on /\ ~Shows("catalog") THEN act.by ELSE "neutral"]

\* _handle_admin_command, on_admin_command
HandleAdmin ==
  /\ Reaches({"admin"}) /\ (act.on => Shows("admin"))
  /\ gui' = [gui EXCEPT !.holds = PutIf(@, Pane)] /\ UNCHANGED << router, speed, clear >>
AdminNotShown ==
  Reaches({"admin"}) /\ act.on /\ ~Shows("admin") /\ OnlyRouter /\ UNCHANGED router

\* _handle_repeat_command
HandleRepeat ==
  LET closes == act.does = "close" /\ act.on /\ ~Shows("none")
  IN /\ Reaches({"repeat", "close"}) /\ UNCHANGED << speed, clear >>
     /\ router' = [router EXCEPT !.commands = IF closes THEN @ \ {act.by} ELSE PutIf(@, act.by)]
     /\ gui' = IF closes THEN [gui EXCEPT !.panel[Pane] = "none"] ELSE gui

\* the rest is done when it is pressed
HandleGlobal ==
  /\ Reaches({"halt", "controls", "focus"}) /\ UNCHANGED router
  /\ speed' = IF act.on /\ act.does = "halt" THEN [p \in DeckPanes |-> 0] ELSE speed
  /\ gui' = [gui EXCEPT !.controls = @ \/ (act.on /\ act.does = "controls"),
                        !.focus = IF act.on /\ act.does = "focus" THEN Other(@) ELSE @]
  /\ clear' = (clear /\ gui'.controls = gui.controls /\ gui'.focus = gui.focus)
HandleSequence ==
  /\ Reaches({"sequence"}) /\ UNCHANGED << speed, clear >>
  /\ IF act.on /\ Shows("catalog")
     THEN gui' = [gui EXCEPT !.panel[Pane] = "none"] /\ UNCHANGED router
     ELSE router' = (IF act.on THEN [router EXCEPT !.sequence = 2] ELSE router) /\ UNCHANGED gui
HandleCatalog ==
  /\ Reaches({"catalog"}) /\ UNCHANGED << router, speed, clear >>
  /\ gui' = IF ~act.on THEN gui
            ELSE [gui EXCEPT !.panel[Pane] = IF Shows("catalog") THEN "none" ELSE "catalog"]
\* panel commands that are sent once, startup and shutdown
HandleOnce == Reaches({"panel", "startup"}) /\ OnlyRouter /\ UNCHANGED router

\* an exception ends the poll
HandleFails ==
  /\ Decoded /\ batch # <<>> /\ Troubles
  /\ act.on /\ act.does \notin {"throttle", "quill", "disconnect"} /\ (Global \/ ~gui.controls)
  /\ batch' = <<>> /\ Then("poll") /\ clear' = FALSE
  /\ UNCHANGED << hands, sdl, providerVars, router, gui, speed, owed, together >>
Handled ==
  /\ Decoded /\ batch = <<>>
  /\ Then("tick") \/ Then("poll") \* repeat_interval has passed, or not
  /\ UNCHANGED << hands, sdl, providerVars, batch, router, gui, speed, trouble, ghosts >>

HandleAction ==
  \/ HandleDisconnect \/ ControlsOnly \/ HandleThrottle \/ HandleQuill \/ HandleScrollBoost
  \/ HandleAdmin \/ AdminNotShown \/ HandleRepeat \/ HandleGlobal \/ HandleSequence
  \/ HandleCatalog \/ HandleOnce \/ HandleFails \/ Handled

\* tick: a held stick adds to the speed that was commanded last, whatever the engine does
NextSpeed(p) ==
  LET last == IF router.commanded[p] = NotCommanded THEN speed[p] ELSE router.commanded[p]
  IN IF last < TopThrottle THEN last + 1 ELSE last
RouterTick ==
  /\ pc = "tick" /\ Then("poll")
  /\ router' = [router EXCEPT
       !.commanded = [p \in DeckPanes |-> IF p \in router.throttles THEN NextSpeed(p) ELSE @[p]],
       !.scroll = @ /\ gui.panel[gui.focus] = "catalog",
       !.sequence = IF @ = 0 THEN 0 ELSE @ - 1]
  /\ speed' = [p \in DeckPanes |->
       IF p \in router.throttles /\ router.commanded[p] # NextSpeed(p) THEN NextSpeed(p) ELSE speed[p]]
  /\ UNCHANGED << hands, sdl, providerVars, batch, gui, trouble, ghosts >>

PollController == PollInput \/ HandleAction \/ RouterTick

DeckNext ==
  \/ \E b \in DeckButtons : MoveButton(b)
  \/ \E p \in AnalogPanes : MoveStick(p) \/ MovePad(p)
  \/ \E p \in DeckPanes : TouchScreen(p)
  \/ \E h \in Hats : MoveHat(h)
  \/ Reconnect \/ PollController

DeckSpec == DeckInit /\ [][DeckNext]_deckVars /\ WF_deckVars(PollController)

-----------------------------------------------------------------------------
\* properties

\* the thread has seen what the hands do
Seen == pc = "poll" /\ sdl = <<>> /\ reported.pads = hands.pads
        /\ reported.buttons = hands.buttons \cap Paddles
NeverLost == trouble.rest = DeckTrouble

\* What is sent again and again is sent under the hand that asked for it: a repeated
\* command, a boost, a speed or a horn has its button, hat, stick or pad, also when another
\* panel has come up meanwhile; and an admin command counts down while its chord is held.
RepeatsAreHeld ==
  Seen /\ clear =>
    /\ router.commands \subseteq hands.buttons /\ router.throttles \subseteq hands.sticks
    /\ router.quills \subseteq hands.pads /\ router.boost \in {"neutral", hands.hat}
    /\ router.scroll => hands.hat # "neutral"
    /\ gui.holds # {} /\ NeverLost =>
         \E c \in DeckChords : c.does = "admin" /\ c.buttons \subseteq hands.buttons

\* A paddle that SDL and the Deck's own reports both show is pressed once, in whatever
\* order the two are read (_button_actions).
EachPressCountsOnce ==
  Seen /\ SdlPaddles /\ NeverLost => \A b \in DeckButtons : owed[b] = 0

\* Hands on the controls: what they let go stops, what they press counts once.
DeckSafety == RepeatsAreHeld /\ EachPressCountsOnce

\* A button that is held while a chord takes it, like one of the halt chord, neither
\* starts nor shuts down an engine when it is released (_long_press_button_actions).
HaltNeverStarts ==
  [][\A b \in LongButtons :
       Len(batch') > Len(batch) /\ Last(batch') = Act("startup", b, TRUE)
         => b \notin together]_deckVars

\* The code does not keep this: the router drops what comes while the controls screen is
\* up, the return of a stick to its centre too, and tick does not look at the screen.
ReadingDoesNotDrive ==
  [][pc = "tick" /\ gui.controls /\ hands.sticks = {} => speed' = speed]_deckVars
\* The code does not keep this: a change of focus, the controls screen and a reconnection
\* each keep the release of a chord from the hold it started.
HoldsAreHeld ==
  Seen /\ gui.holds # {} =>
    \E c \in DeckChords : c.does = "admin" /\ c.buttons \subseteq hands.buttons
\* The code does not keep this: after a halt a stick that is still held commands the speed
\* from before.
SpeedStartsFromTheEngine == [][\A p \in DeckPanes : speed'[p] <= speed[p] + 1]_deckVars
\* The code does not keep this: an exception drops the releases behind it in the batch.
LetGoStops ==
  Seen /\ ~gui.controls => router.commands \subseteq hands.buttons /\ router.throttles \subseteq hands.sticks
=============================================================================
