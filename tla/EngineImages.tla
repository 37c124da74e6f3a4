----------------------------- MODULE EngineImages -----------------------------
\* The picture of the chosen engine or train on the touch screens
\* (src/pytrain/gui/controller/image_presenter.py and the product information of
\* src/pytrain/gui/guizero_base.py).  The Tk thread chooses what to show, one
\* worker looks for the user's own pictures, others fetch product information,
\* and both answer by messages that the Tk thread handles later, when something else
\* may have been chosen or the caches have been cleared.  The caches and the queues of
\* the workers are one record, which the Tk thread's handlers map to the record they leave.
\*
\* Chosen engines and trains have a record of state and the lead of a train is an
\* engine.  Product information is looked up by Bluetooth id; an engine may have none.

EXTENDS Integers, FiniteSets, Sequences

CONSTANTS
    PicEngines,     \* engines
    PicTrains,      \* trains; they show the picture of their lead engine
    LeadOf,         \* [PicTrains -> PicEngines], head_tmcc_id
    Selectable,        \* what the user chooses in this behaviour
    Nothing,        \* nothing chosen: the keypad is waiting for a number
    FetchWorkers,   \* max_workers of the host's executor
    Choosings,      \* bound: choices the user makes
    ImageClears,    \* bound: presses of the button that clears the caches
    FetchFailures   \* bound: product images that cannot be had, or read

ASSUME ImagesAssumption ==
    /\ LeadOf \in [PicTrains -> PicEngines]
    /\ Selectable \subseteq PicEngines \union PicTrains
    /\ PicEngines \intersect PicTrains = {}
    /\ Nothing \notin PicEngines \union PicTrains
    /\ FetchWorkers \in Nat \ {0} /\ {Choosings, ImageClears, FetchFailures} \subseteq Nat

Picks == PicEngines \union PicTrains
LeadEngine(p) == IF p \in PicTrains THEN LeadOf[p] ELSE p

Picture(e, source) == [of |-> e, source |-> source]
Blank == Picture(Nothing, "blank")       \* no picture
Loading == Picture(Nothing, "loading")   \* loading_image
Pictures == [of : PicEngines, source : {"custom", "product", "generic"}]

\* A task is about an engine, for the pick that wanted it; it answers by a message.
Task(e, p) == [engine |-> e, pick |-> p]
Tasks == [engine : PicEngines, pick : Picks]
Message(what, task, found) == [what |-> what, task |-> task, found |-> found]

VARIABLES
    gui,            \* what is chosen and shown, the caches, the executors' queues
    asking,         \* tasks of _fetch_prod_info at work
    pendingProds,   \* _pending_prod_infos
    tkMessages,     \* _message_queue
    choosingsLeft,
    clearsLeft,
    unfetched       \* engines whose fetch has raised

imagesVars == <<gui, asking, pendingProds, tkMessages, choosingsLeft, clearsLeft, unfetched>>

ImagesTypeOK ==
    /\ gui \in [chosen : Selectable \union {Nothing},
                shown : Pictures \union {Blank, Loading},
                images : [Picks -> Pictures \union {Blank}],          \* _image_cache
                prods : [PicEngines -> {"none", "future", "empty", "failed", "info", "N/A"}],
                fetches : Seq(Tasks),                                 \* of the host's executor
                checked : SUBSET PicEngines,                          \* _checked_for_custom_images
                looking : SUBSET PicEngines,                          \* _pending_custom_images
                lookups : Seq(Tasks),                                 \* of the presenter's executor
                untagged : SUBSET PicEngines]                         \* without a Bluetooth id
    /\ asking \subseteq Tasks /\ Cardinality(asking) <= FetchWorkers
    /\ pendingProds \subseteq PicEngines
    /\ tkMessages \in Seq([what : {"product", "custom"}, task : Tasks, found : BOOLEAN])
    /\ choosingsLeft \in 0 .. Choosings /\ clearsLeft \in 0 .. ImageClears
    /\ unfetched \subseteq PicEngines

ImagesInit ==
    /\ \E ids \in SUBSET PicEngines :
         gui = [chosen |-> Nothing, shown |-> Blank, images |-> [p \in Picks |-> Blank],
                untagged |-> ids, prods |-> [e \in PicEngines |-> "none"], fetches |-> <<>>,
                checked |-> {}, looking |-> {}, lookups |-> <<>>]
    /\ asking = {} /\ pendingProds = {} /\ tkMessages = <<>>
    /\ choosingsLeft = Choosings /\ clearsLeft = ImageClears /\ unfetched = {}

-----------------------------------------------------------------------------
\* The presenter.  A picture is shown if what it is for is what is chosen.
ShowFor(g, p, picture) == IF g.chosen = p THEN [g EXCEPT !.shown = picture] ELSE g
\* A picture found for an engine on behalf of a train is kept as the train's, too.
KeepFor(g, p, picture) == [g EXCEPT !.images[p] = picture]

LookUp(g, e, p) ==
    IF e \in g.looking THEN g
    ELSE [g EXCEPT !.looking = @ \union {e}, !.lookups = Append(@, Task(e, p))]

GenericFor(g, e, p) ==
    LET generic == Picture(e, "generic")
    IN ShowFor(KeepFor(KeepFor(g, e, generic), p, generic), p, generic)

\* get_prod_info: a future that holds no information is taken for an answer, and
\* the result of one that failed raises.
AskProduct(g, e, p) ==
    CASE g.prods[e] = "none" /\ e \notin g.untagged ->
           ShowFor(IF e \in pendingProds THEN g
                   ELSE [g EXCEPT !.prods[e] = "future", !.fetches = Append(@, Task(e, p))],
                   e, Loading)
      [] g.prods[e] = "none" /\ e \in g.untagged -> GenericFor([g EXCEPT !.prods[e] = "N/A"], e, p)
      [] g.prods[e] = "info" -> [g EXCEPT !.shown = Blank]
      [] g.prods[e] = "failed" -> g
      [] OTHER -> GenericFor(g, e, p)

UpdateEngine(g, e, p) ==
    IF g.images[e] # Blank THEN ShowFor(KeepFor(g, p, g.images[e]), p, g.images[e])
    ELSE IF e \notin g.checked THEN LookUp(g, e, p)
    ELSE AskProduct(g, e, p)

UpdatePicture(g) ==
    LET p == g.chosen
    IN IF p = Nothing THEN [g EXCEPT !.shown = Blank]
       ELSE IF g.images[p] # Blank THEN ShowFor(g, p, g.images[p])
       ELSE UpdateEngine(g, LeadEngine(p), p)

\* A callback names the engine, and the train it was looked for.
Relevant(g, task) ==
    \/ g.chosen \in PicEngines /\ g.chosen = task.engine
    \/ g.chosen \in PicTrains /\ g.chosen = task.pick
CallBack(g, task) == IF Relevant(g, task) THEN UpdateEngine(g, task.engine, task.pick) ELSE g

-----------------------------------------------------------------------------
\* The Tk thread.
Choose(p) ==
    /\ p # gui.chosen \/ gui.shown = Blank
    /\ choosingsLeft > 0 /\ choosingsLeft' = choosingsLeft - 1
    /\ gui' = UpdatePicture([gui EXCEPT !.chosen = p])
    /\ UNCHANGED <<asking, pendingProds, tkMessages, clearsLeft, unfetched>>

ClearImages ==
    /\ clearsLeft > 0 /\ clearsLeft' = clearsLeft - 1
    /\ gui' = [gui EXCEPT !.images = [p \in Picks |-> Blank], !.checked = {}, !.looking = {},
                          !.prods = [e \in PicEngines |-> "none"]]
    /\ UNCHANGED <<asking, pendingProds, tkMessages, choosingsLeft, unfetched>>

Learn(g, m) ==
    LET e == m.task.engine
        g1 == IF m.found THEN KeepFor(g, e, Picture(e, m.what)) ELSE g
    IN IF m.what = "product" THEN g1
       ELSE [g1 EXCEPT !.looking = @ \ {e}, !.checked = @ \union {e}]

HandleMessage ==
    /\ tkMessages # <<>>
    /\ gui' = CallBack(Learn(gui, Head(tkMessages)), Head(tkMessages).task)
    /\ tkMessages' = Tail(tkMessages)
    /\ UNCHANGED <<asking, pendingProds, choosingsLeft, clearsLeft, unfetched>>

\* The presenter's worker: a file of the user's own may be there or not.
LoadCustom ==
    /\ gui.lookups # <<>>
    /\ gui' = [gui EXCEPT !.lookups = Tail(@)]
    /\ \E found \in BOOLEAN :
         tkMessages' = Append(tkMessages, Message("custom", Head(gui.lookups), found))
    /\ UNCHANGED <<asking, pendingProds, choosingsLeft, clearsLeft, unfetched>>

\* A worker of the host takes a fetch; one that another is at leaves it to that one.
\* The future in the cache is that of the engine's last task.
NoneOf(e, tasks) == \A i \in 1 .. Len(tasks) : tasks[i].engine # e

StartFetch ==
    /\ gui.fetches # <<>> /\ Cardinality(asking) < FetchWorkers
    /\ LET task == Head(gui.fetches)
           e == task.engine
           taken == [gui EXCEPT !.fetches = Tail(@)]
           isLast == taken.prods[e] = "future" /\ NoneOf(e, taken.fetches)
       IN IF e \in pendingProds
          THEN /\ gui' = IF isLast THEN [taken EXCEPT !.prods[e] = "empty"] ELSE taken
               /\ tkMessages' = Append(tkMessages, Message("product", task, FALSE))
               /\ UNCHANGED <<asking, pendingProds>>
          ELSE /\ gui' = taken
               /\ asking' = asking \union {task}
               /\ pendingProds' = pendingProds \union {e}
               /\ UNCHANGED tkMessages
    /\ UNCHANGED <<choosingsLeft, clearsLeft, unfetched>>

\* Mutant: it stays pending.
MutFetched(task, found) ==
    /\ task \in asking /\ asking' = asking \ {task}
    /\ gui' = [gui EXCEPT !.prods[task.engine] = IF found THEN "info" ELSE "N/A"]
    /\ tkMessages' = Append(tkMessages, Message("product", task, found))
    /\ UNCHANGED <<pendingProds, choosingsLeft, clearsLeft, unfetched>>

\* What was found is cached and no longer pending; the picture goes with the message.
Fetched(task, found) ==
    /\ task \in asking /\ asking' = asking \ {task}
    /\ gui' = [gui EXCEPT !.prods[task.engine] = IF found THEN "info" ELSE "N/A"]
    /\ pendingProds' = pendingProds \ {task.engine}
    /\ tkMessages' = Append(tkMessages, Message("product", task, found))
    /\ UNCHANGED <<choosingsLeft, clearsLeft, unfetched>>

\* The picture's download or preparation raises: the engine stays pending.
FetchFails(task) ==
    /\ task \in asking /\ asking' = asking \ {task}
    /\ Cardinality(unfetched) < FetchFailures /\ unfetched' = unfetched \union {task.engine}
    /\ LET e == task.engine
       IN gui' = IF gui.prods[e] = "future" /\ NoneOf(e, gui.fetches)
                 THEN [gui EXCEPT !.prods[e] = "failed"] ELSE gui
    /\ UNCHANGED <<pendingProds, tkMessages, choosingsLeft, clearsLeft>>

FetchOf(e) ==
    \E task \in asking :
      task.engine = e /\ (FetchFails(task) \/ \E found \in BOOLEAN : Fetched(task, found))

FetchStep == StartFetch \/ \E e \in PicEngines : FetchOf(e)

ImagesNext ==
    \/ \E p \in Selectable \union {Nothing} : Choose(p)
    \/ ClearImages \/ HandleMessage \/ LoadCustom \/ FetchStep

\* The Tk thread and the executors keep going; of a fetch nothing more is assumed
\* than that some worker makes the next step, for only so many are ever asked for.
ImagesSpec ==
    /\ ImagesInit /\ [][ImagesNext]_imagesVars
    /\ WF_imagesVars(HandleMessage) /\ WF_imagesVars(LoadCustom) /\ WF_imagesVars(FetchStep)

-----------------------------------------------------------------------------
Shows(p) == gui.shown \in Pictures /\ gui.shown.of = LeadEngine(p)

\* What PicturesArrive rests on: while what is chosen does not show a picture of its own,
\* a lookup, a fetch or a message about its engine is under way; and while it does not
\* show the product's picture that was found, the message that tells of it is.
Elements(tasks) == {tasks[i] : i \in 1 .. Len(tasks)}
UnderWay(e) ==
    \E task \in Elements(gui.lookups) \cup Elements(gui.fetches) \cup asking
                  \cup {m.task : m \in Elements(tkMessages)} : task.engine = e

PictureIsOnItsWay ==
    \A p \in Selectable : gui.chosen = p =>
      LET e == LeadEngine(p)
      IN /\ Shows(p) \/ e \in unfetched \/ UnderWay(e)
         /\ p \in PicEngines /\ gui.prods[e] = "info" =>
              \/ Shows(p) /\ gui.shown.source # "generic"
              \/ \E m \in Elements(tkMessages) : m.what = "product" /\ m.found /\ m.task.engine = e

\* What the user rests on is shown before long by a picture of its own ("Image should
\* have been cached", image_presenter.py:132), and by the product's once that is known of
\* an engine, whatever was chosen, cleared or looked for meanwhile.  It is claimed of
\* choices no two of which show the same engine; see the README for those that do.
\* A picture that could not be had leaves its engine pending for good: not of those.
PicturesArrive ==
    \A p \in Selectable :
      LET e == LeadEngine(p)
      IN /\ (gui.chosen = p) ~> (gui.chosen # p \/ Shows(p) \/ e \in unfetched)
         /\ p \in PicEngines =>
              (gui.chosen = p /\ gui.prods[e] = "info")
                ~> \/ gui.chosen # p \/ gui.prods[e] # "info" \/ e \in unfetched
                   \/ Shows(p) /\ gui.shown.source # "generic"
==============================================================================
