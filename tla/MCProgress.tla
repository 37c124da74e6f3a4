----------------------------- MODULE MCProgress -----------------------------
\* The components whose threads must make progress, side by side: they share no
\* state, so a behaviour is a behaviour of one of them.

EXTENDS StateWatch, Base3Link, ClientRegistry, TmccFraming, CommandQueue,
        AtcBlocks, EngineImages, TLC

\* The component that this behaviour is about.
VARIABLE part

Parts == {"watch", "link", "registry", "tmcc", "queue", "atc", "images"}

ApartHeads ==
    CHOOSE h \in [Trains -> Blocks \X {0}] : \A t, u \in Trains : t # u => h[t] # h[u]

\* The train is led by an engine that the user does not choose by itself.
MCLeadOf == CHOOSE lead \in [PicTrains -> PicEngines \ Selectable] : TRUE

partVars == <<part, watchVars, linkVars, registryVars, tmccVars, queueVars,
             atcVars, imagesVars>>

\* The chosen component moves; the others stay as they start.
Moves(p) ==
    /\ part = p /\ UNCHANGED part
    /\ p # "watch" => UNCHANGED watchVars
    /\ p # "link" => UNCHANGED linkVars
    /\ p # "registry" => UNCHANGED registryVars
    /\ p # "tmcc" => UNCHANGED tmccVars
    /\ p # "queue" => UNCHANGED queueVars
    /\ p # "atc" => UNCHANGED atcVars
    /\ p # "images" => UNCHANGED imagesVars

\* Of the components that may start in several states, those that stay take one.
PartInit ==
    /\ part \in Parts
    /\ WatchInit
    /\ LinkInit
    /\ RegistryInit
    /\ TmccInit
    /\ part # "tmcc" => tDeque = Dots(0)
    /\ QueueInit
    /\ AtcInit
    /\ part # "atc" => head = ApartHeads
    /\ ImagesInit
    /\ part # "images" => gui.untagged = {}

PartNext ==
    \/ Moves("watch") /\ WatchNext
    \/ Moves("link") /\ LinkNext
    \/ Moves("registry") /\ RegistryNext
    \/ Moves("tmcc") /\ TmccNext
    \/ Moves("queue") /\ QueueNext
    \/ Moves("atc") /\ AtcNext
    \/ Moves("images") /\ ImagesNext

\* The fairness of each component is what its module states.  Only one component
\* moves in a behaviour, so fairness of a disjunction that has one action of each
\* is fairness of that component's action.
Weak1 ==
    \/ Moves("watch") /\ WatcherStep
    \/ Moves("link") /\ LinkStep
    \/ Moves("registry") /\ ClientSends
    \/ Moves("tmcc") /\ ListenerStep
    \/ Moves("queue") /\ SenderStep
    \/ Moves("atc") /\ (\E t \in Trains : HeadEnters(t) \/ TailLeaves(t))
    \/ Moves("images") /\ HandleMessage
Weak2 ==
    \/ Moves("watch") /\ NotifierStep
    \/ Moves("link") /\ SendKeepAlive
    \/ Moves("registry") /\ ServerStarts
    \/ Moves("tmcc") /\ ArriveRest
    \/ Moves("atc") /\ (\E b \in Blocks : CacheMotive(b))
    \/ Moves("images") /\ LoadCustom
Weak3 ==
    \/ Moves("watch") /\ StopStep
    \/ Moves("link") /\ ComeBack
    \/ Moves("images") /\ FetchStep
Strong1 ==
    \/ Moves("link") /\ LinkTake
    \/ Moves("registry") /\ Heart
Strong2 ==
    \/ Moves("registry") /\ (\E s \in Sessions : Alive(s))

PartSpec ==
    /\ PartInit /\ [][PartNext]_partVars
    /\ WF_partVars(Weak1)
    /\ WF_partVars(Weak2)
    /\ WF_partVars(Weak3)
    /\ SF_partVars(Strong1)
    /\ SF_partVars(Strong2)

-----------------------------------------------------------------------------
\* The state of the component that moves has its type.
ProgressTypes ==
    /\ part = "watch" => WatchTypeOK
    /\ part = "link" => LinkTypeOK
    /\ part = "registry" => RegistryTypeOK
    /\ part = "tmcc" => TmccTypeOK
    /\ part = "queue" => QueueTypeOK
    /\ part = "atc" => AtcTypeOK
    /\ part = "images" => ImagesTypeOK

\* Every train keeps going (AtcBlocks), in the behaviours that are about trains.
TrainsKeepGoingRound == part = "atc" => TrainsKeepGoing
==============================================================================
