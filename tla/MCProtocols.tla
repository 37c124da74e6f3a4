----------------------------- MODULE MCProtocols -----------------------------
\* The components whose protocols must never go wrong, side by side: they share no
\* state, so a behaviour is a behaviour of one of them.

EXTENDS StartupState, LaunchCountdown, ClientSync, RampedSpeed, HoldButton,
        PdiFraming, DbRefresh, CacheSync, MCDeckInput, HandThrottle, TLC

CONSTANTS aSwitch, anEngine

\* The component that this behaviour is about.
VARIABLE part

Parts == {"startup", "launch", "sync", "ramp", "hold", "frames", "refresh",
         "cache", "deck", "throttle"}

MCRosters == <<"TRAIN">>

\* One engine and one train understand Legacy commands; an engine has four digits.
MCMotives == {<<"ENGINE", <<"1">>>>, <<"ENGINE", <<"1", "1">>>>,
              <<"ENGINE", <<"1", "1", "1", "1">>>>, <<"TRAIN", <<"1">>>>}
MCLegacyOnes == {<<"ENGINE", <<"1">>>>, <<"TRAIN", <<"1">>>>}

\* The state of a switch closes its snapshot as a TMCC command, that of an engine
\* as a Base 3 record; commands throw the switch.
MCSnapshotVia == aSwitch :> "tmcc" @@ anEngine :> "pdi"
MCSwitchThrown == [tmcc |-> {aSwitch}, pdi |-> {}]

\* The real special bytes, and short requests that begin with 0x26 (BASE_MEMORY):
\* each special byte alone, 9 and 252 (with which the checksum would be SOP or
\* STF), pairs of special bytes, and special bytes among others.
BaseMemory == 38
MCPayloads ==
    {<<BaseMemory>> \o data : data \in
        {<<b>> : b \in Special \union {9, 252}}
            \union {<<STF, SOP>>, <<STF, STF>>, <<EOP, 1>>, <<SOP, EOP>>, <<64, STF>>,
                    <<1, STF, 3>>, <<STF, 66, EOP>>}}

partVars == <<part, vars, launchVars, clientSyncVars, rampVars, holdVars,
             frameVars, refreshVars, cacheVars, deckVars, handVars>>

\* The chosen component moves; the others stay as they start.
Moves(p) ==
    /\ part = p /\ UNCHANGED part
    /\ p # "startup" => UNCHANGED vars
    /\ p # "launch" => UNCHANGED launchVars
    /\ p # "sync" => UNCHANGED clientSyncVars
    /\ p # "ramp" => UNCHANGED rampVars
    /\ p # "hold" => UNCHANGED holdVars
    /\ p # "frames" => UNCHANGED frameVars
    /\ p # "refresh" => UNCHANGED refreshVars
    /\ p # "cache" => UNCHANGED cacheVars
    /\ p # "deck" => UNCHANGED deckVars
    /\ p # "throttle" => UNCHANGED handVars

\* Of the components that may start in several states, those that stay take one.
PartInit ==
    /\ part \in Parts
    /\ Init
    /\ LaunchInit
    /\ SyncInit
    /\ RampInit
    /\ part # "ramp" => lastAsk = OrderOf("stop", 0, CHOOSE n \in RampNodes : TRUE)
    /\ HoldInit
    /\ part # "hold" => button.callbacks = {"press"}
    /\ FrameInit
    /\ part # "frames" => wire = <<>>
    /\ RefreshInit
    /\ CacheInit
    /\ DeckInit
    /\ HandInit

PartNext ==
    \/ Moves("startup") /\ Next
    \/ Moves("launch") /\ LaunchNext
    \/ Moves("sync") /\ SyncNext
    \/ Moves("ramp") /\ RampNext
    \/ Moves("hold") /\ HoldNext
    \/ Moves("frames") /\ FrameNext
    \/ Moves("refresh") /\ RefreshNext
    \/ Moves("cache") /\ CacheNext
    \/ Moves("deck") /\ DeckNext
    \/ Moves("throttle") /\ HandNext

PartSpec == PartInit /\ [][PartNext]_partVars

-----------------------------------------------------------------------------
\* The state of the component that moves has its type.
ProtocolTypes ==
    /\ part = "startup" => TypeOK
    /\ part = "launch" => LaunchTypeOK
    /\ part = "sync" => SyncTypeOK
    /\ part = "ramp" => RampTypeOK
    /\ part = "hold" => HoldTypeOK
    /\ part = "frames" => FrameTypeOK
    /\ part = "refresh" => RefreshTypeOK
    /\ part = "cache" => CacheTypeOK
    /\ part = "deck" => DeckTypeOK
    /\ part = "throttle" => HandTypeOK
==============================================================================
