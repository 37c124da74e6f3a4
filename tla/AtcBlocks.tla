------------------------------ MODULE AtcBlocks ------------------------------
\* Automatic train control (src/pytrain/atc/block.py): a ring of blocks, each
\* with a sensor track that reads which train enters and three track sections
\* (enter, slow, stop) whose buttons are active while a train is on them.  A
\* block slows and then stops its train while the next block is occupied, and is
\* told by the next block when that one is clear.  Buttons are answered at once;
\* what the sensor track reads arrives over the network and is taken up by a
\* watcher's thread (db/state_watcher.py) some time later.
\* Trains run in the direction of the blocks and are shorter than a section.

EXTENDS Integers, FiniteSets

CONSTANTS
    BlockCount,     \* blocks of the ring
    Trains,
    NoTrain,        \* no motive known
    SensorIsPrompt  \* TRUE: a block knows its train before it is on the slow section

ASSUME AtcAssumption ==
    /\ BlockCount \in Nat /\ IsFiniteSet(Trains)
    /\ Cardinality(Trains) < BlockCount
    /\ NoTrain \notin Trains
    /\ SensorIsPrompt \in BOOLEAN

Blocks == 0 .. BlockCount - 1
Places == 0 .. 2                \* the enter, slow and stop section of a block
Sections == Blocks \X Places
Stopped == 0
Restricted == 1
Full == 2
Unset == 3     \* _original_speed is None

VARIABLES
    head,      \* [Trains -> the section its head is on]
    across,    \* [Trains -> TRUE while its tail is still on the section before]
    trainSpeed,\* [Trains -> Stopped, Restricted or Full]
    motive,    \* _current_motive, and with it _motive_direction
    original,  \* _original_speed
    lastRead,  \* what the block's sensor track read last
    readDue    \* TRUE: the watcher has that reading still to take up

atcVars == <<head, across, trainSpeed, motive, original, lastRead, readDue>>

AtcTypeOK ==
    /\ head \in [Trains -> Sections]
    /\ across \in [Trains -> BOOLEAN]
    /\ trainSpeed \in [Trains -> {Stopped, Restricted, Full}]
    /\ motive \in [Blocks -> Trains \cup {NoTrain}]
    /\ original \in [Blocks -> {Stopped, Restricted, Full, Unset}]
    /\ lastRead \in [Blocks -> Trains \cup {NoTrain}]
    /\ readDue \in [Blocks -> BOOLEAN]

-----------------------------------------------------------------------------
BlockOf(s) == s[1]
Place(s) == s[2]
NextBlock(b) == IF b = BlockCount - 1 THEN 0 ELSE b + 1
PrevBlock(b) == IF b = 0 THEN BlockCount - 1 ELSE b - 1
SectionAfter(s) ==
    IF Place(s) = 2 THEN <<NextBlock(BlockOf(s)), 0>> ELSE <<BlockOf(s), Place(s) + 1>>
SectionBefore(s) ==
    IF Place(s) = 0 THEN <<PrevBlock(BlockOf(s)), 2>> ELSE <<BlockOf(s), Place(s) - 1>>

\* Sections a train is on: their buttons are active.
OnSections(h, a, t) == {h[t]} \cup (IF a[t] THEN {SectionBefore(h[t])} ELSE {})
BlocksOf(t) == {BlockOf(s) : s \in OnSections(head, across, t)}

\* is_occupied: the motive is known, or a button of the block is active.
IsOccupied(b, h, a, mot) ==
    \/ mot[b] # NoTrain
    \/ \E t \in Trains : \E s \in OnSections(h, a, t) : BlockOf(s) = b

\* slow_down(): the speed to come back to is noted in any case.
SlowDown(b, speeds) ==
    IF motive[b] = NoTrain THEN <<speeds, original>>
    ELSE <<[speeds EXCEPT ![motive[b]] = IF @ > Restricted THEN Restricted ELSE @],
           [original EXCEPT ![b] = speeds[motive[b]]]>>

\* stop_immediate() for a known motive.  The other branch stops every engine,
\* but signal_stop_enter() asks for it only when the motive's direction is known.
StopImmediate(b, speeds) ==
    IF motive[b] = NoTrain THEN <<speeds, original>>
    ELSE <<[speeds EXCEPT ![motive[b]] = Stopped],
           [original EXCEPT ![b] = IF @ = Unset THEN speeds[motive[b]] ELSE @]>>

\* Mutant: a block stops its train for a next block it knows the motive of only.
MutSignal(b, k, h, a) ==
    IF motive[NextBlock(b)] = NoTrain THEN <<trainSpeed, original>>
    ELSE IF k = 1 THEN SlowDown(b, trainSpeed)
    ELSE StopImmediate(b, trainSpeed)

\* signal_slow_enter() and signal_stop_enter(): sections 1 and 2 of a block.
\* (A block's next block is occupied while any part of a train is on it.)
Signal(b, k, h, a) ==
    IF ~IsOccupied(NextBlock(b), h, a, motive) THEN <<trainSpeed, original>>
    ELSE IF k = 1 THEN SlowDown(b, trainSpeed)
    ELSE StopImmediate(b, trainSpeed)

\* The head of a train comes to the next section.  signal_occupied_exit(), which
\* the enter button calls when it becomes active, changes nothing for a train in
\* the direction of the block.
HeadEnters(t) ==
    LET s == SectionAfter(head[t])
        b == BlockOf(s)
        k == Place(s)
        h == [head EXCEPT ![t] = s]
        a == [across EXCEPT ![t] = TRUE]
    IN
    /\ trainSpeed[t] # Stopped
    /\ ~across[t]
    /\ (SensorIsPrompt /\ k = 1 => ~readDue[b])
    /\ head' = h
    /\ across' = a
    /\ \/ /\ k = 0
          /\ lastRead' = [lastRead EXCEPT ![b] = t]
          /\ readDue' = [readDue EXCEPT ![b] = TRUE]
          /\ UNCHANGED <<trainSpeed, original>>
       \/ /\ k # 0
          /\ trainSpeed' = Signal(b, k, h, a)[1]
          /\ original' = Signal(b, k, h, a)[2]
          /\ UNCHANGED <<lastRead, readDue>>
    /\ UNCHANGED motive

\* Mutant: the block before is told before the block is cleared.
MutLeft(b, a) ==
    LET p == PrevBlock(b)
        resumes == motive[p] # NoTrain /\ original[p] \notin {Unset, Stopped}
                   /\ ~IsOccupied(b, head, a, motive)
    IN
    /\ motive' = [motive EXCEPT ![b] = NoTrain]
    /\ original' = [original EXCEPT ![b] = Unset]
    /\ trainSpeed' = IF resumes THEN [trainSpeed EXCEPT ![motive[p]] = original[p]]
                     ELSE trainSpeed

\* signal_stop_exit(): clear_block_info(), then next_block_clear() and
\* resume_speed() of the block before.
Left(b, a) ==
    LET p == PrevBlock(b)
        cleared == [motive EXCEPT ![b] = NoTrain]
        resumes == motive[p] # NoTrain /\ original[p] \notin {Unset, Stopped}
                   /\ ~IsOccupied(b, head, a, cleared)
    IN
    /\ motive' = cleared
    /\ original' = [original EXCEPT ![b] = Unset]
    /\ trainSpeed' = IF resumes THEN [trainSpeed EXCEPT ![motive[p]] = original[p]]
                     ELSE trainSpeed

TailLeaves(t) ==
    LET s == SectionBefore(head[t])
        a == [across EXCEPT ![t] = FALSE]
    IN
    /\ trainSpeed[t] # Stopped
    /\ across[t]
    /\ across' = a
    /\ \/ Place(s) = 2 /\ Left(BlockOf(s), a)
       \/ Place(s) # 2 /\ UNCHANGED <<motive, original, trainSpeed>>
    /\ UNCHANGED <<head, lastRead, readDue>>

\* _cache_motive(), called by the watcher of the sensor track.
CacheMotive(b) ==
    /\ readDue[b]
    /\ readDue' = [readDue EXCEPT ![b] = FALSE]
    /\ motive' = [motive EXCEPT ![b] = lastRead[b]]
    /\ original' = [original EXCEPT ![b] = trainSpeed[lastRead[b]]]
    /\ UNCHANGED <<head, across, trainSpeed, lastRead>>

\* Trains start on the enter sections of blocks that know them.
AtcInit ==
    /\ head \in {h \in [Trains -> Blocks \X {0}] :
                    \A t, u \in Trains : t # u => h[t] # h[u]}
    /\ across = [t \in Trains |-> FALSE]
    /\ trainSpeed = [t \in Trains |-> Full]
    /\ motive = [b \in Blocks |->
                    IF \E t \in Trains : BlockOf(head[t]) = b
                    THEN CHOOSE t \in Trains : BlockOf(head[t]) = b ELSE NoTrain]
    /\ original = [b \in Blocks |-> IF motive[b] = NoTrain THEN Unset ELSE Full]
    /\ lastRead = motive
    /\ readDue = [b \in Blocks |-> FALSE]

AtcNext ==
    \/ \E t \in Trains : HeadEnters(t) \/ TailLeaves(t)
    \/ \E b \in Blocks : CacheMotive(b)

AtcSpec ==
    /\ AtcInit /\ [][AtcNext]_atcVars
    /\ WF_atcVars(\E t \in Trains : HeadEnters(t) \/ TailLeaves(t))
    /\ WF_atcVars(\E b \in Blocks : CacheMotive(b))

-----------------------------------------------------------------------------
\* No two trains are ever in one block: a train is stopped on the stop section
\* of its block before it can reach the train ahead.  A train its block knows
\* nothing about is meant to be stopped as well ("send a stop to all engines, as
\* otherwise, we could have a crash", block.py:409).
OneTrainPerBlock ==
    \A t, u \in Trains : t # u => BlocksOf(t) \cap BlocksOf(u) = {}

\* A train that was stopped can be set going again: it stands on the stop section of a
\* block that knows it and the speed it had, and another train is in the block ahead.
StoppedTrainsWait ==
    \A t \in Trains : trainSpeed[t] = Stopped =>
        /\ Place(head[t]) = 2
        /\ motive[BlockOf(head[t])] = t
        /\ original[BlockOf(head[t])] \notin {Unset, Stopped}
        /\ \E u \in Trains : NextBlock(BlockOf(head[t])) \in BlocksOf(u)

\* The blocks never stop every train: all of them would wait for one another.
SomeTrainMoves == Trains = {} \/ \E t \in Trains : trainSpeed[t] # Stopped

\* Every train keeps going: a train that was slowed or stopped for the block
\* ahead is set going again when that block is clear.
TrainsKeepGoing == \A t \in Trains : []<>(head[t] = <<0, 0>>)
=============================================================================
