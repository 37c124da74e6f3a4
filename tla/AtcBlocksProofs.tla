---------------------------- MODULE AtcBlocksProofs ----------------------------
(***************************************************************************)
(* Theorems about AtcBlocks, for a ring of any number of blocks and any    *)
(* trains, fewer than the blocks.                                          *)
(***************************************************************************)
EXTENDS AtcBlocks, FiniteSetTheorems, WellFoundedInduction, TLAPS

-----------------------------------------------------------------------------
(* The track                                                                *)

\* A ring with a train on it has two blocks at least; each has one before and one after it.
LEMMA Ring ==
  ASSUME NEW t \in Trains, NEW b \in Blocks
  PROVE  /\ NextBlock(b) \in Blocks /\ PrevBlock(b) \in Blocks
         /\ NextBlock(b) # b /\ PrevBlock(b) # b
         /\ NextBlock(PrevBlock(b)) = b /\ PrevBlock(NextBlock(b)) = b
<1>1. Cardinality(Trains) \in Nat /\ Cardinality(Trains) # 0
  BY AtcAssumption, FS_CardinalityType, FS_EmptySet
<1>2. BlockCount \in Nat /\ BlockCount > 1
  BY <1>1, AtcAssumption
<1>3. b \in Nat /\ b < BlockCount
  BY <1>2 DEF Blocks
<1> QED
  BY <1>2, <1>3 DEF Blocks, NextBlock, PrevBlock

\* A section is a block and a place in it.
LEMMA SectionParts ==
  ASSUME NEW s \in Sections
  PROVE  BlockOf(s) \in Blocks /\ Place(s) \in {0, 1, 2} /\ s = <<BlockOf(s), Place(s)>>
  BY DEF Sections, Places, BlockOf, Place

\* The blocks of a train whose head is on section h[t].
OnBlocks(h, a, t) == {BlockOf(s) : s \in OnSections(h, a, t)}

LEMMA BlocksOfTrain ==
  ASSUME NEW h, NEW a, NEW t \in Trains, h[t] \in Sections
  PROVE  /\ a[t] /\ Place(h[t]) = 0 =>
              OnBlocks(h, a, t) = {BlockOf(h[t]), PrevBlock(BlockOf(h[t]))}
         /\ ~(a[t] /\ Place(h[t]) = 0) => OnBlocks(h, a, t) = {BlockOf(h[t])}
<1>1. Place(h[t]) = 0 => BlockOf(SectionBefore(h[t])) = PrevBlock(BlockOf(h[t]))
  BY DEF SectionBefore, BlockOf
<1>2. Place(h[t]) # 0 => BlockOf(SectionBefore(h[t])) = BlockOf(h[t])
  BY DEF SectionBefore, BlockOf
<1>3. OnBlocks(h, a, t) = {BlockOf(h[t])} \cup (IF a[t] THEN {BlockOf(SectionBefore(h[t]))} ELSE {})
  BY DEF OnBlocks, OnSections
<1> QED
  BY <1>1, <1>2, <1>3

\* A block with a train on it is occupied, whatever is known of the train.
LEMMA TrainOccupies ==
  ASSUME NEW h, NEW a, NEW mot, NEW b, NEW t \in Trains, b \in OnBlocks(h, a, t)
  PROVE  IsOccupied(b, h, a, mot)
  BY DEF IsOccupied, OnBlocks

-----------------------------------------------------------------------------
(* The inductive invariant                                                  *)


\* A reading that was not taken up is of the train whose head is on that very section.
ReadsAreFresh ==
  \A b \in Blocks : readDue[b] => lastRead[b] \in Trains /\ head[lastRead[b]] = <<b, 0>>

\* A block knows no train but the one that is in it, and knows it once the reading is taken up.
MotivesAreThere == \A b \in Blocks : motive[b] # NoTrain => b \in BlocksOf(motive[b])
TrainsAreKnown ==
  \A t \in Trains : \A b \in BlocksOf(t) :
    motive[b] = t \/ (b = BlockOf(head[t]) /\ readDue[b])

\* A train that moves on the last section of its block has a clear block ahead.
AheadIsClear ==
  \A t, u \in Trains :
    Place(head[t]) = 2 /\ trainSpeed[t] # Stopped => NextBlock(BlockOf(head[t])) \notin BlocksOf(u)

AtcInvariant ==
  /\ AtcTypeOK /\ OneTrainPerBlock /\ ReadsAreFresh /\ MotivesAreThere /\ TrainsAreKnown /\ AheadIsClear

\* A train past the first section of its block is known to the block.
LEMMA KnownPastTheSensor ==
  ASSUME AtcInvariant, NEW t \in Trains, Place(head[t]) # 0
  PROVE  motive[BlockOf(head[t])] = t /\ ~readDue[BlockOf(head[t])]
<1> DEFINE b == BlockOf(head[t])
<1>1. b \in Blocks /\ b \in BlocksOf(t)
  BY SectionParts DEF AtcInvariant, AtcTypeOK, BlocksOf, OnSections
<1>2. ~readDue[b]
  <2> SUFFICES ASSUME readDue[b] PROVE FALSE
    OBVIOUS
  <2>1. lastRead[b] \in Trains /\ head[lastRead[b]] = <<b, 0>>
    BY <1>1 DEF AtcInvariant, ReadsAreFresh
  <2>2. b \in BlocksOf(lastRead[b]) /\ Place(head[lastRead[b]]) = 0
    BY <2>1 DEF BlocksOf, OnSections, BlockOf, Place
  <2>3. lastRead[b] = t
    BY <1>1, <2>1, <2>2 DEF AtcInvariant, OneTrainPerBlock
  <2> QED
    BY <2>2, <2>3
<1> QED
  BY <1>1, <1>2 DEF AtcInvariant, TrainsAreKnown

-----------------------------------------------------------------------------
LEMMA AtcInitInvariant == AtcInit => AtcInvariant
<1> SUFFICES ASSUME AtcInit PROVE AtcInvariant
  OBVIOUS
<1>1. /\ head \in [Trains -> Blocks \X {0}]
      /\ \A t, u \in Trains : t # u => head[t] # head[u]
      /\ across = [t \in Trains |-> FALSE]
  BY DEF AtcInit
<1>2. \A t \in Trains : /\ head[t] \in Sections /\ Place(head[t]) = 0
                        /\ BlockOf(head[t]) \in Blocks
                        /\ head[t] = <<BlockOf(head[t]), 0>>
  BY <1>1 DEF Sections, Places, BlockOf, Place
<1>3. \A t \in Trains : BlocksOf(t) = {BlockOf(head[t])}
  BY <1>1, <1>2 DEF BlocksOf, OnSections
<1>4. \A t, u \in Trains : t # u => BlockOf(head[t]) # BlockOf(head[u])
  BY <1>1, <1>2
<1>5. OneTrainPerBlock
  BY <1>3, <1>4 DEF OneTrainPerBlock
<1>6. motive = [b \in Blocks |->
                  IF \E t \in Trains : BlockOf(head[t]) = b
                  THEN CHOOSE t \in Trains : BlockOf(head[t]) = b ELSE NoTrain]
  BY DEF AtcInit
<1>7. ASSUME NEW b \in Blocks
      PROVE  \/ motive[b] = NoTrain
             \/ motive[b] \in Trains /\ BlockOf(head[motive[b]]) = b
  BY <1>6
<1>8. motive \in [Blocks -> Trains \cup {NoTrain}]
  BY <1>6
<1>9. MotivesAreThere
  BY <1>3, <1>7 DEF MotivesAreThere
<1>10. TrainsAreKnown
  <2> SUFFICES ASSUME NEW t \in Trains PROVE motive[BlockOf(head[t])] = t
    BY <1>3 DEF TrainsAreKnown
  <2> DEFINE u == CHOOSE u \in Trains : BlockOf(head[u]) = BlockOf(head[t])
  <2>1. u \in Trains /\ BlockOf(head[u]) = BlockOf(head[t])
    OBVIOUS
  <2>2. motive[BlockOf(head[t])] = u
    BY <1>2, <1>6
  <2> QED
    BY <1>4, <2>1, <2>2
<1>11. AtcTypeOK
  <2>1. head \in [Trains -> Sections]
    BY <1>1, <1>2
  <2>2. trainSpeed = [t \in Trains |-> Full] /\ readDue = [b \in Blocks |-> FALSE]
        /\ lastRead = motive
        /\ original = [b \in Blocks |-> IF motive[b] = NoTrain THEN Unset ELSE Full]
    BY DEF AtcInit
  <2>3. original \in [Blocks -> {Stopped, Restricted, Full, Unset}]
    BY <2>2
  <2> QED
    BY <1>1, <1>8, <2>1, <2>2, <2>3 DEF AtcTypeOK
<1>12. ReadsAreFresh /\ AheadIsClear
  BY <1>2 DEF AtcInit, ReadsAreFresh, AheadIsClear
<1> QED
  BY <1>5, <1>9, <1>10, <1>11, <1>12 DEF AtcInvariant

-----------------------------------------------------------------------------
(* A train's head comes to the next section                                 *)

LEMMA HeadEntersBlock ==
  ASSUME AtcInvariant, NEW t \in Trains, HeadEnters(t), Place(head[t]) = 2
  PROVE  AtcInvariant'
<1> DEFINE c == BlockOf(head[t])
           b == NextBlock(c)
<1> USE DEF AtcInvariant
<1>1. /\ head \in [Trains -> Sections] /\ across \in [Trains -> BOOLEAN]
      /\ c \in Blocks /\ b \in Blocks /\ b # c /\ PrevBlock(b) = c
  BY Ring, SectionParts DEF AtcTypeOK
<1>2. SectionAfter(head[t]) = <<b, 0>> /\ <<b, 0>> \in Sections
      /\ BlockOf(<<b, 0>>) = b /\ Place(<<b, 0>>) = 0
  BY <1>1 DEF SectionAfter, Sections, Places, BlockOf, Place
<1>3. /\ trainSpeed[t] # Stopped /\ ~across[t]
      /\ head' = [head EXCEPT ![t] = <<b, 0>>] /\ across' = [across EXCEPT ![t] = TRUE]
      /\ lastRead' = [lastRead EXCEPT ![b] = t] /\ readDue' = [readDue EXCEPT ![b] = TRUE]
      /\ UNCHANGED <<trainSpeed, original, motive>>
  BY <1>2 DEF HeadEnters
<1>4. BlocksOf(t) = {c} /\ BlocksOf(t)' = {b, c}
  <2>1. OnBlocks(head, across, t) = {c}
    BY <1>1, <1>3, BlocksOfTrain
  <2>2. head'[t] = <<b, 0>> /\ across'[t] = TRUE
    BY <1>1, <1>3
  <2>3. OnBlocks(head', across', t) = {b, c}
    BY <1>1, <1>2, <2>2, BlocksOfTrain
  <2> QED
    BY <2>1, <2>3 DEF BlocksOf, OnBlocks
<1>5. \A u \in Trains : u # t => BlocksOf(u)' = BlocksOf(u) /\ head'[u] = head[u]
  BY <1>1, <1>3 DEF BlocksOf, OnSections
<1>6. AtcTypeOK'
  BY <1>1, <1>2, <1>3 DEF AtcTypeOK
<1>7. \A u \in Trains : b \notin BlocksOf(u)
  BY <1>3 DEF AheadIsClear
<1>8. OneTrainPerBlock'
  BY <1>4, <1>5, <1>7 DEF OneTrainPerBlock
<1>9. ReadsAreFresh'
  <2> SUFFICES ASSUME NEW d \in Blocks, readDue'[d]
               PROVE  lastRead'[d] \in Trains /\ head'[lastRead'[d]] = <<d, 0>>
    BY DEF ReadsAreFresh
  <2>1. CASE d = b
    BY <1>1, <1>3, <2>1 DEF AtcTypeOK
  <2>2. CASE d # b
    <3>1. readDue[d] /\ lastRead'[d] = lastRead[d]
      BY <1>3, <2>2 DEF AtcTypeOK
    <3>2. lastRead[d] \in Trains /\ head[lastRead[d]] = <<d, 0>>
      BY <3>1 DEF ReadsAreFresh
    <3>3. lastRead[d] # t
      BY <3>2 DEF Place
    <3> QED
      BY <1>5, <3>1, <3>2, <3>3
  <2> QED
    BY <2>1, <2>2
<1>10. MotivesAreThere'
  BY <1>3, <1>4, <1>5 DEF MotivesAreThere, AtcTypeOK
<1>11. TrainsAreKnown'
  <2> SUFFICES ASSUME NEW u \in Trains, NEW d \in BlocksOf(u)'
               PROVE  motive[d] = u \/ (d = BlockOf(head'[u]) /\ readDue'[d])
    BY <1>3 DEF TrainsAreKnown
  <2>1. CASE u # t
    <3>1. motive[d] = u \/ (d = BlockOf(head[u]) /\ readDue[d])
      BY <1>5, <2>1 DEF TrainsAreKnown
    <3> QED
      BY <1>3, <1>5, <2>1, <3>1 DEF AtcTypeOK
  <2>2. CASE u = t /\ d = c
    BY <2>2, KnownPastTheSensor
  <2>3. CASE u = t /\ d = b
    BY <1>1, <1>2, <1>3, <2>3 DEF AtcTypeOK
  <2> QED
    BY <1>4, <2>1, <2>2, <2>3
<1>12. AheadIsClear'
  <2> SUFFICES ASSUME NEW v \in Trains, NEW u \in Trains, Place(head'[v]) = 2,
                      trainSpeed[v] # Stopped
               PROVE  NextBlock(BlockOf(head'[v])) \notin BlocksOf(u)'
    BY <1>3 DEF AheadIsClear
  <2>1. v # t /\ head'[v] = head[v]
    BY <1>1, <1>2, <1>3, <1>5
  <2>2. NextBlock(BlockOf(head[v])) \notin BlocksOf(u) /\ NextBlock(BlockOf(head[v])) # c
    BY <1>4, <2>1 DEF AheadIsClear
  <2>3. NextBlock(BlockOf(head[v])) # b
    <3>1. BlockOf(head[v]) \in Blocks /\ BlockOf(head[v]) \in BlocksOf(v)
      BY <1>1, SectionParts DEF BlocksOf, OnSections
    <3>2. BlockOf(head[v]) # c
      BY <1>4, <2>1, <3>1 DEF OneTrainPerBlock
    <3>3. PrevBlock(NextBlock(BlockOf(head[v]))) = BlockOf(head[v])
      BY <3>1, Ring
    <3> QED
      BY <1>1, <3>2, <3>3
  <2> QED
    BY <1>4, <1>5, <2>1, <2>2, <2>3
<1> QED
  BY <1>6, <1>8, <1>9, <1>10, <1>11, <1>12

\* What the two last sections signal has the types of speeds, and starts no train.
LEMMA SignalBrakes ==
  ASSUME AtcInvariant, NEW b \in Blocks, NEW k \in {1, 2}, NEW h, NEW a
  PROVE  /\ Signal(b, k, h, a)[1] \in [Trains -> {Stopped, Restricted, Full}]
         /\ Signal(b, k, h, a)[2] \in [Blocks -> {Stopped, Restricted, Full, Unset}]
         /\ \A t \in Trains : Signal(b, k, h, a)[1][t] # Stopped => trainSpeed[t] # Stopped
         /\ k = 2 /\ motive[b] \in Trains /\ IsOccupied(NextBlock(b), h, a, motive)
              => Signal(b, k, h, a)[1][motive[b]] = Stopped
<1> USE AtcAssumption DEF Stopped, Restricted, Full, Unset
<1>1. /\ trainSpeed \in [Trains -> {Stopped, Restricted, Full}]
      /\ original \in [Blocks -> {Stopped, Restricted, Full, Unset}]
      /\ motive[b] \in Trains \cup {NoTrain}
  BY DEF AtcInvariant, AtcTypeOK
<1>2. CASE motive[b] = NoTrain
  <2>1. SlowDown(b, trainSpeed) = <<trainSpeed, original>>
        /\ StopImmediate(b, trainSpeed) = <<trainSpeed, original>>
    BY <1>2 DEF SlowDown, StopImmediate
  <2>2. Signal(b, k, h, a) = <<trainSpeed, original>>
    BY <2>1 DEF Signal
  <2> QED
    BY <1>1, <1>2, <2>2
<1>3. CASE motive[b] \in Trains
  <2> DEFINE m == motive[b]
             slowed == [trainSpeed EXCEPT ![m] = IF @ > Restricted THEN Restricted ELSE @]
             noted == [original EXCEPT ![b] = trainSpeed[m]]
             stopped == [trainSpeed EXCEPT ![m] = Stopped]
             kept == [original EXCEPT ![b] = IF @ = Unset THEN trainSpeed[m] ELSE @]
  <2>1. m # NoTrain
    BY <1>3
  <2>2. SlowDown(b, trainSpeed) = <<slowed, noted>>
    BY <2>1 DEF SlowDown
  <2>3. StopImmediate(b, trainSpeed) = <<stopped, kept>>
    BY <2>1 DEF StopImmediate
  <2>4. /\ slowed \in [Trains -> {Stopped, Restricted, Full}]
        /\ \A t \in Trains : slowed[t] # Stopped => trainSpeed[t] # Stopped
    BY <1>1, <1>3
  <2>5. /\ stopped \in [Trains -> {Stopped, Restricted, Full}] /\ stopped[m] = Stopped
        /\ \A t \in Trains : stopped[t] # Stopped => trainSpeed[t] # Stopped
    BY <1>1, <1>3
  <2>6. /\ noted \in [Blocks -> {Stopped, Restricted, Full, Unset}]
        /\ kept \in [Blocks -> {Stopped, Restricted, Full, Unset}]
    BY <1>1, <1>3
  <2> HIDE DEF m, slowed, noted, stopped, kept
  <2>7. CASE ~IsOccupied(NextBlock(b), h, a, motive)
    BY <1>1, <2>7 DEF Signal
  <2>8. CASE IsOccupied(NextBlock(b), h, a, motive) /\ k = 1
    BY <2>2, <2>4, <2>6, <2>8 DEF Signal
  <2>9. CASE IsOccupied(NextBlock(b), h, a, motive) /\ k = 2
    BY <2>3, <2>5, <2>6, <2>9 DEF Signal, m
  <2> QED
    BY <2>7, <2>8, <2>9
<1> QED
  BY <1>1, <1>2, <1>3

LEMMA HeadEntersSection ==
  ASSUME SensorIsPrompt, AtcInvariant, NEW t \in Trains, HeadEnters(t), Place(head[t]) # 2
  PROVE  AtcInvariant'
<1> DEFINE b == BlockOf(head[t])
           k == Place(head[t]) + 1
<1> USE DEF AtcInvariant
<1>1. /\ head \in [Trains -> Sections] /\ across \in [Trains -> BOOLEAN]
      /\ b \in Blocks /\ k \in {1, 2} /\ NextBlock(b) # b
  BY Ring, SectionParts DEF AtcTypeOK
<1>2. SectionAfter(head[t]) = <<b, k>> /\ <<b, k>> \in Sections
      /\ BlockOf(<<b, k>>) = b /\ Place(<<b, k>>) = k
  BY <1>1 DEF SectionAfter, Sections, Places, BlockOf, Place
<1>3. /\ trainSpeed[t] # Stopped /\ ~across[t] /\ (k = 1 => ~readDue[b])
      /\ head' = [head EXCEPT ![t] = <<b, k>>] /\ across' = [across EXCEPT ![t] = TRUE]
      /\ trainSpeed' = Signal(b, k, head', across')[1]
      /\ original' = Signal(b, k, head', across')[2]
      /\ UNCHANGED <<motive, lastRead, readDue>>
  <2> HIDE DEF b, k
  <2> QED
    BY <1>1, <1>2 DEF HeadEnters
<1>4. BlocksOf(t) = {b} /\ BlocksOf(t)' = {b}
  <2>1. OnBlocks(head, across, t) = {b}
    BY <1>1, <1>3, BlocksOfTrain
  <2>2. head'[t] = <<b, k>>
    BY <1>1, <1>3
  <2>3. OnBlocks(head', across', t) = {b}
    BY <1>1, <1>2, <2>2, BlocksOfTrain
  <2> QED
    BY <2>1, <2>3 DEF BlocksOf, OnBlocks
<1>5. \A u \in Trains : u # t => BlocksOf(u)' = BlocksOf(u) /\ head'[u] = head[u]
  BY <1>1, <1>3 DEF BlocksOf, OnSections
<1>6. \A u \in Trains : BlocksOf(u)' = BlocksOf(u) /\ BlockOf(head'[u]) = BlockOf(head[u])
  BY <1>1, <1>2, <1>3, <1>4, <1>5
<1>7. /\ trainSpeed' \in [Trains -> {Stopped, Restricted, Full}]
      /\ original' \in [Blocks -> {Stopped, Restricted, Full, Unset}]
      /\ \A u \in Trains : trainSpeed'[u] # Stopped => trainSpeed[u] # Stopped
      /\ k = 2 /\ motive[b] \in Trains /\ IsOccupied(NextBlock(b), head', across', motive)
           => trainSpeed'[motive[b]] = Stopped
  <2> HIDE DEF b, k
  <2> QED
    <3> DEFINE sig == Signal(b, k, head', across')
    <3>1. /\ sig[1] \in [Trains -> {Stopped, Restricted, Full}]
          /\ sig[2] \in [Blocks -> {Stopped, Restricted, Full, Unset}]
          /\ \A u \in Trains : sig[1][u] # Stopped => trainSpeed[u] # Stopped
          /\ k = 2 /\ motive[b] \in Trains /\ IsOccupied(NextBlock(b), head', across', motive)
               => sig[1][motive[b]] = Stopped
      BY <1>1, SignalBrakes
    <3>2. trainSpeed' = sig[1] /\ original' = sig[2]
      BY <1>3
    <3> HIDE DEF sig
    <3> QED
      BY <3>1, <3>2
<1>8. AtcTypeOK'
  <2>1. head' \in [Trains -> Sections] /\ across' \in [Trains -> BOOLEAN]
    BY <1>1, <1>2, <1>3
  <2> QED
    BY <1>3, <1>7, <2>1 DEF AtcTypeOK
<1>9. OneTrainPerBlock' /\ MotivesAreThere' /\ TrainsAreKnown'
  <2>1. OneTrainPerBlock'
    BY <1>6 DEF OneTrainPerBlock
  <2>2. MotivesAreThere'
    BY <1>3, <1>6 DEF MotivesAreThere, AtcTypeOK
  <2>3. TrainsAreKnown'
    BY <1>3, <1>6 DEF TrainsAreKnown
  <2> QED
    BY <2>1, <2>2, <2>3
<1>10. ReadsAreFresh'
  <2> SUFFICES ASSUME NEW d \in Blocks, readDue[d]
               PROVE  lastRead[d] \in Trains /\ head'[lastRead[d]] = <<d, 0>>
    BY <1>3 DEF ReadsAreFresh
  <2>1. lastRead[d] \in Trains /\ head[lastRead[d]] = <<d, 0>>
    BY DEF ReadsAreFresh
  <2>2. lastRead[d] # t
    <3> SUFFICES ASSUME lastRead[d] = t PROVE FALSE
      OBVIOUS
    <3>1. b = d /\ k = 1
      BY <2>1 DEF BlockOf, Place
    <3> QED
      BY <1>3, <3>1
  <2> QED
    BY <1>5, <2>1, <2>2
<1>11. AheadIsClear'
  <2> SUFFICES ASSUME NEW v \in Trains, NEW u \in Trains, Place(head'[v]) = 2,
                      trainSpeed'[v] # Stopped
               PROVE  NextBlock(BlockOf(head'[v])) \notin BlocksOf(u)'
    BY DEF AheadIsClear
  <2>1. CASE v # t
    BY <1>5, <1>6, <1>7, <2>1 DEF AheadIsClear
  <2>2. CASE v = t
    <3>1. head'[t] = <<b, k>> /\ BlockOf(head'[t]) = b /\ k = 2
      <4>1. head'[t] = <<b, k>>
        BY <1>1, <1>3
      <4> QED
        BY <1>2, <2>2, <4>1
    <3>2. motive[b] = t
      BY <3>1, KnownPastTheSensor
    <3>3. ~IsOccupied(NextBlock(b), head', across', motive)
      BY <1>7, <2>2, <3>1, <3>2
    <3>4. NextBlock(b) \notin OnBlocks(head', across', u)
      BY <3>3, TrainOccupies
    <3> QED
      BY <2>2, <3>1, <3>4 DEF BlocksOf, OnBlocks
  <2> QED
    BY <2>1, <2>2
<1> QED
  BY <1>8, <1>9, <1>10, <1>11

-----------------------------------------------------------------------------
(* A train's tail leaves a section                                          *)

LEMMA TailLeavesBlock ==
  ASSUME AtcInvariant, NEW t \in Trains, TailLeaves(t), Place(head[t]) = 0
  PROVE  AtcInvariant'
<1> DEFINE c == BlockOf(head[t])
           b == PrevBlock(c)
           p == PrevBlock(b)
           cleared == [motive EXCEPT ![b] = NoTrain]
<1> USE DEF AtcInvariant
<1>1. /\ head \in [Trains -> Sections] /\ across \in [Trains -> BOOLEAN]
      /\ c \in Blocks /\ b \in Blocks /\ b # c /\ p \in Blocks /\ p # b /\ NextBlock(p) = b
      /\ motive \in [Blocks -> Trains \cup {NoTrain}]
      /\ trainSpeed \in [Trains -> {Stopped, Restricted, Full}]
      /\ original \in [Blocks -> {Stopped, Restricted, Full, Unset}]
  BY Ring, SectionParts DEF AtcTypeOK
<1>2. SectionBefore(head[t]) = <<b, 2>> /\ BlockOf(<<b, 2>>) = b /\ Place(<<b, 2>>) = 2
  BY DEF SectionBefore, BlockOf, Place
<1>3. /\ across[t] /\ across' = [across EXCEPT ![t] = FALSE] /\ Left(b, across')
      /\ UNCHANGED <<head, lastRead, readDue>>
  <2> HIDE DEF b
  <2> QED
    BY <1>2 DEF TailLeaves
<1>4. motive' = cleared /\ original' = [original EXCEPT ![b] = Unset]
  BY <1>3 DEF Left
<1>5. \/ trainSpeed' = trainSpeed
      \/ /\ motive[p] # NoTrain /\ original[p] \notin {Unset, Stopped}
         /\ ~IsOccupied(b, head, across', cleared)
         /\ trainSpeed' = [trainSpeed EXCEPT ![motive[p]] = original[p]]
  BY <1>3 DEF Left
<1>6. BlocksOf(t) = {b, c} /\ BlocksOf(t)' = {c}
  <2>1. OnBlocks(head, across, t) = {b, c}
    BY <1>1, <1>3, BlocksOfTrain
  <2>2. ~across'[t] /\ head'[t] \in Sections /\ BlockOf(head'[t]) = c
    BY <1>1, <1>3
  <2>3. OnBlocks(head', across', t) = {c}
    <3> DEFINE h == head'
               a == across'
    <3>1. ~a[t] /\ h[t] \in Sections /\ BlockOf(h[t]) = c
      BY <2>2
    <3> HIDE DEF h, a, c
    <3>2. OnBlocks(h, a, t) = {BlockOf(h[t])}
      BY <3>1, BlocksOfTrain
    <3> QED
      BY <3>1, <3>2 DEF h, a
  <2> QED
    BY <2>1, <2>3 DEF BlocksOf, OnBlocks
<1>7. \A u \in Trains : u # t => BlocksOf(u)' = BlocksOf(u)
  BY <1>1, <1>3 DEF BlocksOf, OnSections
<1>8. AtcTypeOK'
  <2>1. across' \in [Trains -> BOOLEAN]
    BY <1>1, <1>3
  <2>2. motive' \in [Blocks -> Trains \cup {NoTrain}]
    BY <1>1, <1>4
  <2>3. original' \in [Blocks -> {Stopped, Restricted, Full, Unset}]
    BY <1>1, <1>4
  <2>4. trainSpeed' \in [Trains -> {Stopped, Restricted, Full}]
    <3>1. original[p] \in {Stopped, Restricted, Full, Unset}
      BY <1>1
    <3> QED
      BY <1>1, <1>5, <3>1
  <2> QED
    BY <1>3, <2>1, <2>2, <2>3, <2>4 DEF AtcTypeOK
<1>9. OneTrainPerBlock'
  BY <1>6, <1>7 DEF OneTrainPerBlock
<1>10. ReadsAreFresh'
  BY <1>3 DEF ReadsAreFresh
<1>11. MotivesAreThere'
  <2> SUFFICES ASSUME NEW d \in Blocks, motive'[d] # NoTrain
               PROVE  d \in OnBlocks(head', across', motive'[d])
    BY DEF MotivesAreThere, BlocksOf, OnBlocks
  <2>1. d # b /\ motive'[d] = motive[d] /\ motive[d] \in Trains
    BY <1>1, <1>4
  <2>2. d \in BlocksOf(motive[d])
    BY <2>1 DEF MotivesAreThere
  <2> QED
    <3>1. \A u \in Trains : d \in BlocksOf(u) => d \in BlocksOf(u)'
      BY <1>6, <1>7, <2>1
    <3> QED
      BY <2>1, <2>2, <3>1 DEF BlocksOf, OnBlocks
<1>12. TrainsAreKnown'
  <2> SUFFICES ASSUME NEW u \in Trains, NEW d \in BlocksOf(u)'
               PROVE  motive'[d] = u \/ (d = BlockOf(head[u]) /\ readDue[d])
    BY <1>3 DEF TrainsAreKnown
  <2>1. d \in BlocksOf(u) /\ d # b
    BY <1>1, <1>6, <1>7 DEF OneTrainPerBlock
  <2>2. motive[d] = u \/ (d = BlockOf(head[u]) /\ readDue[d])
    BY <2>1 DEF TrainsAreKnown
  <2>3. d \in Blocks
    <3>1. OnBlocks(head, across, u) \subseteq {BlockOf(head[u]), PrevBlock(BlockOf(head[u]))}
      BY <1>1, BlocksOfTrain
    <3>2. BlockOf(head[u]) \in Blocks /\ PrevBlock(BlockOf(head[u])) \in Blocks
      BY <1>1, SectionParts, Ring
    <3> QED
      BY <2>1, <3>1, <3>2 DEF BlocksOf, OnBlocks
  <2> QED
    BY <1>1, <1>4, <2>1, <2>2, <2>3
<1>13. AheadIsClear'
  <2> SUFFICES ASSUME NEW v \in Trains, NEW u \in Trains, Place(head[v]) = 2,
                      trainSpeed'[v] # Stopped
               PROVE  NextBlock(BlockOf(head[v])) \notin BlocksOf(u)'
    BY <1>3 DEF AheadIsClear
  <2>1. BlocksOf(u)' \subseteq BlocksOf(u)
    BY <1>6, <1>7
  <2>2. CASE trainSpeed[v] # Stopped
    BY <2>1, <2>2 DEF AheadIsClear
  <2>3. CASE trainSpeed[v] = Stopped
    <3>1. motive[p] = v /\ ~IsOccupied(b, head, across', cleared)
      BY <1>1, <1>5, <2>3
    <3>2. p \in BlocksOf(v)
      BY <1>1, <3>1, AtcAssumption DEF MotivesAreThere
    <3>3. OnBlocks(head, across, v) = {BlockOf(head[v])}
      BY <1>1, BlocksOfTrain
    <3>4. NextBlock(BlockOf(head[v])) = b
      BY <1>1, <3>2, <3>3 DEF BlocksOf, OnBlocks
    <3>5. b \notin OnBlocks(head, across', u)
      BY <3>1, TrainOccupies
    <3> QED
      BY <1>3, <3>4, <3>5 DEF BlocksOf, OnBlocks
  <2> QED
    BY <2>2, <2>3
<1> QED
  BY <1>8, <1>9, <1>10, <1>11, <1>12, <1>13

LEMMA TailLeavesSection ==
  ASSUME AtcInvariant, NEW t \in Trains, TailLeaves(t), Place(head[t]) # 0
  PROVE  AtcInvariant'
<1> USE DEF AtcInvariant
<1>1. head \in [Trains -> Sections] /\ across \in [Trains -> BOOLEAN] /\ Place(head[t]) \in {1, 2}
  BY SectionParts DEF AtcTypeOK
<1>2. Place(SectionBefore(head[t])) # 2
  BY <1>1 DEF SectionBefore, Place
<1>3. across' = [across EXCEPT ![t] = FALSE]
      /\ UNCHANGED <<head, trainSpeed, motive, original, lastRead, readDue>>
  BY <1>2 DEF TailLeaves
<1>4. \A u \in Trains : BlocksOf(u)' = BlocksOf(u)
  <2> SUFFICES ASSUME NEW u \in Trains PROVE BlocksOf(u)' = BlocksOf(u)
    OBVIOUS
  <2>1. CASE u # t
    BY <1>1, <1>3, <2>1 DEF BlocksOf, OnSections
  <2>2. CASE u = t
    <3>1. OnBlocks(head, across, t) = {BlockOf(head[t])}
          /\ OnBlocks(head', across', t) = {BlockOf(head[t])}
      BY <1>1, <1>3, BlocksOfTrain
    <3> QED
      BY <2>2, <3>1 DEF BlocksOf, OnBlocks
  <2> QED
    BY <2>1, <2>2
<1>5. AtcTypeOK'
  BY <1>1, <1>3 DEF AtcTypeOK
<1>6. OneTrainPerBlock' /\ ReadsAreFresh'
  BY <1>3, <1>4 DEF OneTrainPerBlock, ReadsAreFresh
<1>7. MotivesAreThere'
  BY <1>3, <1>4 DEF MotivesAreThere, AtcTypeOK
<1>8. TrainsAreKnown' /\ AheadIsClear'
  BY <1>3, <1>4 DEF TrainsAreKnown, AheadIsClear
<1> QED
  BY <1>5, <1>6, <1>7, <1>8

-----------------------------------------------------------------------------
(* A watcher takes up what the sensor track has read                        *)

LEMMA CacheMotiveStep ==
  ASSUME AtcInvariant, NEW b \in Blocks, CacheMotive(b)
  PROVE  AtcInvariant'
<1> DEFINE t == lastRead[b]
<1> USE DEF AtcInvariant
<1>1. t \in Trains /\ head[t] = <<b, 0>> /\ b \in BlocksOf(t)
  BY DEF CacheMotive, ReadsAreFresh, BlocksOf, OnSections, BlockOf
<1>2. /\ readDue' = [readDue EXCEPT ![b] = FALSE] /\ motive' = [motive EXCEPT ![b] = t]
      /\ original' = [original EXCEPT ![b] = trainSpeed[t]]
      /\ UNCHANGED <<head, across, trainSpeed, lastRead>>
  BY DEF CacheMotive
<1>3. \A u \in Trains : BlocksOf(u)' = BlocksOf(u)
  BY <1>2 DEF BlocksOf, OnSections
<1>4. AtcTypeOK'
  BY <1>1, <1>2 DEF AtcTypeOK
<1>5. OneTrainPerBlock' /\ AheadIsClear'
  BY <1>2, <1>3 DEF OneTrainPerBlock, AheadIsClear
<1>6. ReadsAreFresh'
  BY <1>2 DEF ReadsAreFresh, AtcTypeOK
<1>7. MotivesAreThere'
  BY <1>1, <1>2, <1>3 DEF MotivesAreThere, AtcTypeOK
<1>8. TrainsAreKnown'
  <2> SUFFICES ASSUME NEW u \in Trains, NEW d \in BlocksOf(u)
               PROVE  motive'[d] = u \/ (d = BlockOf(head[u]) /\ readDue'[d])
    BY <1>2, <1>3 DEF TrainsAreKnown
  <2>1. CASE d = b
    BY <1>1, <1>2, <2>1 DEF OneTrainPerBlock, AtcTypeOK
  <2>2. CASE d # b
    BY <1>2, <2>2 DEF TrainsAreKnown, AtcTypeOK
  <2> QED
    BY <2>1, <2>2
<1> QED
  BY <1>4, <1>5, <1>6, <1>7, <1>8

-----------------------------------------------------------------------------
LEMMA AtcStep ==
  ASSUME SensorIsPrompt
  PROVE  AtcInvariant /\ [AtcNext]_atcVars => AtcInvariant'
<1> SUFFICES ASSUME AtcInvariant, [AtcNext]_atcVars PROVE AtcInvariant'
  OBVIOUS
<1>1. ASSUME NEW t \in Trains, HeadEnters(t)
      PROVE  AtcInvariant'
  BY <1>1, HeadEntersBlock, HeadEntersSection
<1>2. ASSUME NEW t \in Trains, TailLeaves(t)
      PROVE  AtcInvariant'
  BY <1>2, TailLeavesBlock, TailLeavesSection
<1>3. ASSUME NEW b \in Blocks, CacheMotive(b)
      PROVE  AtcInvariant'
  BY <1>3, CacheMotiveStep
<1>4. CASE UNCHANGED atcVars
  <2>1. AtcTypeOK' /\ OneTrainPerBlock' /\ ReadsAreFresh'
    BY <1>4 DEF atcVars, AtcInvariant, AtcTypeOK, OneTrainPerBlock, ReadsAreFresh, BlocksOf, OnSections
  <2>2. MotivesAreThere' /\ TrainsAreKnown' /\ AheadIsClear'
    BY <1>4 DEF atcVars, AtcInvariant, MotivesAreThere, TrainsAreKnown, AheadIsClear, BlocksOf,
                OnSections
  <2> QED
    BY <2>1, <2>2 DEF AtcInvariant
<1> QED
  BY <1>1, <1>2, <1>3, <1>4 DEF AtcNext

\* No two trains are ever in one block, on a ring of any size, if what a sensor track has
\* read is taken up before the train reaches the slow section (Block.signal_slow_enter,
\* signal_stop_enter, signal_stop_exit).
THEOREM PromptSensorsKeepTrainsApart ==
  ASSUME SensorIsPrompt
  PROVE  AtcSpec => []OneTrainPerBlock
<1>1. AtcInvariant => OneTrainPerBlock
  BY DEF AtcInvariant
<1>2. AtcInvariant /\ [AtcNext]_atcVars => AtcInvariant'
  BY AtcStep
<1> QED
  BY <1>1, <1>2, AtcInitInvariant, PTL DEF AtcSpec
-----------------------------------------------------------------------------
(* A train that was stopped is started again                                *)

\* A speed to come back to is the speed of a train that moved.
OriginalsMove == \A b \in Blocks : original[b] # Stopped

WaitInvariant == StoppedTrainsWait /\ OriginalsMove

\* The head of a train that moves comes to the next section; of the others nothing changes.
LEMMA HeadMoves ==
  ASSUME AtcInvariant, NEW t \in Trains, HeadEnters(t)
  PROVE  /\ trainSpeed[t] # Stopped /\ motive' = motive
         /\ head'[t] = SectionAfter(head[t])
         /\ \A u \in Trains : u # t => head'[u] = head[u]
         /\ \A u \in Trains : BlocksOf(u) \subseteq BlocksOf(u)'
<1> DEFINE s == head[t]
<1> USE DEF AtcInvariant
<1>1. /\ head \in [Trains -> Sections] /\ across \in [Trains -> BOOLEAN] /\ s \in Sections
      /\ BlockOf(s) \in Blocks /\ Place(s) \in {0, 1, 2} /\ s = <<BlockOf(s), Place(s)>>
  BY SectionParts DEF AtcTypeOK
<1>2. /\ trainSpeed[t] # Stopped /\ ~across[t] /\ motive' = motive
      /\ head' = [head EXCEPT ![t] = SectionAfter(s)] /\ across' = [across EXCEPT ![t] = TRUE]
  BY DEF HeadEnters
<1>3. head'[t] = SectionAfter(s) /\ across'[t] = TRUE
  BY <1>1, <1>2
<1>4. \A u \in Trains : u # t => head'[u] = head[u] /\ across'[u] = across[u]
  BY <1>1, <1>2
<1>5. \A u \in Trains : u # t => BlocksOf(u)' = BlocksOf(u)
  BY <1>4 DEF BlocksOf, OnSections
<1>6. SectionBefore(SectionAfter(s)) = s
  <2>1. CASE Place(s) = 2
    <3>1. SectionAfter(s) = <<NextBlock(BlockOf(s)), 0>>
      BY <2>1 DEF SectionAfter
    <3>2. PrevBlock(NextBlock(BlockOf(s))) = BlockOf(s)
      BY <1>1, Ring
    <3> QED
      BY <1>1, <2>1, <3>1, <3>2 DEF SectionBefore, Place, BlockOf
  <2>2. CASE Place(s) # 2
    <3>1. SectionAfter(s) = <<BlockOf(s), Place(s) + 1>> /\ Place(s) + 1 # 0
          /\ (Place(s) + 1) - 1 = Place(s)
      BY <1>1, <2>2 DEF SectionAfter
    <3> QED
      BY <1>1, <3>1 DEF SectionBefore, Place, BlockOf
  <2> QED
    BY <2>1, <2>2
<1>7. BlocksOf(t) \subseteq BlocksOf(t)'
  <2>1. BlocksOf(t) = {BlockOf(s)}
    BY <1>2 DEF BlocksOf, OnSections
  <2>2. BlockOf(s) \in {BlockOf(x) : x \in OnSections(head', across', t)}
    BY <1>3, <1>6 DEF OnSections
  <2> QED
    BY <2>1, <2>2 DEF BlocksOf
<1> QED
  BY <1>2, <1>3, <1>4, <1>5, <1>7

\* Only the train the block knows is stopped, and its speed is noted.
LEMMA SignalNotes ==
  ASSUME AtcInvariant, NEW b \in Blocks, NEW k \in {1, 2}, NEW h, NEW a,
         NEW t \in Trains, motive[b] = t, trainSpeed[t] # Stopped
  PROVE  /\ \A u \in Trains : u # t => Signal(b, k, h, a)[1][u] = trainSpeed[u]
         /\ \A d \in Blocks : d # b => Signal(b, k, h, a)[2][d] = original[d]
         /\ original[b] # Stopped => Signal(b, k, h, a)[2][b] # Stopped
         /\ Signal(b, k, h, a)[1][t] = Stopped =>
              /\ k = 2 /\ IsOccupied(NextBlock(b), h, a, motive)
              /\ Signal(b, k, h, a)[2][b] # Unset
<1> USE AtcAssumption DEF Stopped, Restricted, Full, Unset
<1> DEFINE slowed == [trainSpeed EXCEPT ![t] = IF @ > Restricted THEN Restricted ELSE @]
           noted == [original EXCEPT ![b] = trainSpeed[t]]
           stopped == [trainSpeed EXCEPT ![t] = Stopped]
           kept == [original EXCEPT ![b] = IF @ = Unset THEN trainSpeed[t] ELSE @]
<1>1. /\ trainSpeed \in [Trains -> {Stopped, Restricted, Full}]
      /\ original \in [Blocks -> {Stopped, Restricted, Full, Unset}]
      /\ trainSpeed[t] \in {Restricted, Full} /\ motive[b] # NoTrain
  BY DEF AtcInvariant, AtcTypeOK
<1>2. SlowDown(b, trainSpeed) = <<slowed, noted>>
  BY <1>1 DEF SlowDown
<1>3. StopImmediate(b, trainSpeed) = <<stopped, kept>>
  BY <1>1 DEF StopImmediate
<1>4. /\ slowed[t] # Stopped /\ \A u \in Trains : u # t => slowed[u] = trainSpeed[u]
      /\ \A u \in Trains : u # t => stopped[u] = trainSpeed[u]
  BY <1>1
<1>5. /\ noted[b] # Stopped /\ \A d \in Blocks : d # b => noted[d] = original[d]
      /\ kept[b] # Unset /\ (original[b] # Stopped => kept[b] # Stopped)
      /\ \A d \in Blocks : d # b => kept[d] = original[d]
  BY <1>1
<1> HIDE DEF slowed, noted, stopped, kept
<1>6. CASE ~IsOccupied(NextBlock(b), h, a, motive)
  BY <1>1, <1>6 DEF Signal
<1>7. CASE IsOccupied(NextBlock(b), h, a, motive) /\ k = 1
  <2>1. Signal(b, k, h, a) = <<slowed, noted>>
    BY <1>2, <1>7 DEF Signal
  <2> QED
    BY <1>4, <1>5, <2>1
<1>8. CASE IsOccupied(NextBlock(b), h, a, motive) /\ k = 2
  <2>1. Signal(b, k, h, a) = <<stopped, kept>>
    BY <1>3, <1>8 DEF Signal
  <2> QED
    BY <1>4, <1>5, <1>8, <2>1
<1> QED
  BY <1>6, <1>7, <1>8

LEMMA HeadEntersWaits ==
  ASSUME SensorIsPrompt, AtcInvariant, AtcInvariant', WaitInvariant, NEW t \in Trains, HeadEnters(t)
  PROVE  WaitInvariant'
<1> DEFINE c == BlockOf(head[t])
<1> USE DEF WaitInvariant
<1>1. /\ trainSpeed[t] # Stopped /\ motive' = motive
      /\ head'[t] = SectionAfter(head[t])
      /\ \A u \in Trains : u # t => head'[u] = head[u]
      /\ \A u \in Trains : BlocksOf(u) \subseteq BlocksOf(u)'
  BY HeadMoves
<1>2. head[t] \in Sections /\ c \in Blocks /\ Place(head[t]) \in {0, 1, 2} /\ c \in BlocksOf(t)
  BY SectionParts DEF AtcInvariant, AtcTypeOK, BlocksOf, OnSections
\* trains that had been stopped before
<1>3. ASSUME NEW u \in Trains, trainSpeed[u] = Stopped
      PROVE  /\ u # t /\ head'[u] = head[u] /\ Place(head[u]) = 2
             /\ motive[BlockOf(head[u])] = u /\ BlockOf(head[u]) # c /\ BlockOf(head[u]) \in Blocks
             /\ original[BlockOf(head[u])] \notin {Unset, Stopped}
             /\ \E v \in Trains : NextBlock(BlockOf(head[u])) \in BlocksOf(v)'
  <2>1. u # t
    BY <1>1, <1>3
  <2>2. BlockOf(head[u]) \in BlocksOf(u) /\ BlockOf(head[u]) \in Blocks
    BY SectionParts DEF AtcInvariant, AtcTypeOK, BlocksOf, OnSections
  <2>3. BlockOf(head[u]) # c
    BY <1>2, <2>1, <2>2 DEF AtcInvariant, OneTrainPerBlock
  <2>4. /\ Place(head[u]) = 2 /\ motive[BlockOf(head[u])] = u
        /\ original[BlockOf(head[u])] \notin {Unset, Stopped}
        /\ \E v \in Trains : NextBlock(BlockOf(head[u])) \in BlocksOf(v)
    BY <1>3 DEF StoppedTrainsWait
  <2> QED
    BY <1>1, <2>1, <2>2, <2>3, <2>4
<1>4. CASE Place(head[t]) = 2
  <2>1. SectionAfter(head[t]) = <<NextBlock(c), 0>>
    BY <1>4 DEF SectionAfter
  <2>2. UNCHANGED <<trainSpeed, original>>
    BY <2>1 DEF HeadEnters, Place
  <2>3. OriginalsMove'
    BY <2>2 DEF OriginalsMove
  <2>4. StoppedTrainsWait'
    <3> SUFFICES ASSUME NEW u \in Trains, trainSpeed'[u] = Stopped
                 PROVE  /\ Place(head'[u]) = 2 /\ motive'[BlockOf(head'[u])] = u
                        /\ original'[BlockOf(head'[u])] \notin {Unset, Stopped}
                        /\ \E v \in Trains : NextBlock(BlockOf(head'[u])) \in BlocksOf(v)'
      BY DEF StoppedTrainsWait
    <3>1. trainSpeed[u] = Stopped
      BY <2>2
    <3> QED
      BY <1>1, <1>3, <2>2, <3>1
  <2> QED
    BY <2>3, <2>4
<1>5. CASE Place(head[t]) # 2
  <2> DEFINE k == Place(head[t]) + 1
             sig == Signal(c, k, head', across')
  <2>1. k \in {1, 2} /\ SectionAfter(head[t]) = <<c, k>> /\ BlockOf(<<c, k>>) = c /\ Place(<<c, k>>) = k
    BY <1>2, <1>5 DEF SectionAfter, BlockOf, Place
  <2>2. trainSpeed' = sig[1] /\ original' = sig[2] /\ (k = 1 => ~readDue[c])
    <3> HIDE DEF c, k
    <3> QED
      BY <2>1 DEF HeadEnters
  <2>3. motive[c] = t
    <3>1. CASE k = 1
      BY <1>2, <2>2, <3>1 DEF AtcInvariant, TrainsAreKnown
    <3>2. CASE k = 2
      <4>1. Place(head[t]) # 0
        BY <1>2, <3>2
      <4> QED
        BY <4>1, KnownPastTheSensor
    <3> QED
      BY <2>1, <3>1, <3>2
  <2> HIDE DEF c, k
  <2>4. /\ \A u \in Trains : u # t => sig[1][u] = trainSpeed[u]
        /\ \A d \in Blocks : d # c => sig[2][d] = original[d]
        /\ original[c] # Stopped => sig[2][c] # Stopped
        /\ sig[1][t] = Stopped =>
             /\ k = 2 /\ IsOccupied(NextBlock(c), head', across', motive)
             /\ sig[2][c] # Unset
    BY <1>1, <1>2, <2>1, <2>3, SignalNotes
  <2> HIDE DEF sig
  <2>5. \A d \in Blocks : original'[d] # Stopped
    BY <1>2, <2>2, <2>4 DEF OriginalsMove
  <2>6. ASSUME trainSpeed'[t] = Stopped
        PROVE  /\ Place(head'[t]) = 2 /\ motive'[BlockOf(head'[t])] = t
               /\ original'[BlockOf(head'[t])] \notin {Unset, Stopped}
               /\ \E v \in Trains : NextBlock(BlockOf(head'[t])) \in BlocksOf(v)'
    <3>1. k = 2 /\ IsOccupied(NextBlock(c), head', across', motive) /\ original'[c] # Unset
      BY <2>2, <2>4, <2>6
    <3>2. BlockOf(head'[t]) = c /\ Place(head'[t]) = 2
      BY <1>1, <2>1, <3>1
    <3>3. NextBlock(c) \in Blocks
      BY <1>2, Ring
    <3>4. \E v \in Trains : NextBlock(c) \in BlocksOf(v)'
      <4>1. NextBlock(c) \in Blocks /\ IsOccupied(NextBlock(c), head', across', motive')
        BY <1>1, <3>1, <3>3
      <4>2. CASE motive'[NextBlock(c)] # NoTrain
        <5>1. motive'[NextBlock(c)] \in Trains
              /\ NextBlock(c) \in {BlockOf(x) : x \in OnSections(head', across', motive'[NextBlock(c)])}
          BY <4>1, <4>2 DEF AtcInvariant, AtcTypeOK, MotivesAreThere, BlocksOf
        <5> QED
          BY <5>1 DEF BlocksOf
      <4>3. CASE motive'[NextBlock(c)] = NoTrain
        BY <4>1, <4>3 DEF IsOccupied, BlocksOf
      <4> QED
        BY <4>2, <4>3
    <3> QED
      BY <1>1, <1>2, <2>3, <2>5, <3>1, <3>2, <3>4 DEF c
  <2>7. ASSUME NEW u \in Trains, trainSpeed'[u] = Stopped, u # t
        PROVE  /\ Place(head'[u]) = 2 /\ motive'[BlockOf(head'[u])] = u
               /\ original'[BlockOf(head'[u])] \notin {Unset, Stopped}
               /\ \E v \in Trains : NextBlock(BlockOf(head'[u])) \in BlocksOf(v)'
    <3>1. trainSpeed[u] = Stopped
      BY <2>2, <2>4, <2>7
    <3>2. original'[BlockOf(head[u])] = original[BlockOf(head[u])]
      BY <1>3, <2>2, <2>4, <3>1
    <3> QED
      BY <1>1, <1>3, <3>1, <3>2
  <2> QED
    BY <2>5, <2>6, <2>7 DEF StoppedTrainsWait, OriginalsMove
<1> QED
  BY <1>4, <1>5

LEMMA TailLeavesWaits ==
  ASSUME AtcInvariant, WaitInvariant, NEW t \in Trains, TailLeaves(t)
  PROVE  WaitInvariant'
<1> DEFINE c == BlockOf(head[t])
<1> USE DEF WaitInvariant
<1>1. /\ head \in [Trains -> Sections] /\ across \in [Trains -> BOOLEAN]
      /\ motive \in [Blocks -> Trains \cup {NoTrain}]
      /\ trainSpeed \in [Trains -> {Stopped, Restricted, Full}]
      /\ original \in [Blocks -> {Stopped, Restricted, Full, Unset}]
      /\ c \in Blocks /\ Place(head[t]) \in {0, 1, 2}
  BY SectionParts DEF AtcInvariant, AtcTypeOK
<1>2. /\ trainSpeed[t] # Stopped /\ across[t] /\ across' = [across EXCEPT ![t] = FALSE]
      /\ head' = head
  BY DEF TailLeaves
<1>3. \A u \in Trains : u # t => BlocksOf(u)' = BlocksOf(u)
  BY <1>1, <1>2 DEF BlocksOf, OnSections
<1>4. c \in BlocksOf(t)'
  BY <1>2 DEF BlocksOf, OnSections
\* trains that had been stopped before
<1>5. ASSUME NEW u \in Trains, trainSpeed[u] = Stopped
      PROVE  /\ u # t /\ Place(head[u]) = 2 /\ motive[BlockOf(head[u])] = u
             /\ BlockOf(head[u]) \in Blocks /\ BlockOf(head[u]) \notin BlocksOf(t)
             /\ original[BlockOf(head[u])] \notin {Unset, Stopped}
             /\ \E v \in Trains : NextBlock(BlockOf(head[u])) \in BlocksOf(v)
  <2>1. u # t
    BY <1>2, <1>5
  <2>2. BlockOf(head[u]) \in BlocksOf(u) /\ BlockOf(head[u]) \in Blocks
    BY <1>1, SectionParts DEF BlocksOf, OnSections
  <2>3. BlockOf(head[u]) \notin BlocksOf(t)
    BY <2>1, <2>2 DEF AtcInvariant, OneTrainPerBlock
  <2> QED
    BY <1>5, <2>1, <2>2, <2>3 DEF StoppedTrainsWait
<1>6. CASE Place(head[t]) # 0
  <2>1. Place(SectionBefore(head[t])) # 2
    BY <1>1, <1>6 DEF SectionBefore, Place
  <2>2. UNCHANGED <<trainSpeed, motive, original>>
    BY <2>1 DEF TailLeaves
  <2>3. BlocksOf(t) = {c}
    <3>1. OnBlocks(head, across, t) = {c}
      BY <1>1, <1>6, BlocksOfTrain
    <3> QED
      BY <3>1 DEF BlocksOf, OnBlocks
  <2>4. \A u \in Trains : BlocksOf(u) \subseteq BlocksOf(u)'
    BY <1>3, <1>4, <2>3
  <2>5. OriginalsMove'
    BY <2>2 DEF OriginalsMove
  <2>6. StoppedTrainsWait'
    <3> SUFFICES ASSUME NEW u \in Trains, trainSpeed[u] = Stopped
                 PROVE  /\ Place(head[u]) = 2 /\ motive[BlockOf(head[u])] = u
                        /\ original[BlockOf(head[u])] \notin {Unset, Stopped}
                        /\ \E v \in Trains : NextBlock(BlockOf(head[u])) \in BlocksOf(v)'
      BY <1>2, <2>2 DEF StoppedTrainsWait
    <3> QED
      BY <1>5, <2>4
  <2> QED
    BY <2>5, <2>6
<1>7. CASE Place(head[t]) = 0
  <2> DEFINE b == PrevBlock(c)
             p == PrevBlock(b)
             cleared == [motive EXCEPT ![b] = NoTrain]
             resumes == motive[p] # NoTrain /\ original[p] \notin {Unset, Stopped}
                        /\ ~IsOccupied(b, head, across', cleared)
  <2>1. b \in Blocks /\ b # c /\ p \in Blocks /\ p # b /\ NextBlock(p) = b
    BY <1>1, Ring
  <2>2. SectionBefore(head[t]) = <<b, 2>> /\ BlockOf(<<b, 2>>) = b /\ Place(<<b, 2>>) = 2
    BY <1>7 DEF SectionBefore, BlockOf, Place
  <2>3. Left(b, across')
    <3> HIDE DEF b
    <3> QED
      BY <1>2, <2>2 DEF TailLeaves
  <2>4. /\ motive' = cleared /\ original' = [original EXCEPT ![b] = Unset]
        /\ trainSpeed' = IF resumes THEN [trainSpeed EXCEPT ![motive[p]] = original[p]]
                         ELSE trainSpeed
    BY <2>3 DEF Left
  <2>5. BlocksOf(t) = {b, c}
    <3>1. OnBlocks(head, across, t) = {b, c}
      BY <1>1, <1>2, <1>7, BlocksOfTrain
    <3> QED
      BY <3>1 DEF BlocksOf, OnBlocks
  <2>6. \A v \in Trains : b \notin {BlockOf(x) : x \in OnSections(head, across', v)}
    <3> SUFFICES ASSUME NEW v \in Trains PROVE b \notin OnBlocks(head, across', v)
      BY DEF OnBlocks
    <3>1. CASE v = t
      <4> DEFINE a == across'
      <4>1. ~a[t] /\ head[t] \in Sections
        BY <1>1, <1>2
      <4> HIDE DEF a
      <4>2. OnBlocks(head, a, t) = {c}
        BY <4>1, BlocksOfTrain
      <4> QED
        BY <2>1, <3>1, <4>2 DEF a
    <3>2. CASE v # t
      <4>1. b \notin BlocksOf(v)
        BY <2>5, <3>2 DEF AtcInvariant, OneTrainPerBlock
      <4> QED
        BY <1>2, <1>3, <3>2, <4>1 DEF BlocksOf, OnBlocks
    <3> QED
      BY <3>1, <3>2
  <2>7. ~IsOccupied(b, head, across', cleared)
    <3>1. cleared[b] = NoTrain
      BY <1>1, <2>1
    <3> HIDE DEF b, cleared
    <3> QED
      BY <2>6, <3>1 DEF IsOccupied
  <2> HIDE DEF c, b, p, cleared
  <2>8. \A d \in Blocks : original'[d] # Stopped
    BY <1>1, <2>1, <2>4 DEF OriginalsMove, Unset, Stopped
  <2>9. ASSUME NEW u \in Trains, trainSpeed'[u] = Stopped
        PROVE  trainSpeed[u] = Stopped /\ BlockOf(head[u]) # p
    <3>1. CASE resumes
      <4>1. motive[p] \in Trains /\ original[p] # Stopped
        BY <1>1, <2>1, <3>1
      <4>2. trainSpeed' = [trainSpeed EXCEPT ![motive[p]] = original[p]]
        BY <2>4, <3>1
      <4>3. u # motive[p] /\ trainSpeed[u] = Stopped
        BY <1>1, <2>9, <4>1, <4>2
      <4> QED
        BY <1>5, <4>3
    <3>2. CASE ~resumes
      <4>1. trainSpeed[u] = Stopped
        BY <2>4, <2>9, <3>2
      <4>2. ~(motive[p] # NoTrain /\ original[p] \notin {Unset, Stopped})
        BY <2>7, <3>2
      <4> QED
        BY <1>5, <4>1, <4>2, AtcAssumption
    <3> QED
      BY <3>1, <3>2
  <2>10. ASSUME NEW u \in Trains, trainSpeed'[u] = Stopped
         PROVE  /\ Place(head[u]) = 2 /\ motive'[BlockOf(head[u])] = u
                /\ original'[BlockOf(head[u])] \notin {Unset, Stopped}
                /\ \E v \in Trains : NextBlock(BlockOf(head[u])) \in BlocksOf(v)'
    <3>1. trainSpeed[u] = Stopped /\ BlockOf(head[u]) # p
      BY <2>9, <2>10
    <3>2. /\ Place(head[u]) = 2 /\ motive[BlockOf(head[u])] = u
          /\ BlockOf(head[u]) \in Blocks /\ BlockOf(head[u]) # b
          /\ original[BlockOf(head[u])] \notin {Unset, Stopped}
      BY <1>5, <2>5, <3>1
    <3>3. motive'[BlockOf(head[u])] = u /\ original'[BlockOf(head[u])] \notin {Unset, Stopped}
      BY <1>1, <2>1, <2>4, <3>2 DEF cleared
    <3>4. PICK v \in Trains : NextBlock(BlockOf(head[u])) \in BlocksOf(v)
      BY <1>5, <3>1
    <3>5. NextBlock(BlockOf(head[u])) # b
      <4>1. PrevBlock(NextBlock(BlockOf(head[u]))) = BlockOf(head[u])
        BY <3>2, Ring
      <4> QED
        BY <3>1, <4>1 DEF p
    <3>6. NextBlock(BlockOf(head[u])) \in {BlockOf(x) : x \in OnSections(head', across', v)}
      <4>1. CASE v = t
        <5>1. NextBlock(BlockOf(head[u])) = c
          BY <2>5, <3>4, <3>5, <4>1
        <5>2. c \in {BlockOf(x) : x \in OnSections(head', across', t)}
          BY <1>4 DEF BlocksOf
        <5> QED
          BY <4>1, <5>1, <5>2
      <4>2. CASE v # t
        BY <1>3, <3>4, <4>2 DEF BlocksOf
      <4> QED
        BY <4>1, <4>2
    <3> QED
      BY <3>2, <3>3, <3>6 DEF BlocksOf
  <2> QED
    BY <1>2, <2>8, <2>10 DEF StoppedTrainsWait, OriginalsMove
<1> QED
  BY <1>6, <1>7

LEMMA CacheMotiveWaits ==
  ASSUME AtcInvariant, WaitInvariant, NEW b \in Blocks, CacheMotive(b)
  PROVE  WaitInvariant'
<1> DEFINE t == lastRead[b]
<1> USE DEF WaitInvariant
<1>1. t \in Trains /\ head[t] = <<b, 0>> /\ b \in BlocksOf(t) /\ Place(head[t]) = 0
  BY DEF CacheMotive, AtcInvariant, ReadsAreFresh, BlocksOf, OnSections, BlockOf, Place
<1>2. /\ motive' = [motive EXCEPT ![b] = t] /\ original' = [original EXCEPT ![b] = trainSpeed[t]]
      /\ UNCHANGED <<head, across, trainSpeed>>
  BY DEF CacheMotive
<1>3. trainSpeed[t] # Stopped
  BY <1>1 DEF StoppedTrainsWait
<1>4. /\ motive \in [Blocks -> Trains \cup {NoTrain}]
      /\ original \in [Blocks -> {Stopped, Restricted, Full, Unset}]
      /\ head \in [Trains -> Sections]
  BY DEF AtcInvariant, AtcTypeOK
<1> HIDE DEF t
<1>5. OriginalsMove'
  BY <1>2, <1>3, <1>4 DEF OriginalsMove
<1>6. \A u \in Trains : BlocksOf(u)' = BlocksOf(u)
  BY <1>2 DEF BlocksOf, OnSections
<1>7. StoppedTrainsWait'
  <2> SUFFICES ASSUME NEW u \in Trains, trainSpeed[u] = Stopped
               PROVE  /\ Place(head[u]) = 2 /\ motive'[BlockOf(head[u])] = u
                      /\ original'[BlockOf(head[u])] \notin {Unset, Stopped}
                      /\ \E v \in Trains : NextBlock(BlockOf(head[u])) \in BlocksOf(v)'
    BY <1>2 DEF StoppedTrainsWait
  <2>1. /\ Place(head[u]) = 2 /\ motive[BlockOf(head[u])] = u
        /\ original[BlockOf(head[u])] \notin {Unset, Stopped}
        /\ \E v \in Trains : NextBlock(BlockOf(head[u])) \in BlocksOf(v)
    BY DEF StoppedTrainsWait
  <2>2. BlockOf(head[u]) \in BlocksOf(u) /\ BlockOf(head[u]) \in Blocks
    BY <1>4, SectionParts DEF BlocksOf, OnSections
  <2>3. BlockOf(head[u]) # b
    BY <1>1, <1>3, <2>2 DEF AtcInvariant, OneTrainPerBlock
  <2> QED
    BY <1>2, <1>4, <1>6, <2>1, <2>2, <2>3
<1> QED
  BY <1>5, <1>7

LEMMA WaitInit == AtcInit => WaitInvariant
<1> SUFFICES ASSUME AtcInit PROVE WaitInvariant
  OBVIOUS
<1>1. trainSpeed = [t \in Trains |-> Full]
      /\ original = [b \in Blocks |-> IF motive[b] = NoTrain THEN Unset ELSE Full]
  BY DEF AtcInit
<1> QED
  BY <1>1 DEF WaitInvariant, StoppedTrainsWait, OriginalsMove, Stopped, Unset, Full

LEMMA WaitStep ==
  ASSUME SensorIsPrompt
  PROVE  AtcInvariant /\ AtcInvariant' /\ WaitInvariant /\ [AtcNext]_atcVars => WaitInvariant'
<1> SUFFICES ASSUME AtcInvariant, AtcInvariant', WaitInvariant, [AtcNext]_atcVars
             PROVE  WaitInvariant'
  OBVIOUS
<1>1. ASSUME NEW t \in Trains, HeadEnters(t)
      PROVE  WaitInvariant'
  BY <1>1, HeadEntersWaits
<1>2. ASSUME NEW t \in Trains, TailLeaves(t)
      PROVE  WaitInvariant'
  BY <1>2, TailLeavesWaits
<1>3. ASSUME NEW b \in Blocks, CacheMotive(b)
      PROVE  WaitInvariant'
  BY <1>3, CacheMotiveWaits
<1>4. CASE UNCHANGED atcVars
  BY <1>4 DEF atcVars, WaitInvariant, StoppedTrainsWait, OriginalsMove, BlocksOf, OnSections
<1> QED
  BY <1>1, <1>2, <1>3, <1>4 DEF AtcNext

\* A train that was stopped for the block ahead can be started again: the block it stands in
\* knows it and the speed it had, and the block ahead, whose leaving starts it, is occupied
\* (Block.next_block_clear, resume_speed).
THEOREM StoppedTrainsCanResume ==
  ASSUME SensorIsPrompt
  PROVE  AtcSpec => []StoppedTrainsWait
<1>1. AtcInvariant /\ [AtcNext]_atcVars => AtcInvariant'
  BY AtcStep
<1>2. AtcInvariant /\ AtcInvariant' /\ WaitInvariant /\ [AtcNext]_atcVars => WaitInvariant'
  BY WaitStep
<1>3. WaitInvariant => StoppedTrainsWait
  BY DEF WaitInvariant
<1> QED
  BY <1>1, <1>2, <1>3, AtcInitInvariant, WaitInit, PTL DEF AtcSpec

-----------------------------------------------------------------------------
(* The blocks never stop every train                                        *)

LEMMA LeastNumber ==
  ASSUME NEW T \in SUBSET Nat, T # {}
  PROVE  \E x \in T : \A y \in T : x <= y
<1>1. \E R : IsWellFoundedOn(R, Nat) /\ \A x, y \in Nat : x < y => <<x, y>> \in R
  <2>1. IsWellFoundedOn(OpToRel(<,Nat), Nat)
    BY NatLessThanWellFounded
  <2>2. \A x, y \in Nat : x < y => <<x, y>> \in OpToRel(<,Nat)
    BY Zenon DEF OpToRel
  <2> WITNESS OpToRel(<,Nat)
  <2> QED
    BY <2>1, <2>2
<1>2. PICK R : IsWellFoundedOn(R, Nat) /\ \A x, y \in Nat : x < y => <<x, y>> \in R
  BY <1>1
<1>3. T \subseteq Nat /\ IsWellFoundedOn(R, Nat)
  BY <1>2
<1>4. PICK x \in T : \A y \in T : ~ (<<y, x>> \in R)
  BY <1>3, WFMin
<1>5. ASSUME NEW y \in T PROVE x <= y
  <2>1. x \in Nat /\ y \in Nat
    BY <1>3
  <2>2. ~(y < x)
    BY <1>2, <1>4, <2>1
  <2> QED
    BY <2>1, <2>2
<1> QED
  BY <1>5

\* Blocks among which every one's next block is, are all the blocks of the ring.
LEMMA ClosedAroundTheRing ==
  ASSUME NEW S \in SUBSET Blocks, S # {}, \A b \in S : NextBlock(b) \in S
  PROVE  S = Blocks
<1>1. BlockCount \in Nat /\ BlockCount > 0
  <2>1. Cardinality(Trains) \in Nat
    BY AtcAssumption, FS_CardinalityType
  <2> QED
    BY <2>1, AtcAssumption
<1>2. 0 \in S
  <2> DEFINE T == {n \in Nat : BlockCount - 1 - n \in S}
  <2>1. T # {}
    <3>1. PICK b \in S : TRUE
      OBVIOUS
    <3>2. BlockCount - 1 - b \in Nat /\ BlockCount - 1 - (BlockCount - 1 - b) = b
      BY <1>1 DEF Blocks
    <3> QED
      BY <3>2
  <2>2. PICK n \in T : \A m \in T : n <= m
    <3> HIDE DEF T
    <3>1. T \in SUBSET Nat
      BY DEF T
    <3> QED
      BY <2>1, <3>1, LeastNumber
  <2>3. n = 0
    <3> SUFFICES ASSUME n # 0 PROVE FALSE
      OBVIOUS
    <3>1. n \in Nat /\ BlockCount - 1 - n \in S
      OBVIOUS
    <3>2. NextBlock(BlockCount - 1 - n) = BlockCount - 1 - (n - 1)
      BY <1>1, <3>1 DEF NextBlock
    <3>3. n - 1 \in Nat /\ BlockCount - 1 - (n - 1) \in S
      BY <3>1, <3>2
    <3>4. n - 1 \in T
      BY <3>3
    <3> QED
      BY <2>2, <3>1, <3>4
  <2>4. BlockCount - 1 \in S
    BY <1>1, <2>3
  <2> QED
    BY <2>4 DEF NextBlock
<1>3. ASSUME Blocks \ S # {} PROVE FALSE
  <2> DEFINE D == Blocks \ S
  <2>1. D \in SUBSET Nat
    BY DEF Blocks
  <2> HIDE DEF D
  <2>2. PICK d \in D : \A m \in D : d <= m
    BY <1>3, <2>1, LeastNumber DEF D
  <2>3. d \in Nat /\ d \in Blocks /\ d # 0
    BY <1>2, <2>1, <2>2 DEF D
  <2>4. d - 1 \in Blocks /\ d - 1 < d /\ NextBlock(d - 1) = d
    BY <1>1, <2>3 DEF Blocks, NextBlock
  <2>5. d - 1 \in S
    BY <2>2, <2>3, <2>4 DEF D
  <2> QED
    BY <2>2, <2>4, <2>5 DEF D
<1> QED
  BY <1>3

\* If every train waited for the block ahead, every block would have a train: there are fewer.
LEMMA SomeTrainIsFree ==
  ASSUME AtcInvariant, StoppedTrainsWait
  PROVE  SomeTrainMoves
<1> SUFFICES ASSUME Trains # {}, \A t \in Trains : trainSpeed[t] = Stopped
             PROVE  FALSE
  BY DEF SomeTrainMoves
<1> DEFINE f == [t \in Trains |-> BlockOf(head[t])]
           S == {f[t] : t \in Trains}
<1>1. \A t \in Trains : BlocksOf(t) = {f[t]} /\ f[t] \in Blocks
  <2> SUFFICES ASSUME NEW t \in Trains
               PROVE  BlocksOf(t) = {BlockOf(head[t])} /\ BlockOf(head[t]) \in Blocks
    OBVIOUS
  <2>1. head[t] \in Sections /\ Place(head[t]) = 2
    BY DEF AtcInvariant, AtcTypeOK, StoppedTrainsWait
  <2>2. OnBlocks(head, across, t) = {BlockOf(head[t])}
    BY <2>1, BlocksOfTrain
  <2> QED
    BY <2>1, <2>2, SectionParts DEF BlocksOf, OnBlocks
<1>2. \A t \in Trains : NextBlock(f[t]) \in S
  <2> SUFFICES ASSUME NEW t \in Trains PROVE NextBlock(f[t]) \in S
    OBVIOUS
  <2>1. PICK u \in Trains : NextBlock(f[t]) \in BlocksOf(u)
    BY DEF StoppedTrainsWait
  <2> QED
    BY <1>1, <2>1
<1>3. S = Blocks
  <2>1. S \in SUBSET Blocks /\ S # {} /\ \A b \in S : NextBlock(b) \in S
    BY <1>1, <1>2
  <2> HIDE DEF S
  <2> QED
    BY <2>1, ClosedAroundTheRing
<1>4. f \in Surjection(Trains, Blocks)
  <2>1. f \in [Trains -> Blocks]
    BY <1>1
  <2>2. \A b \in Blocks : \E t \in Trains : f[t] = b
    BY <1>3
  <2> HIDE DEF f
  <2> QED
    BY <2>1, <2>2 DEF Surjection
<1>5. Cardinality(Blocks) <= Cardinality(Trains)
  <2> HIDE DEF f
  <2> QED
    BY <1>4, AtcAssumption, FS_Surjection
<1>6. Cardinality(Blocks) = BlockCount
  <2>1. Cardinality(Trains) \in Nat /\ BlockCount \in Nat /\ BlockCount > 0
    BY AtcAssumption, FS_CardinalityType
  <2>2. 0 \in Int /\ BlockCount - 1 \in Int
    BY <2>1
  <2>3. Cardinality(0 .. BlockCount - 1) = IF 0 > BlockCount - 1 THEN 0 ELSE (BlockCount - 1) - 0 + 1
    BY ONLY <2>2, FS_Interval
  <2> QED
    BY <2>1, <2>3 DEF Blocks
<1>7. Cardinality(Trains) \in Nat /\ BlockCount \in Nat /\ Cardinality(Trains) < BlockCount
  BY AtcAssumption, FS_CardinalityType
<1> QED
  BY <1>5, <1>6, <1>7

\* However many trains run on however long a ring, the blocks never stop all of them at once,
\* if what a sensor track has read is taken up before the train reaches the slow section:
\* fewer trains than blocks is all it takes (Block.signal_stop_enter).
THEOREM BlocksNeverStopEveryTrain ==
  ASSUME SensorIsPrompt
  PROVE  AtcSpec => []SomeTrainMoves
<1>1. AtcInvariant /\ [AtcNext]_atcVars => AtcInvariant'
  BY AtcStep
<1>2. AtcInvariant /\ AtcInvariant' /\ WaitInvariant /\ [AtcNext]_atcVars => WaitInvariant'
  BY WaitStep
<1>3. AtcInvariant /\ WaitInvariant => SomeTrainMoves
  BY SomeTrainIsFree DEF WaitInvariant
<1> QED
  BY <1>1, <1>2, <1>3, AtcInitInvariant, WaitInit, PTL DEF AtcSpec
=============================================================================
