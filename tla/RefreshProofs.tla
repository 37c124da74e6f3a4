---------------------------- MODULE RefreshProofs ----------------------------
(*****************************************************************************)
(* Theorems about what is kept up to date behind the state: CacheSync, for   *)
(* any nodes, files and numbers of events; DbRefresh, for any engines,       *)
(* debounce times, periods and numbers of stops; StateWatch, for any size of *)
(* its queue; and EngineImages, for any engines, trains, workers, choices,   *)
(* clearings and failures.                                                   *)
(*****************************************************************************)
EXTENDS DbRefresh, CacheSync, StateWatch, EngineImages, FiniteSetTheorems, TLAPS

-----------------------------------------------------------------------------
(* The catalogue's files (CacheSync)                                         *)

Ordinary == CacheFiles \ (QuietFiles \cup CustomImages)
Same(x, y) == \A f \in Ordinary : x[f] = y[f]
Manager(n) == transfer[<<n, "manager">>]

\* A client has something to offer, and will tell the server when it has done so.
Offers(k) ==
  \/ woken[k] \/ Manager(k).pc \in {"debounce", "begin", "write", "mark", "tell"}
  \/ Manager(k).pc = "next" /\ CacheServer \in Manager(k).todo
Offering == \E k \in CacheClients : Offers(k)
\* The server will serve all its clients anew.
WillServe == woken[CacheServer] \/ Manager(CacheServer).pc = "debounce"
\* The server has still to serve c, is serving it what the server has, or has done so.
Served(c) ==
  LET t == Manager(CacheServer) IN
  \/ t.pc # "idle" /\ c \in t.todo
  \/ t.to = c /\ t.pc = "begin" /\ Same(t.data, disk[CacheServer])
  \/ /\ t.to = c /\ t.pc = "write" /\ Same(t.data, disk[CacheServer])
     /\ \A f \in SentFiles(t.data) \ t.left : f \in Ordinary => disk[c][f] = t.data[f]
  \/ ~(t.to = c /\ t.pc \in {"begin", "write"}) /\ Same(disk[c], disk[CacheServer])

Directed ==
  \A s \in Syncers :
    /\ transfer[s].todo \subseteq Peers(s[1])
    /\ transfer[s].pc \in {"begin", "write", "mark", "tell"} => transfer[s].to \in Peers(s[1])
    /\ transfer[s].pc = "write" => transfer[s].left \subseteq SentFiles(transfer[s].data)
Undisturbed ==
  calm => /\ \A n \in CacheNodes : transfer[<<n, "cli">>].pc = "idle"
          /\ \A d \in Deletions : deletion[d].pc = "given"
AgreementComes == calm => Offering \/ WillServe \/ \A c \in CacheClients : Served(c)

CacheInvariant ==
  CacheTypeOK /\ Directed /\ Undisturbed /\ AgreementComes /\ TombstonePerDeletion

-----------------------------------------------------------------------------
(* Types, and what a synchronization holds                                  *)

Pcs == {"idle", "debounce", "next", "begin", "write", "mark", "tell"}

\* What a step may do to the synchronizations: nothing, or one of them goes on.
Goes(s, t) ==
  /\ t \in Transfers /\ transfer' \in [Syncers -> Transfers]
  /\ transfer'[s] = t /\ \A r \in Syncers : r # s => transfer'[r] = transfer[r]
Fits(s, t) ==
  /\ t.todo \subseteq Peers(s[1])
  /\ t.pc \in {"begin", "write", "mark", "tell"} => t.to \in Peers(s[1])
  /\ t.pc = "write" => t.left \subseteq SentFiles(t.data)

LEMMA Naming ==
  /\ \A n \in CacheNodes : <<n, "manager">> \in Syncers /\ <<n, "cli">> \in Syncers
  /\ \A s \in Syncers : s[1] \in CacheNodes /\ Peers(s[1]) \subseteq CacheNodes /\ s = <<s[1], s[2]>>
                        /\ s[2] \in {"manager", "cli"}
  /\ CacheServer \in CacheNodes /\ CacheServer \notin CacheClients /\ CacheClients \subseteq CacheNodes
BY CacheConstants DEF Syncers, CacheNodes, Peers

LEMMA GoesKeepsDirected ==
  ASSUME NEW s \in Syncers, NEW t, Goes(s, t), Fits(s, t), Directed
  PROVE  Directed'
<1> SUFFICES ASSUME NEW r \in Syncers PROVE Fits(r, transfer'[r])
  BY DEF Directed, Fits, SentFiles, Peers
<1>1. CASE r = s
  BY <1>1 DEF Goes
<1>2. CASE r # s
  BY <1>2 DEF Goes, Directed, Fits
<1> QED
  BY <1>1, <1>2

\* The steps of one synchronization, each with the record it leaves.
LEMMA SyncerMoves ==
  ASSUME CacheTypeOK, Directed, NEW s \in Syncers
  PROVE  /\ \A peer \in CacheNodes : Build(s, peer) =>
              LET t == [pc |-> "begin", todo |-> transfer[s].todo \ {peer}, to |-> peer,
                        data |-> disk[s[1]], left |-> {}]
              IN Goes(s, t) /\ Fits(s, t)
         /\ \A peer \in CacheNodes : Miss(s, peer) =>
              LET t == [transfer[s] EXCEPT !.todo = @ \ {peer}] IN Goes(s, t) /\ Fits(s, t)
         /\ BeginApply(s) =>
              LET t == [transfer[s] EXCEPT !.pc = "write",
                          !.left = SentFiles(transfer[s].data) \ Tombstoned(transfer[s].to)]
              IN Goes(s, t) /\ Fits(s, t)
         /\ \A f \in CacheFiles : WriteFile(s, f) =>
              LET t == [transfer[s] EXCEPT !.left = @ \ {f}] IN Goes(s, t) /\ Fits(s, t)
         /\ DeleteStale(s) => LET t == [transfer[s] EXCEPT !.pc = "mark"] IN Goes(s, t) /\ Fits(s, t)
         /\ MarkSynced(s) =>
              LET t == [transfer[s] EXCEPT !.pc = IF s[1] = CacheServer THEN "next" ELSE "tell"]
              IN Goes(s, t) /\ Fits(s, t)
         /\ TellServer(s) => LET t == [transfer[s] EXCEPT !.pc = "next"] IN Goes(s, t) /\ Fits(s, t)
         /\ Note(s) => LET t == [transfer[s] EXCEPT !.pc = "idle"] IN Goes(s, t) /\ Fits(s, t)
<1>1. /\ transfer \in [Syncers -> Transfers] /\ transfer[s] \in Transfers /\ disk[s[1]] \in Contents
      /\ Fits(s, transfer[s])
  BY Naming DEF CacheTypeOK, Directed, Fits
<1>2. ASSUME NEW t \in Transfers, transfer' = [transfer EXCEPT ![s] = t]
      PROVE  Goes(s, t)
  BY <1>1, <1>2 DEF Goes
<1>3. ASSUME NEW pc \in Pcs, GoesOn(s, pc)
      PROVE  Goes(s, [transfer[s] EXCEPT !.pc = pc])
  <2>1. [transfer[s] EXCEPT !.pc = pc] \in Transfers
    BY <1>1 DEF Transfers, Pcs
  <2> QED
    BY <1>2, <1>3, <2>1 DEF GoesOn
<1>4. ASSUME NEW peer \in CacheNodes, Build(s, peer)
      PROVE  LET t == [pc |-> "begin", todo |-> transfer[s].todo \ {peer}, to |-> peer,
                       data |-> disk[s[1]], left |-> {}]
             IN Goes(s, t) /\ Fits(s, t)
  <2> DEFINE t == [pc |-> "begin", todo |-> transfer[s].todo \ {peer}, to |-> peer,
                   data |-> disk[s[1]], left |-> {}]
  <2>1. t \in Transfers
    BY <1>1 DEF Transfers
  <2>2. transfer' = [transfer EXCEPT ![s] = t] /\ peer \in transfer[s].todo
    BY <1>4 DEF Build
  <2>3. t.todo \subseteq Peers(s[1]) /\ t.to \in Peers(s[1])
    BY <1>1, <2>2 DEF Fits
  <2> QED
    BY <1>2, <2>1, <2>2, <2>3 DEF Fits
<1>5. ASSUME NEW peer \in CacheNodes, Miss(s, peer)
      PROVE  LET t == [transfer[s] EXCEPT !.todo = @ \ {peer}] IN Goes(s, t) /\ Fits(s, t)
  <2> DEFINE t == [transfer[s] EXCEPT !.todo = @ \ {peer}]
  <2>1. t \in Transfers /\ t.pc = "next" /\ t.todo = transfer[s].todo \ {peer}
    BY <1>1, <1>5 DEF Transfers, Miss
  <2>2. transfer' = [transfer EXCEPT ![s] = t]
    BY <1>5 DEF Miss
  <2> QED
    BY <1>1, <1>2, <2>1, <2>2 DEF Fits
<1>6. ASSUME BeginApply(s)
      PROVE  LET t == [transfer[s] EXCEPT !.pc = "write",
                          !.left = SentFiles(transfer[s].data) \ Tombstoned(transfer[s].to)]
             IN Goes(s, t) /\ Fits(s, t)
  <2> DEFINE l == SentFiles(transfer[s].data) \ Tombstoned(transfer[s].to)
             t == [transfer[s] EXCEPT !.pc = "write", !.left = l]
  <2>1. l \subseteq CacheFiles /\ l \subseteq SentFiles(transfer[s].data)
    BY DEF SentFiles
  <2>2. transfer' = [transfer EXCEPT ![s] = t] /\ transfer[s].pc = "begin"
    BY <1>6 DEF BeginApply
  <2> HIDE DEF l
  <2>3. t \in Transfers /\ t.todo = transfer[s].todo /\ t.to = transfer[s].to
        /\ t.left = l /\ t.data = transfer[s].data /\ t.pc = "write"
    BY <1>1, <2>1 DEF Transfers
  <2>4. Fits(s, t)
    BY <1>1, <2>1, <2>2, <2>3 DEF Fits
  <2>5. Goes(s, t)
    BY <1>2, <2>2, <2>3
  <2> QED
    BY <2>4, <2>5 DEF l
<1>7. ASSUME NEW f \in CacheFiles, WriteFile(s, f)
      PROVE  LET t == [transfer[s] EXCEPT !.left = @ \ {f}] IN Goes(s, t) /\ Fits(s, t)
  <2> DEFINE t == [transfer[s] EXCEPT !.left = @ \ {f}]
  <2>1. /\ t \in Transfers /\ t.pc = "write" /\ t.left \subseteq transfer[s].left
        /\ t.data = transfer[s].data /\ t.todo = transfer[s].todo /\ t.to = transfer[s].to
        /\ transfer[s].pc = "write"
    BY <1>1, <1>7 DEF Transfers, WriteFile
  <2>2. transfer' = [transfer EXCEPT ![s] = t]
    BY <1>7 DEF WriteFile
  <2> QED
    BY <1>1, <1>2, <2>1, <2>2 DEF Fits
<1>8. ASSUME NEW pc \in Pcs, GoesOn(s, pc), pc \notin {"begin", "write"},
             pc \in {"mark", "tell"} => transfer[s].pc \in {"write", "mark"}
      PROVE  LET t == [transfer[s] EXCEPT !.pc = pc] IN Goes(s, t) /\ Fits(s, t)
  <2> DEFINE t == [transfer[s] EXCEPT !.pc = pc]
  <2>1. t.pc = pc /\ t.todo = transfer[s].todo /\ t.to = transfer[s].to
    BY <1>1 DEF Transfers
  <2> QED
    BY <1>1, <1>3, <1>8, <2>1 DEF Fits
<1>9. DeleteStale(s) => LET t == [transfer[s] EXCEPT !.pc = "mark"] IN Goes(s, t) /\ Fits(s, t)
  BY <1>8 DEF DeleteStale, Pcs
<1>10. MarkSynced(s) =>
              LET t == [transfer[s] EXCEPT !.pc = IF s[1] = CacheServer THEN "next" ELSE "tell"]
              IN Goes(s, t) /\ Fits(s, t)
  BY <1>8 DEF MarkSynced, Pcs
<1>11. TellServer(s) => LET t == [transfer[s] EXCEPT !.pc = "next"] IN Goes(s, t) /\ Fits(s, t)
  BY <1>8 DEF TellServer, Pcs
<1>12. Note(s) => LET t == [transfer[s] EXCEPT !.pc = "idle"] IN Goes(s, t) /\ Fits(s, t)
  BY <1>8 DEF Note, Pcs
<1> QED
  BY <1>4, <1>5, <1>6, <1>7, <1>9, <1>10, <1>11, <1>12

\* The other steps of the managers and of the command line's thread.
LEMMA NodeMoves ==
  ASSUME CacheTypeOK, Directed, NEW n \in CacheNodes
  PROVE  /\ Wake(n) => LET s == <<n, "manager">>
                           t == [transfer[s] EXCEPT !.pc = "debounce"] IN Goes(s, t) /\ Fits(s, t)
         /\ Settle(n) => LET s == <<n, "manager">>
                             t == [transfer[s] EXCEPT !.pc = "next", !.todo = Peers(n)]
                         IN Goes(s, t) /\ Fits(s, t)
         /\ ForceSyncCache(n) => LET s == <<n, "cli">>
                                     t == [transfer[s] EXCEPT !.pc = "next", !.todo = Peers(n)]
                                 IN Goes(s, t) /\ Fits(s, t)
<1>1. ASSUME NEW s \in Syncers
      PROVE  /\ transfer \in [Syncers -> Transfers] /\ transfer[s] \in Transfers
             /\ Fits(s, transfer[s])
  BY DEF CacheTypeOK, Directed, Fits
<1>2. ASSUME NEW s \in Syncers, NEW t \in Transfers, transfer' = [transfer EXCEPT ![s] = t]
      PROVE  Goes(s, t)
  BY <1>1, <1>2 DEF Goes
<1>3. ASSUME NEW s \in Syncers, s[1] = n, NEW t, t = [transfer[s] EXCEPT !.pc = "next", !.todo = Peers(n)]
      PROVE  t \in Transfers /\ Fits(s, t)
  <2>1. Peers(n) \subseteq CacheNodes
    BY <1>3, Naming
  <2>2. t \in Transfers /\ t.pc = "next" /\ t.todo = Peers(n)
    BY <1>1, <1>3, <2>1 DEF Transfers
  <2> QED
    BY <1>3, <2>2 DEF Fits
<1>4. ASSUME Wake(n)
      PROVE  LET s == <<n, "manager">>
                 t == [transfer[s] EXCEPT !.pc = "debounce"] IN Goes(s, t) /\ Fits(s, t)
  <2> DEFINE s == <<n, "manager">>
             t == [transfer[s] EXCEPT !.pc = "debounce"]
  <2>1. s \in Syncers /\ transfer' = [transfer EXCEPT ![s] = t]
    BY <1>4, Naming DEF Wake, GoesOn
  <2> HIDE DEF s
  <2>2. t \in Transfers /\ t.pc = "debounce" /\ t.todo = transfer[s].todo
    BY <1>1, <2>1 DEF Transfers
  <2>3. Goes(s, t) /\ Fits(s, t)
    BY <1>1, <1>2, <2>1, <2>2 DEF Fits
  <2> QED
    BY <2>3 DEF s
<1>5. ASSUME Settle(n)
      PROVE  LET s == <<n, "manager">>
                 t == [transfer[s] EXCEPT !.pc = "next", !.todo = Peers(n)]
             IN Goes(s, t) /\ Fits(s, t)
  <2> DEFINE s == <<n, "manager">>
             t == [transfer[s] EXCEPT !.pc = "next", !.todo = Peers(n)]
  <2>1. s \in Syncers /\ s[1] = n /\ transfer' = [transfer EXCEPT ![s] = t]
    BY <1>1, <1>5, Naming DEF Settle
  <2> HIDE DEF s
  <2>2. t \in Transfers /\ Fits(s, t)
    BY <1>3, <2>1
  <2>3. Goes(s, t)
    BY <1>2, <2>1, <2>2
  <2> QED
    BY <2>2, <2>3 DEF s
<1>6. ASSUME ForceSyncCache(n)
      PROVE  LET s == <<n, "cli">>
                 t == [transfer[s] EXCEPT !.pc = "next", !.todo = Peers(n)]
             IN Goes(s, t) /\ Fits(s, t)
  <2> DEFINE s == <<n, "cli">>
             t == [transfer[s] EXCEPT !.pc = "next", !.todo = Peers(n)]
  <2>1. s \in Syncers /\ s[1] = n /\ transfer' = [transfer EXCEPT ![s] = t]
    BY <1>1, <1>6, Naming DEF ForceSyncCache
  <2> HIDE DEF s
  <2>2. t \in Transfers /\ Fits(s, t)
    BY <1>3, <2>1
  <2>3. Goes(s, t)
    BY <1>2, <2>1, <2>2
  <2> QED
    BY <2>2, <2>3 DEF s
<1> QED
  BY <1>4, <1>5, <1>6

\* The steps that leave the synchronizations alone.
FileStep == \E n \in CacheNodes : (\E f \in CacheFiles : EditFile(n, f)) \/ ClearCache(n) \/ PollForChanges(n)
DeletionStep == \E d \in Deletions : DeleteStep(d)
MovingStep ==
  \/ \E n \in CacheNodes : Wake(n) \/ Settle(n) \/ ForceSyncCache(n)
  \/ \E s \in Syncers : SyncerStep(s) \/ \E peer \in CacheNodes : Miss(s, peer)

LEMMA CacheSteps == CacheNext => FileStep \/ DeletionStep \/ MovingStep
BY Naming DEF CacheNext, FileStep, DeletionStep, MovingStep, ManagerStep

LEMMA MovingIsDirected ==
  ASSUME CacheTypeOK, Directed, MovingStep
  PROVE  \E s \in Syncers, t \in Transfers : Goes(s, t) /\ Fits(s, t)
<1>1. ASSUME NEW n \in CacheNodes, Wake(n) \/ Settle(n) \/ ForceSyncCache(n)
      PROVE  \E s \in Syncers, t \in Transfers : Goes(s, t) /\ Fits(s, t)
  BY <1>1, NodeMoves, Naming DEF Goes
<1>2. ASSUME NEW s \in Syncers, SyncerStep(s) \/ \E peer \in CacheNodes : Miss(s, peer)
      PROVE  \E t \in Transfers : Goes(s, t) /\ Fits(s, t)
  BY <1>2, SyncerMoves DEF Goes, SyncerStep
<1> QED
  BY <1>1, <1>2 DEF MovingStep

LEMMA CacheTypeStep ==
  ASSUME CacheTypeOK, Directed, CacheNext
  PROVE  CacheTypeOK' /\ Directed'
<1>1. /\ disk \in [CacheNodes -> Contents] /\ manifest \in [CacheNodes -> Contents]
      /\ woken \in [CacheNodes -> BOOLEAN] /\ transfer \in [Syncers -> Transfers]
      /\ tombstones \in [CacheFiles -> Nat] /\ calm \in BOOLEAN
      /\ deletion \in [Deletions -> [pc : Steps, file : CacheFiles, from : CacheNodes,
                                     left : SUBSET CacheClients]]
      /\ events \in 0 .. CacheEvents /\ CacheEvents \in Nat
  BY CacheConstants DEF CacheTypeOK
<1>2. ASSUME NEW n \in CacheNodes, NEW f \in CacheFiles, NEW e \in 0 .. CacheEvents
      PROVE  [disk EXCEPT ![n][f] = e] \in [CacheNodes -> Contents]
  BY <1>1 DEF Contents
<1>3. events < CacheEvents => events + 1 \in 0 .. CacheEvents
  BY <1>1
<1>4. Absent \in 0 .. CacheEvents
  BY <1>1 DEF Absent
<1>5. ASSUME FileStep PROVE CacheTypeOK' /\ Directed'
  <2>1. PICK n \in CacheNodes : (\E f \in CacheFiles : EditFile(n, f)) \/ ClearCache(n) \/ PollForChanges(n)
    BY <1>5 DEF FileStep
  <2>2. UNCHANGED << transfer, tombstones, deletion, calm >>
    BY <2>1 DEF EditFile, ClearCache, PollForChanges, counts
  <2>3. disk' \in [CacheNodes -> Contents] /\ events' \in 0 .. CacheEvents
    <3>1. CASE \E f \in CacheFiles : EditFile(n, f)
      <4>1. PICK f \in CacheFiles : EditFile(n, f)
        BY <3>1
      <4>2. events' \in 0 .. CacheEvents /\ disk' = [disk EXCEPT ![n][f] = events']
        BY <1>3, <4>1 DEF EditFile
      <4> QED
        BY <1>2, <4>2
    <3>2. CASE ClearCache(n)
      <4>1. [f \in CacheFiles |-> IF f \in CustomImages THEN disk[n][f] ELSE Absent] \in Contents
        BY <1>1, <1>4 DEF Contents
      <4> QED
        BY <1>1, <1>3, <3>2, <4>1 DEF ClearCache
    <3>3. CASE PollForChanges(n)
      BY <1>1, <3>3 DEF PollForChanges, counts
    <3> QED
      BY <2>1, <3>1, <3>2, <3>3
  <2>4. woken' \in [CacheNodes -> BOOLEAN]
    BY <1>1, <2>1 DEF EditFile, ClearCache, PollForChanges
  <2>5. manifest' \in [CacheNodes -> Contents]
    BY <1>1, <2>1 DEF EditFile, ClearCache, PollForChanges
  <2>6. Directed'
    BY <2>2 DEF Directed
  <2>7. CacheTypeOK'
    BY <1>1, <2>2, <2>3, <2>4, <2>5 DEF CacheTypeOK
  <2> QED
    BY <2>6, <2>7
<1>6. ASSUME MovingStep PROVE CacheTypeOK' /\ Directed'
  <2>1. PICK s \in Syncers, t \in Transfers : Goes(s, t) /\ Fits(s, t)
    BY <1>6, MovingIsDirected
  <2>2. Directed'
    BY <2>1, GoesKeepsDirected
  <2>3. transfer' \in [Syncers -> Transfers]
    BY <2>1 DEF Goes
  <2>4. UNCHANGED << tombstones, deletion >>
    BY <1>6 DEF MovingStep, Wake, Settle, ForceSyncCache, SyncerStep, Build, BeginApply, WriteFile,
                DeleteStale, MarkSynced, TellServer, Note, Miss
  <2>5. calm' \in BOOLEAN /\ events' \in 0 .. CacheEvents
    BY <1>1, <1>3, <1>6 DEF MovingStep, Wake, Settle, ForceSyncCache, SyncerStep, Build, BeginApply, WriteFile,
                DeleteStale, MarkSynced, TellServer, Note, Miss, counts
  <2>6. woken' \in [CacheNodes -> BOOLEAN]
    BY <1>1, <1>6 DEF MovingStep, Wake, Settle, ForceSyncCache, SyncerStep, Build, BeginApply, WriteFile,
                DeleteStale, MarkSynced, TellServer, Note, Miss
  <2>7. disk' \in [CacheNodes -> Contents] /\ manifest' \in [CacheNodes -> Contents]
    <3>1. CASE \E n \in CacheNodes : Wake(n) \/ Settle(n) \/ ForceSyncCache(n)
      BY <1>1, <3>1 DEF Wake, Settle, ForceSyncCache
    <3>2. ASSUME NEW r \in Syncers, SyncerStep(r) \/ \E peer \in CacheNodes : Miss(r, peer)
          PROVE  disk' \in [CacheNodes -> Contents] /\ manifest' \in [CacheNodes -> Contents]
      <4>1. transfer[r] \in Transfers /\ transfer[r].to \in CacheNodes /\ transfer[r].data \in Contents
        BY <1>1 DEF Transfers
      <4>2. CASE \E f \in CacheFiles : WriteFile(r, f)
        <5>1. PICK f \in CacheFiles : WriteFile(r, f)
          BY <4>2
        <5>2. transfer[r].data[f] \in 0 .. CacheEvents
          BY <4>1 DEF Contents
        <5> QED
          BY <1>1, <1>2, <4>1, <5>1, <5>2 DEF WriteFile
      <4>3. CASE DeleteStale(r)
        <5>1. [f \in CacheFiles |-> IF f \in Kept(transfer[r].data) THEN disk[transfer[r].to][f] ELSE Absent]
                \in Contents
          BY <1>1, <1>4, <4>1 DEF Contents
        <5> QED
          BY <1>1, <4>1, <4>3, <5>1 DEF DeleteStale
      <4>4. CASE MarkSynced(r)
        BY <1>1, <4>1, <4>4 DEF MarkSynced
      <4>5. CASE Note(r)
        BY <1>1, <4>5, Naming DEF Note
      <4>6. CASE BeginApply(r) \/ TellServer(r) \/ \E peer \in CacheNodes : Build(r, peer) \/ Miss(r, peer)
        BY <1>1, <4>6 DEF BeginApply, TellServer, Build, Miss
      <4> QED
        BY <3>2, <4>2, <4>3, <4>4, <4>5, <4>6 DEF SyncerStep
    <3> QED
      BY <1>6, <3>1, <3>2 DEF MovingStep
  <2>8. CacheTypeOK'
    BY <1>1, <2>3, <2>4, <2>5, <2>6, <2>7 DEF CacheTypeOK
  <2> QED
    BY <2>2, <2>8
<1>7. ASSUME DeletionStep PROVE CacheTypeOK' /\ Directed'
  <2>1. PICK d \in Deletions : DeleteStep(d)
    BY <1>7 DEF DeletionStep
  <2>2. UNCHANGED << transfer, woken >>
    BY <2>1 DEF DeleteStep, GiveDelete, DeleteHere, AddTombstone, DeleteOnServer, DeleteOnClient,
                DeletedOnServer, DeleteBack
  <2>3. calm' \in BOOLEAN /\ events' \in 0 .. CacheEvents
    BY <1>1, <1>3, <2>1 DEF DeleteStep, GiveDelete, DeleteHere, AddTombstone, DeleteOnServer, DeleteOnClient,
                DeletedOnServer, DeleteBack, counts
  <2>4. /\ deletion[d].file \in CacheFiles /\ deletion[d].from \in CacheNodes
        /\ deletion[d].pc \in Steps /\ deletion[d].left \subseteq CacheClients
    BY <1>1
  <2>5. deletion' \in [Deletions -> [pc : Steps, file : CacheFiles, from : CacheNodes,
                                     left : SUBSET CacheClients]]
    BY <1>1, <2>1, <2>4 DEF DeleteStep, GiveDelete, DeleteHere, AddTombstone, DeleteOnServer, DeleteOnClient,
                DeletedOnServer, DeleteBack, Deletes, Steps
  <2>6. tombstones' \in [CacheFiles -> Nat]
    <3>1. \A i \in Nat : i + 1 \in Nat /\ Removed(i) \in Nat
      BY DEF Removed
    <3> QED
      BY <1>1, <2>1, <3>1 DEF DeleteStep, GiveDelete, DeleteHere, AddTombstone, DeleteOnServer, DeleteOnClient,
                DeletedOnServer, DeleteBack
  <2>7. disk' \in [CacheNodes -> Contents]
    <3>1. disk' = disk \/ \E n \in CacheNodes : disk' = [disk EXCEPT ![n][deletion[d].file] = Absent]
      BY <2>1, <2>4, Naming DEF DeleteStep, GiveDelete, DeleteHere, AddTombstone,
         DeleteOnServer, DeleteOnClient, DeletedOnServer, DeleteBack
    <3> QED
      BY <1>1, <1>2, <1>4, <2>4, <3>1
  <2>8. manifest' \in [CacheNodes -> Contents]
    <3>1. \/ manifest' = manifest
          \/ \E n \in CacheNodes : \/ manifest' = [manifest EXCEPT ![n] = disk[n]]
                                  \/ manifest' = [manifest EXCEPT ![n] = disk'[n]]
      BY <2>1, <2>4, Naming DEF DeleteStep, GiveDelete, DeleteHere, AddTombstone,
         DeleteOnServer, DeleteOnClient, DeletedOnServer, DeleteBack
    <3> QED
      BY <1>1, <2>7, <3>1
  <2>9. Directed'
    BY <2>2 DEF Directed
  <2>10. CacheTypeOK'
    BY <1>1, <2>2, <2>3, <2>5, <2>6, <2>7, <2>8 DEF CacheTypeOK
  <2> QED
    BY <2>9, <2>10
<1> QED
  BY <1>5, <1>6, <1>7, CacheSteps

-----------------------------------------------------------------------------
(* Whoever comes to rest agrees                                             *)

LEMMA UndisturbedStep ==
  ASSUME CacheTypeOK, Undisturbed, CacheNext
  PROVE  Undisturbed'
<1> SUFFICES ASSUME calm'
             PROVE  /\ \A n \in CacheNodes : transfer'[<<n, "cli">>].pc = "idle"
                    /\ \A d \in Deletions : deletion'[d].pc = "given"
  BY DEF Undisturbed
<1>1. /\ transfer \in [Syncers -> Transfers] /\ disk \in [CacheNodes -> Contents]
  BY DEF CacheTypeOK
<1>2. CASE FileStep
  BY <1>2 DEF FileStep, EditFile, ClearCache, PollForChanges, counts, Undisturbed
<1>3. CASE DeletionStep
  BY <1>3 DEF DeletionStep, DeleteStep, GiveDelete, DeleteHere, AddTombstone, DeleteOnServer, DeleteOnClient,
              DeletedOnServer, DeleteBack, counts, Undisturbed
<1>4. CASE MovingStep
  <2>1. calm /\ deletion' = deletion
    BY <1>4 DEF MovingStep, Wake, Settle, ForceSyncCache, SyncerStep, Build, BeginApply, WriteFile,
                DeleteStale, MarkSynced, TellServer, Note, Miss, counts
  <2>2. ASSUME NEW s \in Syncers, SyncerStep(s)
        PROVE  s[2] = "manager" /\ \A r \in Syncers : r # s => transfer'[r] = transfer[r]
    <3>1. transfer[s].pc # "idle"
      BY <2>2 DEF SyncerStep, Build, BeginApply, WriteFile, DeleteStale, MarkSynced, TellServer, Note
    <3>2. \A r \in Syncers : r # s => transfer'[r] = transfer[r]
      BY <1>1, <2>2 DEF SyncerStep, Build, BeginApply, WriteFile, DeleteStale, MarkSynced, TellServer,
                        Note, GoesOn
    <3> QED
      BY <2>1, <3>1, <3>2, Naming DEF Undisturbed
  <2>3. ASSUME NEW n \in CacheNodes, Wake(n) \/ Settle(n)
        PROVE  \A r \in Syncers : r # <<n, "manager">> => transfer'[r] = transfer[r]
    BY <1>1, <2>3 DEF Wake, Settle, GoesOn
  <2>4. \A n \in CacheNodes : ~ForceSyncCache(n) /\ \A s \in Syncers, peer \in CacheNodes : ~Miss(s, peer)
    BY DEF ForceSyncCache, Miss
  <2>5. \A n \in CacheNodes : transfer'[<<n, "cli">>] = transfer[<<n, "cli">>]
    BY <1>4, <2>2, <2>3, <2>4, Naming DEF MovingStep
  <2> QED
    BY <2>1, <2>5 DEF Undisturbed
<1> QED
  BY <1>2, <1>3, <1>4, CacheSteps

LEMMA AgreementAtFileSteps ==
  ASSUME CacheTypeOK, AgreementComes, FileStep
  PROVE  AgreementComes'
<1> SUFFICES ASSUME calm PROVE (Offering \/ WillServe \/ \A c \in CacheClients : Served(c))'
  BY DEF AgreementComes, FileStep, EditFile, ClearCache, PollForChanges, counts
<1>1. /\ disk \in [CacheNodes -> Contents] /\ woken \in [CacheNodes -> BOOLEAN]
  BY DEF CacheTypeOK
<1>2. PICK n \in CacheNodes : (\E f \in CacheFiles : EditFile(n, f)) \/ ClearCache(n) \/ PollForChanges(n)
  BY DEF FileStep
<1>3. transfer' = transfer /\ \A m \in CacheNodes : woken[m] => woken'[m]
  BY <1>1, <1>2 DEF EditFile, ClearCache, PollForChanges
<1>4. CASE woken'[n]
  BY <1>4, Naming DEF Offers, Offering, WillServe, CacheNodes
<1>5. CASE ~woken'[n]
  <2>1. PICK f \in CacheFiles : EditFile(n, f)
    BY <1>1, <1>2, <1>5 DEF ClearCache, PollForChanges
  <2>2. f \notin Ordinary
    BY <1>1, <1>5, <2>1 DEF EditFile, Ordinary
  <2>3. \A m \in CacheNodes, g \in Ordinary : disk'[m][g] = disk[m][g]
    BY <1>1, <2>1, <2>2 DEF EditFile, Contents, Ordinary
  <2>4. \A c \in CacheClients : Served(c) => Served(c)'
    BY <1>3, <2>3, Naming DEF Served, Same, Manager
  <2>5. Offering => Offering'
    BY <1>3, Naming DEF Offers, Offering, Manager
  <2>6. WillServe => WillServe'
    BY <1>3, Naming DEF WillServe, Manager
  <2> QED
    BY <2>4, <2>5, <2>6 DEF AgreementComes
<1> QED
  BY <1>4, <1>5

LEMMA ClientAtWork ==
  ASSUME CacheTypeOK, Directed, NEW k \in CacheClients, ManagerStep(k),
         Offering \/ WillServe \/ \A c \in CacheClients : Served(c)
  PROVE  (Offering \/ WillServe \/ \A c \in CacheClients : Served(c))'
<1> DEFINE s == <<k, "manager">>
<1>1. /\ s \in Syncers /\ s[1] = k /\ k \in CacheNodes /\ k # CacheServer /\ Peers(k) = {CacheServer}
      /\ transfer \in [Syncers -> Transfers] /\ woken \in [CacheNodes -> BOOLEAN]
  BY Naming DEF CacheTypeOK, Peers
<1> HIDE DEF s
<1>2. CASE Wake(k)
  <2> DEFINE u == [transfer[s] EXCEPT !.pc = "debounce"]
  <2>0. transfer'[s] = u
    BY <1>1, <1>2, NodeMoves DEF s, Goes
  <2>1. transfer'[s].pc = "debounce"
    BY <1>1, <2>0 DEF Transfers
  <2> QED
    BY <2>1 DEF Offers, Offering, Manager, s
<1>3. CASE Settle(k)
  <2> DEFINE u == [transfer[s] EXCEPT !.pc = "next", !.todo = Peers(k)]
  <2>1. transfer'[s] = u
    BY <1>1, <1>3, NodeMoves DEF s, Goes
  <2>2. u.pc = "next" /\ u.todo = {CacheServer}
    BY <1>1 DEF Transfers
  <2>3. transfer'[s].pc = "next" /\ transfer'[s].todo = {CacheServer}
    BY <2>1, <2>2
  <2> QED
    BY <2>3 DEF Offers, Offering, Manager, s
<1>4. CASE BeginApply(s) \/ DeleteStale(s) \/ MarkSynced(s) \/ (\E f \in CacheFiles : WriteFile(s, f))
           \/ \E peer \in CacheNodes : Build(s, peer)
  <2> DEFINE t == transfer[s]
  <2>1. t \in Transfers
    BY <1>1
  <2> HIDE DEF t
  <2>2. ASSUME NEW pc \in {"mark", "tell"}, GoesOn(s, pc)
        PROVE  transfer'[s].pc = pc
    <3>1. transfer'[s] = [t EXCEPT !.pc = pc]
      BY <1>1, <2>2 DEF GoesOn, t
    <3> QED
      BY <2>1, <3>1 DEF Transfers
  <2>3. DeleteStale(s) => transfer'[s].pc = "mark"
    BY <2>2 DEF DeleteStale
  <2>4. MarkSynced(s) => transfer'[s].pc = "tell"
    BY <1>1, <2>2 DEF MarkSynced
  <2>5. ASSUME BeginApply(s)
        PROVE  transfer'[s].pc = "write"
    <3> DEFINE l == SentFiles(t.data) \ Tombstoned(t.to)
    <3>1. transfer'[s] = [t EXCEPT !.pc = "write", !.left = l] /\ l \subseteq CacheFiles
      BY <1>1, <2>5 DEF BeginApply, t, SentFiles
    <3> HIDE DEF l
    <3> QED
      BY <2>1, <3>1 DEF Transfers
  <2>6. ASSUME NEW f \in CacheFiles, WriteFile(s, f)
        PROVE  transfer'[s].pc = "write"
    <3>1. transfer'[s] = [t EXCEPT !.left = @ \ {f}] /\ t.pc = "write"
      BY <1>1, <2>6 DEF WriteFile, t
    <3> QED
      BY <2>1, <3>1 DEF Transfers
  <2>7. ASSUME NEW peer \in CacheNodes, Build(s, peer)
        PROVE  transfer'[s].pc = "begin"
    BY <1>1, <2>7 DEF Build
  <2>8. transfer'[s].pc \in {"begin", "write", "mark", "tell"}
    BY <1>4, <2>3, <2>4, <2>5, <2>6, <2>7
  <2> QED
    BY <2>8 DEF Offers, Offering, Manager, s
<1>5. CASE TellServer(s)
  BY <1>1, <1>5, Naming DEF TellServer, WillServe
<1>6. CASE Note(s)
  <2>1. /\ UNCHANGED << disk, woken >> /\ transfer[s].pc = "next" /\ transfer[s].todo = {}
        /\ \A r \in Syncers : r # s => transfer'[r] = transfer[r]
    BY <1>1, <1>6 DEF Note, GoesOn
  <2>2. \A n \in CacheNodes : n # k => Manager(n)' = Manager(n)
    BY <2>1, Naming DEF Manager, s
  <2>3. Offering => Offering'
    <3>1. ASSUME NEW m \in CacheClients, m # k, Offers(m) PROVE Offering'
      BY <2>1, <2>2, <3>1, Naming DEF Offers, Offering
    <3>2. ASSUME Offers(k) PROVE Offering'
      BY <2>1, <3>2 DEF Offers, Offering, Manager, s
    <3> QED
      BY <3>1, <3>2 DEF Offering
  <2>4. Manager(CacheServer)' = Manager(CacheServer)
    BY <1>1, <2>2, Naming
  <2>5. WillServe => WillServe'
    BY <2>1, <2>4 DEF WillServe
  <2>6. \A c \in CacheClients : Served(c) => Served(c)'
    BY <2>1, <2>4 DEF Served
  <2> QED
    BY <2>3, <2>5, <2>6
<1> QED
  BY <1>2, <1>3, <1>4, <1>5, <1>6 DEF ManagerStep, SyncerStep, s

LEMMA ServerAtWork ==
  ASSUME CacheTypeOK, Directed, ManagerStep(CacheServer),
         Offering \/ WillServe \/ \A c \in CacheClients : Served(c)
  PROVE  (Offering \/ WillServe \/ \A c \in CacheClients : Served(c))'
<1> DEFINE s == <<CacheServer, "manager">>
           t == transfer[s]
<1>1. /\ s \in Syncers /\ s[1] = CacheServer /\ Peers(CacheServer) = CacheClients
      /\ transfer \in [Syncers -> Transfers] /\ t \in Transfers /\ Fits(s, t)
      /\ disk \in [CacheNodes -> Contents] /\ woken \in [CacheNodes -> BOOLEAN]
  BY Naming DEF CacheTypeOK, Peers, Directed, Fits
<1>2. Manager(CacheServer) = t /\ Manager(CacheServer)' = transfer'[s]
  BY DEF Manager
<1> HIDE DEF s, t
<1>3. CASE Wake(CacheServer)
  <2>1. transfer'[s] = [t EXCEPT !.pc = "debounce"]
    BY <1>3, Naming, NodeMoves DEF s, t, Goes
  <2>2. transfer'[s].pc = "debounce"
    BY <1>1, <2>1 DEF Transfers
  <2> QED
    BY <1>2, <2>2 DEF WillServe
<1>4. CASE Settle(CacheServer)
  <2>1. transfer'[s] = [t EXCEPT !.pc = "next", !.todo = CacheClients]
    BY <1>1, <1>4, Naming, NodeMoves DEF s, t, Goes
  <2>2. transfer'[s].pc = "next" /\ transfer'[s].todo = CacheClients
    BY <1>1, <2>1 DEF Transfers
  <2> QED
    BY <1>2, <2>2 DEF Served
<1>5. ASSUME SyncerStep(s)
      PROVE  /\ Offering => Offering'
             /\ woken' = woken /\ t.pc \notin {"idle", "debounce"} /\ WillServe => WillServe'
  <2>1. /\ t.pc \notin {"idle", "debounce"} /\ \A r \in Syncers : r # s => transfer'[r] = transfer[r]
        /\ \A m \in CacheNodes : woken[m] => woken'[m]
    BY <1>1, <1>5 DEF SyncerStep, Build, BeginApply, WriteFile, DeleteStale, MarkSynced, TellServer,
                      Note, GoesOn, t
  <2>2. \A k \in CacheClients : Manager(k)' = Manager(k)
    BY <2>1, Naming DEF Manager, s
  <2>3. Offering => Offering'
    BY <2>1, <2>2, Naming DEF Offers, Offering
  <2>4. woken' = woken /\ WillServe => WillServe'
    BY <1>2, <2>1 DEF WillServe
  <2> QED
    BY <2>1, <2>3, <2>4
<1>6. ASSUME NEW u, Goes(s, u), u.todo = t.todo, u.pc \notin {"idle", "begin", "write"},
             t.pc # "idle", t.pc \notin {"begin", "write"}, disk' = disk
      PROVE  \A c \in CacheClients : Served(c) => Served(c)'
  BY <1>2, <1>6 DEF Served, Goes
<1>7. CASE \E peer \in CacheNodes : Build(s, peer)
  <2>1. PICK peer \in CacheNodes : Build(s, peer)
    BY <1>7
  <2> DEFINE u == [pc |-> "begin", todo |-> t.todo \ {peer}, to |-> peer,
                   data |-> disk[CacheServer], left |-> {}]
  <2>2. transfer'[s] = u /\ t.pc = "next" /\ UNCHANGED << disk, woken >>
    BY <1>1, <2>1, SyncerMoves DEF Goes, Build, t
  <2>3. ASSUME NEW c \in CacheClients, Served(c) PROVE Served(c)'
    <3>1. CASE c = peer
      BY <1>2, <2>2, <3>1 DEF Served, Same
    <3>2. CASE c # peer
      BY <1>2, <2>2, <2>3, <3>2 DEF Served
    <3> QED
      BY <3>1, <3>2
  <2> QED
    BY <1>5, <2>1, <2>2, <2>3 DEF SyncerStep
<1>8. CASE BeginApply(s)
  <2>1. /\ transfer'[s] = [t EXCEPT !.pc = "write", !.left = SentFiles(t.data) \ Tombstoned(t.to)]
        /\ t.pc = "begin" /\ UNCHANGED << disk, woken >>
    BY <1>1, <1>8, SyncerMoves DEF Goes, BeginApply, t
  <2>2. t.to # CacheServer
    BY <1>1, <2>1, Naming DEF Fits
  <2>3. transfer'[s] = [t EXCEPT !.pc = "write", !.left = SentFiles(t.data)]
    BY <2>1, <2>2 DEF Tombstoned
  <2>4. /\ transfer'[s].pc = "write" /\ transfer'[s].left = SentFiles(t.data)
        /\ transfer'[s].todo = t.todo /\ transfer'[s].to = t.to /\ transfer'[s].data = t.data
    BY <1>1, <2>3 DEF Transfers
  <2>5. \A c \in CacheClients : Served(c) => Served(c)'
    BY <1>2, <2>1, <2>4 DEF Served
  <2> QED
    BY <1>5, <1>8, <2>1, <2>5 DEF SyncerStep
<1>9. CASE \E f \in CacheFiles : WriteFile(s, f)
  <2>1. PICK f \in CacheFiles : WriteFile(s, f)
    BY <1>9
  <2>2. /\ transfer'[s] = [t EXCEPT !.left = @ \ {f}] /\ t.pc = "write" /\ f \in t.left
        /\ disk' = [disk EXCEPT ![t.to][f] = t.data[f]] /\ woken' = woken
    BY <1>1, <2>1, SyncerMoves DEF Goes, WriteFile, t
  <2>3. /\ transfer'[s].pc = "write" /\ transfer'[s].left = t.left \ {f}
        /\ transfer'[s].todo = t.todo /\ transfer'[s].to = t.to /\ transfer'[s].data = t.data
    BY <1>1, <2>2 DEF Transfers
  <2>4. t.to \in CacheClients /\ t.to \in CacheNodes /\ t.to # CacheServer
    BY <1>1, <2>2, Naming DEF Fits
  <2>5. /\ disk'[t.to][f] = t.data[f] /\ \A g \in CacheFiles : g # f => disk'[t.to][g] = disk[t.to][g]
        /\ \A c \in CacheNodes : c # t.to => disk'[c] = disk[c]
    BY <1>1, <2>2, <2>4 DEF Contents
  <2>6. ASSUME NEW c \in CacheClients, Served(c) PROVE Served(c)'
    <3>1. disk'[CacheServer] = disk[CacheServer]
      BY <2>4, <2>5, Naming
    <3>2. CASE c # t.to
      <4>1. disk'[c] = disk[c]
        BY <2>5, <3>2, Naming
      <4> QED
        BY <1>2, <2>2, <2>3, <2>6, <3>1, <3>2, <4>1 DEF Served
    <3>3. CASE c = t.to
      <4>1. CASE c \in t.todo
        BY <1>2, <2>3, <4>1 DEF Served
      <4>2. CASE /\ Same(t.data, disk[CacheServer])
                 /\ \A g \in SentFiles(t.data) \ t.left : g \in Ordinary => disk[c][g] = t.data[g]
        <5>1. \A g \in SentFiles(t.data) \ (t.left \ {f}) : g \in Ordinary => disk'[c][g] = t.data[g]
          BY <2>5, <3>3, <4>2 DEF SentFiles
        <5> QED
          BY <1>2, <2>3, <3>1, <3>3, <4>2, <5>1 DEF Served
      <4> QED
        BY <1>2, <2>2, <2>6, <3>3, <4>1, <4>2 DEF Served
    <3> QED
      BY <3>2, <3>3
  <2> QED
    BY <1>5, <2>1, <2>2, <2>6 DEF SyncerStep
<1>10. CASE DeleteStale(s)
  <2>1. /\ transfer'[s] = [t EXCEPT !.pc = "mark"] /\ t.pc = "write" /\ t.left = {} /\ woken' = woken
        /\ disk' = [disk EXCEPT ![t.to] = [f \in CacheFiles |-> IF f \in Kept(t.data) THEN @[f] ELSE Absent]]
    BY <1>1, <1>10, SyncerMoves DEF Goes, DeleteStale, t
  <2>2. transfer'[s].pc = "mark" /\ transfer'[s].todo = t.todo
    BY <1>1, <2>1 DEF Transfers
  <2>3. t.to \in CacheClients /\ t.to \in CacheNodes /\ t.to # CacheServer
    BY <1>1, <2>1, Naming DEF Fits
  <2>4. /\ \A f \in CacheFiles : disk'[t.to][f] = IF f \in Kept(t.data) THEN disk[t.to][f] ELSE Absent
        /\ \A c \in CacheNodes : c # t.to => disk'[c] = disk[c]
    BY <1>1, <2>1, <2>3
  <2>5. ASSUME NEW c \in CacheClients, Served(c) PROVE Served(c)'
    <3>1. disk'[CacheServer] = disk[CacheServer]
      BY <2>3, <2>4, Naming
    <3>2. CASE c # t.to
      <4>1. disk'[c] = disk[c]
        BY <2>4, <3>2, Naming
      <4> QED
        BY <1>2, <2>1, <2>2, <2>5, <3>1, <3>2, <4>1 DEF Served
    <3>3. CASE c = t.to
      <4>1. CASE c \in t.todo
        BY <1>2, <2>2, <4>1 DEF Served
      <4>2. CASE /\ Same(t.data, disk[CacheServer])
                 /\ \A g \in SentFiles(t.data) : g \in Ordinary => disk[c][g] = t.data[g]
        <5>1. \A g \in Ordinary : disk'[c][g] = t.data[g]
          BY <2>4, <3>3, <4>2 DEF Kept, SentFiles, Ordinary
        <5>2. Same(disk'[c], disk'[CacheServer])
          BY <3>1, <4>2, <5>1 DEF Same
        <5> QED
          BY <1>2, <2>2, <5>2 DEF Served
      <4> QED
        BY <1>2, <2>1, <2>5, <3>3, <4>1, <4>2 DEF Served
    <3> QED
      BY <3>2, <3>3
  <2> QED
    BY <1>5, <1>10, <2>1, <2>5 DEF SyncerStep
<1>11. CASE MarkSynced(s)
  <2>1. Goes(s, [t EXCEPT !.pc = "next"]) /\ t.pc = "mark" /\ UNCHANGED << disk, woken >>
    BY <1>1, <1>11, SyncerMoves DEF MarkSynced, t
  <2>2. [t EXCEPT !.pc = "next"].pc = "next" /\ [t EXCEPT !.pc = "next"].todo = t.todo
    BY <1>1 DEF Transfers
  <2> QED
    BY <1>5, <1>6, <1>11, <2>1, <2>2 DEF SyncerStep
<1>12. CASE TellServer(s)
  BY <1>1, <1>12, Naming DEF TellServer, WillServe
<1>13. CASE Note(s)
  <2>1. /\ transfer'[s] = [t EXCEPT !.pc = "idle"] /\ t.pc = "next" /\ t.todo = {}
        /\ UNCHANGED << disk, woken >>
    BY <1>1, <1>13, SyncerMoves DEF Goes, Note, t
  <2>2. transfer'[s].pc = "idle"
    BY <1>1, <2>1 DEF Transfers
  <2>3. \A c \in CacheClients : Served(c) => Served(c)'
    BY <1>2, <2>1, <2>2 DEF Served
  <2> QED
    BY <1>5, <1>13, <2>1, <2>3 DEF SyncerStep
<1> QED
  BY <1>3, <1>4, <1>7, <1>8, <1>9, <1>10, <1>11, <1>12, <1>13 DEF ManagerStep, SyncerStep, s

LEMMA AgreementStep ==
  ASSUME CacheTypeOK, Directed, Undisturbed, AgreementComes, CacheNext
  PROVE  AgreementComes'
<1>1. CASE FileStep
  BY <1>1, AgreementAtFileSteps
<1>2. CASE DeletionStep
  <2>1. ~calm'
    BY <1>2 DEF DeletionStep, DeleteStep, GiveDelete, DeleteHere, AddTombstone, DeleteOnServer,
                DeleteOnClient, DeletedOnServer, DeleteBack, counts, Undisturbed
  <2> QED
    BY <2>1 DEF AgreementComes
<1>3. CASE MovingStep
  <2> SUFFICES ASSUME calm' PROVE (Offering \/ WillServe \/ \A c \in CacheClients : Served(c))'
    BY DEF AgreementComes
  <2>1. calm
    BY <1>3 DEF MovingStep, Wake, Settle, ForceSyncCache, SyncerStep, Build, BeginApply, WriteFile,
                DeleteStale, MarkSynced, TellServer, Note, Miss, counts
  <2>2. \E n \in CacheNodes : ManagerStep(n)
    <3>1. ASSUME NEW s \in Syncers, SyncerStep(s) PROVE \E n \in CacheNodes : ManagerStep(n)
      <4>1. transfer[s].pc # "idle"
        BY <3>1 DEF SyncerStep, Build, BeginApply, WriteFile, DeleteStale, MarkSynced, TellServer, Note
      <4>2. s = <<s[1], "manager">> /\ s[1] \in CacheNodes
        BY <2>1, <4>1, Naming DEF Undisturbed
      <4> QED
        BY <3>1, <4>2 DEF ManagerStep
    <3> QED
      BY <1>3, <3>1 DEF MovingStep, ManagerStep, ForceSyncCache, Miss
  <2> QED
    BY <2>1, <2>2, ClientAtWork, ServerAtWork DEF AgreementComes, CacheNodes
<1> QED
  BY <1>1, <1>2, <1>3, CacheSteps

-----------------------------------------------------------------------------
(* Deletions                                                                *)

LEMMA TombstoneStep ==
  ASSUME CacheTypeOK, TombstonePerDeletion, CacheNext
  PROVE  TombstonePerDeletion'
<1>1. /\ deletion \in [Deletions -> [pc : Steps, file : CacheFiles, from : CacheNodes,
                                     left : SUBSET CacheClients]]
      /\ tombstones \in [CacheFiles -> Nat]
  BY DEF CacheTypeOK
<1>2. CASE FileStep \/ MovingStep
  <2>1. UNCHANGED << tombstones, deletion >>
    BY <1>2 DEF FileStep, EditFile, ClearCache, PollForChanges, MovingStep, Wake, Settle, ForceSyncCache,
                SyncerStep, Build, BeginApply, WriteFile, DeleteStale, MarkSynced, TellServer, Note, Miss
  <2> QED
    BY <2>1 DEF TombstonePerDeletion, Underway
<1>3. CASE DeletionStep
  <2>1. PICK d \in Deletions : DeleteStep(d)
    BY <1>3 DEF DeletionStep
  <2>2. \A f \in CacheFiles : IsFiniteSet(Underway(f)) /\ tombstones[f] = Cardinality(Underway(f))
    BY FS_Subset, CacheConstants DEF Underway, TombstonePerDeletion
  <2> DEFINE Held(e) == e.pc \in {"server", "clients"}
  <2>3. /\ deletion'[d] \in [pc : Steps, file : CacheFiles, from : CacheNodes, left : SUBSET CacheClients]
        /\ \A e \in Deletions : e # d => deletion'[e] = deletion[e]
    <3>1. deletion' \in [Deletions -> [pc : Steps, file : CacheFiles, from : CacheNodes,
                                       left : SUBSET CacheClients]]
      BY CacheTypeStep, <1>1, <2>1 DEF DeleteStep, GiveDelete, DeleteHere, AddTombstone, DeleteOnServer,
            DeleteOnClient, DeletedOnServer, DeleteBack, Deletes, Steps
    <3> QED
      BY <1>1, <2>1, <3>1 DEF DeleteStep, GiveDelete, DeleteHere, AddTombstone, DeleteOnServer,
            DeleteOnClient, DeletedOnServer, DeleteBack, Deletes
  <2>4. CASE /\ tombstones' = tombstones /\ Held(deletion'[d]) = Held(deletion[d])
             /\ Held(deletion[d]) => deletion'[d].file = deletion[d].file
    <3>1. \A f \in CacheFiles : Underway(f)' = Underway(f)
      BY <2>3, <2>4 DEF Underway
    <3> QED
      BY <2>4, <3>1 DEF TombstonePerDeletion
  <2>5. CASE AddTombstone(d)
    <3> DEFINE g == deletion[d].file
    <3>1. /\ g \in CacheFiles /\ d \notin Underway(g) /\ deletion'[d].pc = "server" /\ deletion'[d].file = g
          /\ tombstones' = [tombstones EXCEPT ![g] = @ + 1] /\ deletion[d].pc = "ask"
      BY <1>1, <2>5 DEF AddTombstone, Deletes, Underway
    <3>2. Underway(g)' = Underway(g) \cup {d}
      BY <2>3, <3>1 DEF Underway
    <3>3. \A f \in CacheFiles : f # g => Underway(f)' = Underway(f)
      BY <2>3, <3>1 DEF Underway
    <3>4. Cardinality(Underway(g) \cup {d}) = Cardinality(Underway(g)) + 1
      BY <2>2, <3>1, FS_AddElement
    <3> QED
      BY <1>1, <2>2, <3>1, <3>2, <3>3, <3>4 DEF TombstonePerDeletion
  <2>6. CASE DeletedOnServer(d)
    <3>0. PICK g : g = deletion[d].file
      OBVIOUS
    <3>1. /\ g \in CacheFiles /\ d \in Underway(g) /\ deletion'[d].pc \in {"back", "ended"}
          /\ tombstones' = [tombstones EXCEPT ![g] = Removed(@)] /\ deletion[d].pc = "clients"
      BY <1>1, <2>6, <3>0 DEF DeletedOnServer, Deletes, Underway
    <3>2. Underway(g)' = Underway(g) \ {d}
      <4>1. d \notin {e \in Deletions : deletion'[e].file = g /\ deletion'[e].pc \in {"server", "clients"}}
        BY <3>1
      <4> QED
        BY <2>3, <3>1, <4>1 DEF Underway
    <3>3. \A f \in CacheFiles : f # g => Underway(f)' = Underway(f)
      BY <2>3, <3>1 DEF Underway
    <3>4. /\ Cardinality(Underway(g) \ {d}) = Cardinality(Underway(g)) - 1
          /\ Cardinality(Underway(g) \ {d}) \in Nat
      BY <2>2, <3>1, FS_RemoveElement, FS_CardinalityType
    <3>5. Removed(tombstones[g]) = Cardinality(Underway(g) \ {d})
      BY <1>1, <2>2, <3>1, <3>4 DEF Removed
    <3> QED
      BY <1>1, <2>2, <3>1, <3>2, <3>3, <3>5 DEF TombstonePerDeletion
  <2>7. CASE \E n \in CacheNodes, f \in CacheFiles : GiveDelete(d, n, f)
    <3>1. tombstones' = tombstones /\ ~Held(deletion'[d]) /\ ~Held(deletion[d])
      BY <1>1, <2>7 DEF GiveDelete
    <3> QED
      BY <2>4, <3>1
  <2>8. CASE DeleteHere(d) \/ DeleteBack(d)
    <3>1. tombstones' = tombstones /\ ~Held(deletion'[d]) /\ ~Held(deletion[d])
      BY <1>1, <2>8 DEF DeleteHere, DeleteBack, Deletes, counts
    <3> QED
      BY <2>4, <3>1
  <2>9. CASE DeleteOnServer(d) \/ \E c \in CacheClients : DeleteOnClient(d, c)
    <3>1. /\ tombstones' = tombstones /\ Held(deletion'[d]) /\ Held(deletion[d])
          /\ deletion'[d].file = deletion[d].file
      BY <1>1, <2>9 DEF DeleteOnServer, DeleteOnClient
    <3> QED
      BY <2>4, <3>1
  <2> QED
    BY <2>1, <2>5, <2>6, <2>7, <2>8, <2>9 DEF DeleteStep
<1> QED
  BY <1>2, <1>3, CacheSteps

\* Only a synchronization's own step begins to write what it was given.
LEMMA WhoBegins ==
  ASSUME CacheTypeOK, Directed, CacheNext, NEW s \in Syncers,
         transfer[s].pc = "begin", transfer'[s].pc = "write"
  PROVE  BeginApply(s)
<1>1. transfer \in [Syncers -> Transfers]
  BY DEF CacheTypeOK
<1>2. ~FileStep /\ ~DeletionStep
  BY DEF FileStep, EditFile, ClearCache, PollForChanges, counts, DeletionStep, DeleteStep, GiveDelete,
         DeleteHere, AddTombstone, DeleteOnServer, DeleteOnClient, DeletedOnServer, DeleteBack
<1>3. ASSUME NEW n \in CacheNodes, Wake(n) \/ Settle(n) \/ ForceSyncCache(n) PROVE FALSE
  <2>1. transfer'[s] = transfer[s]
    BY <1>1, <1>3, NodeMoves DEF Wake, Settle, ForceSyncCache, Goes
  <2> QED
    BY <2>1
<1>4. ASSUME NEW r \in Syncers, SyncerStep(r) \/ \E peer \in CacheNodes : Miss(r, peer)
      PROVE  BeginApply(s)
  <2>1. PICK t : Goes(r, t)
    BY <1>4, SyncerMoves DEF SyncerStep
  <2>2. r = s
    BY <2>1 DEF Goes
  <2> QED
    BY <1>4, <2>2 DEF SyncerStep, Build, WriteFile, DeleteStale, MarkSynced, TellServer, Note, Miss
<1> QED
  BY <1>2, <1>3, <1>4, CacheSteps DEF MovingStep

LEMMA PayloadsKeptOut ==
  ASSUME CacheInvariant, CacheNext, NEW s \in Syncers,
         transfer[s].pc = "begin", transfer'[s].pc = "write", transfer[s].to = CacheServer,
         NEW f \in transfer'[s].left
  PROVE  Underway(f) = {}
<1> DEFINE t == transfer[s]
           l == SentFiles(t.data) \ Tombstoned(t.to)
<1>1. BeginApply(s) /\ transfer \in [Syncers -> Transfers] /\ t \in Transfers
  BY WhoBegins DEF CacheInvariant, CacheTypeOK
<1>2. transfer'[s] = [t EXCEPT !.pc = "write", !.left = l]
  BY <1>1 DEF BeginApply
<1>3. f \in l
  <2> HIDE DEF l, t
  <2>1. transfer'[s].left = l
    BY <1>1, <1>2 DEF Transfers
  <2> QED
    BY <2>1
<1>4. f \in CacheFiles /\ ~(tombstones[f] > 0)
  BY <1>3 DEF SentFiles, Tombstoned
<1>5. tombstones[f] \in Nat /\ tombstones[f] = Cardinality(Underway(f))
  BY <1>4 DEF CacheInvariant, CacheTypeOK, TombstonePerDeletion
<1>6. IsFiniteSet(Underway(f)) /\ Cardinality(Underway(f)) = 0
  BY <1>4, <1>5, FS_Subset, CacheConstants DEF Underway
<1> QED
  BY <1>6, FS_EmptySet

\* Who removes a custom image gives a delete command.
LEMMA ImagesStay ==
  ASSUME CacheInvariant, CacheNext, NEW n \in CacheNodes, NEW f \in CustomImages,
         disk[n][f] # Absent, disk'[n][f] = Absent
  PROVE  \E d \in Deletions : deletion[d].file = f /\ deletion'[d] # deletion[d]
<1>1. /\ disk \in [CacheNodes -> Contents] /\ f \in CacheFiles /\ events \in Nat
      /\ transfer \in [Syncers -> Transfers]
      /\ deletion \in [Deletions -> [pc : Steps, file : CacheFiles, from : CacheNodes,
                                     left : SUBSET CacheClients]]
  BY CacheConstants DEF CacheInvariant, CacheTypeOK
<1>2. CASE FileStep
  <2>1. ASSUME NEW m \in CacheNodes, NEW g \in CacheFiles, EditFile(m, g) PROVE FALSE
    <3>1. disk'[n][f] = disk[n][f] \/ disk'[n][f] = events + 1
      BY <1>1, <2>1 DEF EditFile, Contents
    <3> QED
      BY <1>1, <3>1 DEF Absent
  <2>2. ASSUME NEW m \in CacheNodes, ClearCache(m) \/ PollForChanges(m) PROVE FALSE
    BY <1>1, <2>2 DEF ClearCache, PollForChanges, Contents
  <2> QED
    BY <1>2, <2>1, <2>2 DEF FileStep
<1>3. CASE MovingStep
  <2>1. PICK s \in Syncers : (\E g \in CacheFiles : WriteFile(s, g)) \/ DeleteStale(s)
    BY <1>3 DEF MovingStep, Wake, Settle, ForceSyncCache, SyncerStep, Build, BeginApply,
                MarkSynced, TellServer, Note, Miss
  <2>2. transfer[s] \in Transfers /\ transfer[s].to \in CacheNodes
    BY <1>1 DEF Transfers
  <2>3. ASSUME NEW g \in CacheFiles, WriteFile(s, g) PROVE FALSE
    <3>1. transfer[s].data[g] # Absent
      BY <2>3 DEF WriteFile, CacheInvariant, Directed, SentFiles
    <3>2. disk'[n][f] = disk[n][f] \/ disk'[n][f] = transfer[s].data[g]
      BY <1>1, <2>3 DEF WriteFile, Contents
    <3> QED
      BY <3>1, <3>2
  <2>4. ASSUME DeleteStale(s) PROVE FALSE
    BY <1>1, <2>2, <2>4 DEF DeleteStale, Kept, Contents
  <2> QED
    BY <2>1, <2>3, <2>4
<1>4. CASE DeletionStep
  <2>1. PICK d \in Deletions : DeleteStep(d)
    BY <1>4 DEF DeletionStep
  <2>2. CASE DeleteHere(d) \/ DeleteOnServer(d)
    <3>1. deletion[d].file = f
      BY <1>1, <2>2 DEF DeleteHere, DeleteOnServer, Contents
    <3>2. deletion'[d].pc # deletion[d].pc
      BY <1>1, <2>2 DEF DeleteHere, DeleteOnServer, Deletes
    <3> QED
      BY <3>1, <3>2
  <2>3. CASE \E c \in CacheClients : DeleteOnClient(d, c)
    <3>1. PICK c \in CacheClients : DeleteOnClient(d, c)
      BY <2>3
    <3>2. deletion[d].file = f
      BY <1>1, <3>1 DEF DeleteOnClient, Contents
    <3>3. c \in deletion[d].left /\ deletion'[d].left = deletion[d].left \ {c}
      BY <1>1, <3>1 DEF DeleteOnClient
    <3> QED
      BY <3>2, <3>3
  <2>4. DeleteHere(d) \/ DeleteOnServer(d) \/ \E c \in CacheClients : DeleteOnClient(d, c)
    BY <2>1 DEF DeleteStep, GiveDelete, AddTombstone, DeletedOnServer, DeleteBack, counts
  <2> QED
    BY <2>2, <2>3, <2>4
<1> QED
  BY <1>2, <1>3, <1>4, CacheSteps

-----------------------------------------------------------------------------
(* The invariant holds, and the properties follow                           *)

LEMMA CacheInvariantInit == CacheInit => CacheInvariant
<1> SUFFICES ASSUME CacheInit PROVE CacheInvariant
  OBVIOUS
<1> USE DEF CacheInit
<1>1. Empty \in Contents /\ Empty \in [CacheFiles -> Nat]
  BY CacheConstants DEF Empty, Contents, Absent
<1>2. (CHOOSE f \in CacheFiles : TRUE) \in CacheFiles
  BY CacheConstants
<1>3. CacheTypeOK
  <2>1. disk \in [CacheNodes -> Contents] /\ manifest \in [CacheNodes -> Contents]
    BY <1>1
  <2>2. transfer \in [Syncers -> Transfers]
    BY <1>1, Naming DEF Transfers
  <2>3. deletion \in [Deletions -> [pc : Steps, file : CacheFiles, from : CacheNodes,
                                    left : SUBSET CacheClients]]
    BY <1>2, Naming DEF Steps
  <2>4. events \in 0 .. CacheEvents /\ calm \in BOOLEAN /\ woken \in [CacheNodes -> BOOLEAN]
        /\ tombstones \in [CacheFiles -> Nat]
    BY <1>1, CacheConstants
  <2> QED
    BY <2>1, <2>2, <2>3, <2>4 DEF CacheTypeOK
<1>4. Directed
  BY DEF Directed
<1>5. Undisturbed
  BY Naming DEF Undisturbed
<1>6. AgreementComes
  <2>1. ASSUME NEW c \in CacheClients PROVE Served(c)
    BY <2>1, Naming DEF Served, Manager, Same
  <2> QED
    BY <2>1 DEF AgreementComes
<1>7. TombstonePerDeletion
  <2>1. \A f \in CacheFiles : Underway(f) = {} /\ tombstones[f] = 0
    BY DEF Underway, Empty, Absent
  <2> QED
    BY <2>1, FS_EmptySet DEF TombstonePerDeletion
<1> QED
  BY <1>3, <1>4, <1>5, <1>6, <1>7 DEF CacheInvariant

LEMMA CacheInvariantStep == CacheInvariant /\ [CacheNext]_cacheVars => CacheInvariant'
<1>1. ASSUME CacheInvariant, CacheNext PROVE CacheInvariant'
  BY <1>1, CacheTypeStep, UndisturbedStep, AgreementStep, TombstoneStep DEF CacheInvariant
<1>2. ASSUME CacheInvariant, UNCHANGED cacheVars PROVE CacheInvariant'
  BY <1>2 DEF CacheInvariant, cacheVars, counts, CacheTypeOK, Directed, Undisturbed, AgreementComes, Offering,
              Offers, WillServe, Served, Manager, TombstonePerDeletion, Underway
<1> QED
  BY <1>1, <1>2

LEMMA CacheInvariantHolds == CacheSpec => []CacheInvariant
BY CacheInvariantInit, CacheInvariantStep, PTL DEF CacheSpec

\* The fields of the model keep their types (CacheSyncManager's attributes).
THEOREM CacheTypeCorrect == CacheSpec => []CacheTypeOK
<1>1. CacheInvariant => CacheTypeOK
  BY DEF CacheInvariant
<1> QED
  BY <1>1, CacheInvariantHolds, PTL

LEMMA RestAgrees == CacheInvariant => RestMeansAgreed
<1> SUFFICES ASSUME CacheInvariant, SyncersRest, calm, NEW c \in CacheClients,
                    NEW f \in CacheFiles \ (QuietFiles \cup CustomImages)
             PROVE  disk[c][f] = disk[CacheServer][f]
  BY DEF RestMeansAgreed, Agreed
<1>1. \A n \in CacheNodes : ~woken[n] /\ Manager(n).pc = "idle"
  BY Naming DEF SyncersRest, Manager
<1>2. Served(c)
  BY <1>1, Naming DEF CacheInvariant, AgreementComes, Offering, Offers, WillServe
<1> QED
  BY <1>1, <1>2, Naming DEF Served, Same, Ordinary

\* What synchronization and deletion promise, for any nodes, files and number of events:
\* each deletion under way has its tombstone, a payload does not bring the file back to the
\* server, custom images go only by a delete command, and whoever comes to rest without a
\* deletion, a forced synchronization or an unanswered request agrees with the server.
THEOREM CacheIsSafe == CacheSpec => CacheSafety
<1>1. CacheInvariant => TombstonePerDeletion /\ RestMeansAgreed
  BY RestAgrees DEF CacheInvariant
<1>2. CacheInvariant /\ [CacheNext]_cacheVars
        => [\A s \in Syncers : transfer[s].pc = "begin" /\ transfer'[s].pc = "write"
                                 /\ transfer[s].to = CacheServer
              => \A f \in transfer'[s].left : Underway(f) = {}]_cacheVars
  BY PayloadsKeptOut
<1>3. CacheInvariant /\ [CacheNext]_cacheVars
        => [\A n \in CacheNodes, f \in CustomImages :
              disk[n][f] # Absent /\ disk'[n][f] = Absent =>
                \E d \in Deletions : deletion[d].file = f /\ deletion'[d] # deletion[d]]_cacheVars
  BY ImagesStay
<1> QED
  BY <1>1, <1>2, <1>3, CacheInvariantHolds, PTL
     DEF CacheSpec, CacheSafety, DeletionKeepsPayloadsOut, CustomImagesStay

-----------------------------------------------------------------------------
(* The records of the Base (DbRefresh)                                       *)

USE DEF clocks

\* The smaller and the larger of two numbers.
LEMMA MinOfTwo ==
  ASSUME NEW a \in Int, NEW b \in Int
  PROVE  /\ Min({a, b}) \in {a, b} /\ Min({a, b}) <= a /\ Min({a, b}) <= b
         /\ Max({a, b}) \in {a, b} /\ Max({a, b}) >= a /\ Max({a, b}) >= b
<1>1. \E x \in {a, b} : \A y \in {a, b} : x <= y
  <2>1. CASE a <= b
    BY <2>1
  <2>2. CASE b <= a
    BY <2>2
  <2> QED
    BY <2>1, <2>2
<1>2. \E x \in {a, b} : \A y \in {a, b} : x >= y
  <2>1. CASE a >= b
    BY <2>1
  <2>2. CASE b >= a
    BY <2>2
  <2> QED
    BY <2>1, <2>2
<1>3. Min({a, b}) \in {a, b} /\ \A y \in {a, b} : Min({a, b}) <= y
  BY <1>1 DEF Min
<1>4. Max({a, b}) \in {a, b} /\ \A y \in {a, b} : Max({a, b}) >= y
  BY <1>2 DEF Max
<1> QED
  BY <1>3, <1>4

\* How long the worker sleeps for a bucket that is not due is a number of ticks, and
\* the bucket is not older than the maximal delay when that time has passed.
LEMMA DueInTime ==
  ASSUME RefreshTypeOK, NEW k \in RefreshKeys, ~ShouldSend(k)
  PROVE  DueIn(k) \in Nat /\ fAge[k] + DueIn(k) <= MaxDelay
<1> DEFINE q == QuietFor - fQuiet[k]
           m == MaxDelay - fAge[k]
           s == Min({q, m})
<1>1. QuietFor \in Nat /\ MaxDelay \in Nat /\ fQuiet[k] \in Nat /\ fAge[k] \in Nat
  BY RefreshConstants DEF RefreshTypeOK
<1>2. q \in Int /\ m \in Int /\ q > 0 /\ m > 0
  BY <1>1 DEF ShouldSend
<1>3. s \in {q, m} /\ s <= m
  BY <1>2, MinOfTwo
<1>4. s \in Int /\ s > 0
  BY <1>2, <1>3
<1> HIDE DEF s
<1>5. Max({0, s}) \in {0, s} /\ Max({0, s}) >= s
  BY <1>4, MinOfTwo
<1>6. Max({0, s}) = s
  BY <1>4, <1>5
<1>7. DueIn(k) = s
  BY <1>6 DEF DueIn, s
<1> QED
  BY <1>1, <1>2, <1>3, <1>4, <1>7

\* A clock moves by a tick or stands still at its bound.
LEMMA LaterClock ==
  ASSUME NEW clock \in [RefreshKeys -> Nat], NEW most \in Nat
  PROVE  /\ Later(clock, most) \in [RefreshKeys -> Nat]
         /\ \A k \in RefreshKeys : Later(clock, most)[k] <= clock[k] + 1
<1>1. ASSUME NEW k \in RefreshKeys
      PROVE  Min({clock[k] + 1, most}) \in Nat /\ Min({clock[k] + 1, most}) <= clock[k] + 1
  <2> DEFINE a == clock[k] + 1
  <2>1. a \in Nat /\ a \in Int /\ most \in Int
    OBVIOUS
  <2>2. Min({a, most}) \in {a, most} /\ Min({a, most}) <= a
    BY <2>1, MinOfTwo
  <2> QED
    BY <2>1, <2>2
<1> QED
  BY <1>1 DEF Later

-----------------------------------------------------------------------------
(* Types                                                                    *)

LEMMA TypeInit == RefreshInit => RefreshTypeOK
<1> SUFFICES ASSUME RefreshInit PROVE RefreshTypeOK
  OBVIOUS
<1>1. fQuiet \in [RefreshKeys -> Nat] /\ fAge = fQuiet /\ fIdle = fQuiet
  BY DEF RefreshInit
<1>2. fStops \in 0 .. RefreshStops
  BY RefreshConstants DEF RefreshInit
<1> QED
  BY <1>1, <1>2 DEF RefreshInit, RefreshTypeOK

LEMMA TypeStep == RefreshTypeOK /\ [RefreshNext]_refreshVars => RefreshTypeOK'
<1> USE RefreshConstants
<1> SUFFICES ASSUME RefreshTypeOK, [RefreshNext]_refreshVars
             PROVE  RefreshTypeOK'
  OBVIOUS
<1>1. ASSUME NEW k \in RefreshKeys, RequestRefresh(k)
      PROVE  RefreshTypeOK'
  BY <1>1 DEF RefreshTypeOK, RequestRefresh, Started
<1>2. ASSUME NEW k \in RefreshKeys, Flush(k)
      PROVE  RefreshTypeOK'
  BY <1>2 DEF RefreshTypeOK, Flush, Started
<1>3. CASE StopRefresh
  BY <1>3 DEF RefreshTypeOK, StopRefresh
<1>4. CASE EndWait
  BY <1>4 DEF RefreshTypeOK, EndWait
<1>5. CASE Collect
  <2>1. PICK kept \in {fBuckets, {k \in fBuckets : ~KeyIdle(k)}} :
          /\ fBuckets' = kept
          /\ fSend' = {k \in fPending \cap kept : ShouldSend(k)}
          /\ fPending' = (fPending \cap kept) \ fSend'
          /\ fPc' \in {"none", "wait", "send", "nap"}
          /\ \/ fSleep' \in {fSleep, RefreshPoll}
             \/ fSleep' \in {DueIn(k) : k \in (fPending \cap kept) \ fSend'}
          /\ UNCHANGED <<clocks, fWake, fStop, fStops, fOwed>>
    BY <1>5 DEF Collect, Again
  <2>2. ASSUME NEW k \in (fPending \cap kept) \ fSend'
        PROVE  DueIn(k) \in Nat
    BY <2>1, <2>2, DueInTime DEF RefreshTypeOK
  <2>3. fSleep' \in Nat
    BY <2>1, <2>2 DEF RefreshTypeOK
  <2> QED
    BY <2>1, <2>3 DEF RefreshTypeOK
<1>6. CASE SendQuery
  BY <1>6 DEF RefreshTypeOK, SendQuery, Again
<1>7. CASE EndNap
  BY <1>7 DEF RefreshTypeOK, EndNap, Again
<1>8. CASE RefreshTick
  <2> DEFINE oldest == MaxDelay + RefreshPoll + QuietFor
  <2>0. QuietFor \in Nat /\ oldest \in Nat /\ KeepIdle \in Nat
    OBVIOUS
  <2> HIDE DEF oldest
  <2>1. /\ Later(fQuiet, QuietFor) \in [RefreshKeys -> Nat]
        /\ Later(fAge, oldest) \in [RefreshKeys -> Nat]
        /\ Later(fIdle, KeepIdle) \in [RefreshKeys -> Nat]
    BY <2>0, LaterClock DEF RefreshTypeOK
  <2>2. fSleep' \in Nat
    BY <1>8 DEF RefreshTypeOK, RefreshTick, Waiting
  <2> QED
    BY <1>8, <2>1, <2>2 DEF RefreshTypeOK, RefreshTick, oldest
<1>9. CASE UNCHANGED refreshVars
  BY <1>9 DEF RefreshTypeOK, refreshVars
<1> QED
  BY <1>1, <1>2, <1>3, <1>4, <1>5, <1>6, <1>7, <1>8, <1>9 DEF RefreshNext, WorkerStep

-----------------------------------------------------------------------------
(* Requests and their queries                                               *)

\* The cleanup keeps every bucket that is pending.
LEMMA PendingIsKept ==
  ASSUME RefreshTypeOK, NEW kept \in {fBuckets, {k \in fBuckets : ~KeyIdle(k)}}
  PROVE  fPending \cap kept = fPending
  BY DEF RefreshTypeOK, KeyIdle

\* What is chosen is sent before the worker does anything else.
SendsAtOnce == fPc # "send" => fSend = {}

LEMMA OwedStep ==
  RefreshTypeOK /\ SendsAtOnce /\ OwedIsPending /\ [RefreshNext]_refreshVars
    => SendsAtOnce' /\ OwedIsPending'
<1> SUFFICES ASSUME RefreshTypeOK, SendsAtOnce, OwedIsPending, [RefreshNext]_refreshVars
             PROVE  SendsAtOnce' /\ OwedIsPending'
  OBVIOUS
<1> USE DEF SendsAtOnce, OwedIsPending
<1>1. ASSUME NEW k \in RefreshKeys, RequestRefresh(k) \/ Flush(k)
      PROVE  SendsAtOnce' /\ OwedIsPending'
  BY <1>1 DEF RequestRefresh, Flush, Started
<1>2. CASE StopRefresh \/ EndWait \/ EndNap \/ RefreshTick
  BY <1>2 DEF StopRefresh, EndWait, EndNap, RefreshTick, Again
<1>3. CASE Collect
  <2>1. PICK kept \in {fBuckets, {k \in fBuckets : ~KeyIdle(k)}} :
          /\ fPc = "collect" /\ fOwed' = fOwed
          /\ fSend' = {k \in fPending \cap kept : ShouldSend(k)}
          /\ fPending' = (fPending \cap kept) \ fSend'
          /\ fSend' # {} => fPc' = "send"
    BY <1>3 DEF Collect
  <2>2. fPending' \cup fSend' = fPending
    BY <2>1, PendingIsKept
  <2> QED
    BY <2>1, <2>2
<1>4. CASE SendQuery
  <2>1. CASE fSend = {}
    BY <1>4, <2>1 DEF SendQuery
  <2>2. CASE fSend # {}
    BY <1>4, <2>2 DEF SendQuery
  <2> QED
    BY <2>1, <2>2
<1>5. CASE UNCHANGED refreshVars
  BY <1>5 DEF refreshVars
<1> QED
  BY <1>1, <1>2, <1>3, <1>4, <1>5 DEF RefreshNext, WorkerStep

-----------------------------------------------------------------------------
(* Time                                                                     *)

\* Before the first stop the worker is there when something is pending, and wherever
\* it sleeps it wakes up in time for every pending bucket: after a nap none is older
\* than the maximal delay, and the outer wait adds its period at most.
WorkerStays == fStops = 0 => ~fStop /\ (fPc = "none" => fPending = {})
SleepsShort ==
  fStops = 0 => /\ fPc = "wait" => fSleep <= RefreshPoll
                /\ fPc = "nap" => fSleep <= MaxDelay
WakesForAll ==
  fStops = 0 =>
    \A k \in fPending :
      /\ fAge[k] <= MaxDelay + RefreshPoll
      /\ fPc = "wait" => fAge[k] + fSleep <= MaxDelay + RefreshPoll
      /\ fPc = "nap" => fAge[k] + fSleep <= MaxDelay
      /\ fPc = "send" => fAge[k] <= MaxDelay
InTime == WorkerStays /\ SleepsShort /\ WakesForAll

LEMMA InTimeStep == RefreshTypeOK /\ InTime /\ [RefreshNext]_refreshVars => InTime'
<1> USE RefreshConstants DEF InTime
<1> SUFFICES ASSUME RefreshTypeOK, InTime, [RefreshNext]_refreshVars, fStops' = 0
             PROVE  InTime'
  BY DEF WorkerStays, SleepsShort, WakesForAll
<1>0. fStops = 0 /\ fStop = FALSE
  <2>1. fStops' = fStops \/ fStops' = fStops + 1
    BY DEF RefreshNext, WorkerStep, RequestRefresh, Flush, StopRefresh, EndWait, Collect,
           SendQuery, EndNap, RefreshTick, refreshVars
  <2> QED
    BY <2>1 DEF RefreshTypeOK, WorkerStays
<1>1. ASSUME NEW k \in RefreshKeys, RequestRefresh(k) \/ Flush(k)
      PROVE  InTime'
  <2>1. /\ fPc' # "none" /\ fStop' = FALSE
        /\ \/ fPc' = fPc /\ fSleep' = fSleep
           \/ fPc = "none" /\ fPc' = "wait" /\ fSleep' = RefreshPoll
    <3>1. Started
      BY <1>1 DEF RequestRefresh, Flush
    <3>2. CASE fPc = "none"
      BY <3>1, <3>2 DEF Started
    <3>3. CASE fPc # "none"
      BY <1>0, <3>1, <3>3 DEF Started
    <3> QED
      BY <3>2, <3>3
  <2>2. SleepsShort' /\ WorkerStays'
    BY <1>0, <2>1 DEF SleepsShort, WorkerStays, RefreshTypeOK
  <2>3. fPc = "none" => fPending = {}
    BY <1>0 DEF WorkerStays
  <2>4. /\ fPending' = fPending \cup {k}
        /\ fAge' = fAge \/ fAge' = [fAge EXCEPT ![k] = 0]
        /\ k \in fPending \/ fAge'[k] = 0
    BY <1>1 DEF RequestRefresh, Flush, RefreshTypeOK
  <2>5. ASSUME NEW j \in fPending'
        PROVE  (j \in fPending /\ fAge'[j] <= fAge[j] /\ fPc' = fPc) \/ fAge'[j] = 0
    BY <2>1, <2>3, <2>4, <2>5 DEF RefreshTypeOK
  <2>6. ASSUME NEW j \in fPending'
        PROVE  fAge'[j] \in Nat /\ (j \in fPending => fAge[j] \in Nat)
    BY <2>4, <2>6 DEF RefreshTypeOK
  <2>7. fSleep \in Nat /\ fSleep' \in Nat
    BY <2>1 DEF RefreshTypeOK
  <2>8. WakesForAll'
    <3> SUFFICES ASSUME NEW j \in fPending'
                 PROVE  /\ fAge'[j] <= MaxDelay + RefreshPoll
                        /\ fPc' = "wait" => fAge'[j] + fSleep' <= MaxDelay + RefreshPoll
                        /\ fPc' = "nap" => fAge'[j] + fSleep' <= MaxDelay
                        /\ fPc' = "send" => fAge'[j] <= MaxDelay
      BY DEF WakesForAll
    <3>1. CASE fAge'[j] = 0
      BY <1>0, <2>2, <2>7, <3>1 DEF SleepsShort
    <3>2. CASE j \in fPending /\ fAge'[j] <= fAge[j] /\ fPc' = fPc
      <4>1. fSleep' = fSleep \/ fPc' = "none"
        BY <2>1, <3>2
      <4> QED
        BY <1>0, <2>1, <2>6, <2>7, <3>2, <4>1 DEF WakesForAll
    <3> QED
      BY <2>5, <3>1, <3>2
  <2> QED
    BY <2>2, <2>8
<1>2. CASE StopRefresh
  BY <1>0, <1>2 DEF StopRefresh, RefreshTypeOK
<1>3. CASE EndWait
  BY <1>0, <1>3 DEF EndWait, WorkerStays, SleepsShort, WakesForAll
<1>4. CASE Collect
  <2>1. PICK kept \in {fBuckets, {k \in fBuckets : ~KeyIdle(k)}} :
          /\ fPending' = (fPending \cap kept) \ {k \in fPending \cap kept : ShouldSend(k)}
          /\ \/ fPc' = "send"
             \/ /\ fPc' = "nap"
                /\ fSleep' \in {DueIn(k) : k \in fPending'}
                /\ \A d \in {DueIn(k) : k \in fPending'} : fSleep' <= d
             \/ fPc' = "wait" /\ fSleep' = RefreshPoll
          /\ UNCHANGED <<clocks, fWake, fStop, fStops, fOwed>>
    BY <1>0, <1>4 DEF Collect, Again
  <2>2. ASSUME NEW k \in fPending'
        PROVE  /\ k \in RefreshKeys /\ fAge[k] \in Nat /\ DueIn(k) \in Nat
               /\ fAge[k] + DueIn(k) <= MaxDelay
    <3>1. k \in RefreshKeys /\ ~ShouldSend(k)
      BY <2>1, <2>2 DEF RefreshTypeOK
    <3> QED
      BY <3>1, DueInTime DEF RefreshTypeOK
  <2>3. fPc' = "nap" => fSleep' \in Nat /\ fSleep' <= MaxDelay
    BY <2>1, <2>2
  <2>4. fPc' = "nap" => \A k \in fPending' : fSleep' <= DueIn(k)
    BY <2>1
  <2>5. WorkerStays'
    BY <1>0, <2>1 DEF WorkerStays
  <2>6. SleepsShort'
    BY <2>1, <2>3 DEF SleepsShort
  <2>7. WakesForAll'
    BY <2>1, <2>2, <2>3, <2>4 DEF WakesForAll
  <2> QED
    BY <2>5, <2>6, <2>7
<1>5. CASE SendQuery
  <2>1. CASE fSend = {}
    BY <1>0, <1>5, <2>1 DEF SendQuery, Again, WorkerStays, SleepsShort, WakesForAll, RefreshTypeOK
  <2>2. CASE fSend # {}
    BY <1>0, <1>5, <2>2 DEF SendQuery, WorkerStays, SleepsShort, WakesForAll
  <2> QED
    BY <2>1, <2>2
<1>6. CASE EndNap
  <2>1. /\ fPc = "nap" /\ fPc' = "wait" /\ fSleep' = RefreshPoll
        /\ UNCHANGED <<fPending, clocks, fStop, fStops>>
    BY <1>0, <1>6 DEF EndNap, Again
  <2>2. \A k \in fPending : fAge[k] \in Nat /\ fAge[k] <= MaxDelay
    BY <1>0, <2>1 DEF WakesForAll, RefreshTypeOK
  <2> QED
    BY <1>0, <2>1, <2>2 DEF WorkerStays, SleepsShort, WakesForAll
<1>7. CASE RefreshTick
  <2>1. \A k \in RefreshKeys : fAge'[k] \in Nat /\ fAge[k] \in Nat /\ fAge'[k] <= fAge[k] + 1
    <3> DEFINE oldest == MaxDelay + RefreshPoll + QuietFor
    <3>1. oldest \in Nat /\ fAge \in [RefreshKeys -> Nat]
      BY DEF RefreshTypeOK
    <3>2. fAge' = Later(fAge, oldest)
      BY <1>7 DEF RefreshTick
    <3> HIDE DEF oldest
    <3>3. fAge' \in [RefreshKeys -> Nat] /\ \A k \in RefreshKeys : fAge'[k] <= fAge[k] + 1
      BY <3>1, <3>2, LaterClock
    <3> QED
      BY <3>1, <3>3
  <2>2. /\ fPc' = fPc /\ fPending' = fPending /\ fStop' = fStop
        /\ \/ fPc = "none" /\ fSleep' = fSleep
           \/ fPc \in {"wait", "nap"} /\ fSleep > 0 /\ fSleep' = fSleep - 1
    BY <1>7 DEF RefreshTick, Waiting
  <2>3. fPending \subseteq RefreshKeys /\ fSleep \in Nat
    BY DEF RefreshTypeOK
  <2>4. WorkerStays' /\ SleepsShort'
    BY <1>0, <2>2, <2>3 DEF WorkerStays, SleepsShort
  <2>5. CASE fPc = "none"
    <3>1. fPending' = {}
      BY <1>0, <2>2, <2>5 DEF WorkerStays
    <3> QED
      BY <2>4, <3>1 DEF WakesForAll
  <2>6. CASE fPc \in {"wait", "nap"}
    <3> SUFFICES ASSUME NEW k \in fPending'
                 PROVE  /\ fAge'[k] <= MaxDelay + RefreshPoll
                        /\ fPc' = "wait" => fAge'[k] + fSleep' <= MaxDelay + RefreshPoll
                        /\ fPc' = "nap" => fAge'[k] + fSleep' <= MaxDelay
                        /\ fPc' = "send" => fAge'[k] <= MaxDelay
      BY <2>4 DEF WakesForAll
    <3>1. /\ fAge'[k] \in Nat /\ fAge[k] \in Nat /\ fAge'[k] <= fAge[k] + 1
          /\ fSleep > 0 /\ fSleep' = fSleep - 1
          /\ fPc = "wait" => fAge[k] + fSleep <= MaxDelay + RefreshPoll
          /\ fPc = "nap" => fAge[k] + fSleep <= MaxDelay
      BY <1>0, <2>1, <2>2, <2>3, <2>6 DEF WakesForAll
    <3> QED
      BY <2>2, <2>3, <2>6, <3>1
  <2> QED
    BY <2>2, <2>4, <2>5, <2>6
<1>8. CASE UNCHANGED refreshVars
  <2>1. WorkerStays' /\ SleepsShort'
    BY <1>8 DEF refreshVars, WorkerStays, SleepsShort
  <2>2. WakesForAll'
    BY <1>8 DEF refreshVars, WakesForAll
  <2> QED
    BY <2>1, <2>2
<1> QED
  BY <1>1, <1>2, <1>3, <1>4, <1>5, <1>6, <1>7, <1>8 DEF RefreshNext, WorkerStep

-----------------------------------------------------------------------------
RefreshInvariant == RefreshTypeOK /\ SendsAtOnce /\ OwedIsPending /\ InTime

LEMMA RefreshInvariantHolds == RefreshSpec => []RefreshInvariant
<1>1. RefreshInit => RefreshInvariant
  <2> SUFFICES ASSUME RefreshInit PROVE RefreshInvariant
    OBVIOUS
  <2>1. RefreshTypeOK
    BY TypeInit
  <2>2. SendsAtOnce /\ OwedIsPending /\ InTime
    BY DEF RefreshInit, SendsAtOnce, OwedIsPending, InTime, WorkerStays, SleepsShort, WakesForAll
  <2> QED
    BY <2>1, <2>2 DEF RefreshInvariant
<1>2. RefreshInvariant /\ [RefreshNext]_refreshVars => RefreshInvariant'
  BY TypeStep, OwedStep, InTimeStep DEF RefreshInvariant
<1> QED
  BY <1>1, <1>2, PTL DEF RefreshSpec

\* The variables have their types in every reachable state: what is pending has a bucket.
THEOREM RefreshTypeCorrect == RefreshSpec => []RefreshTypeOK
<1>1. RefreshInvariant => RefreshTypeOK
  BY DEF RefreshInvariant
<1> QED
  BY <1>1, RefreshInvariantHolds, PTL

\* No request for a refresh is forgotten, and until the first stop none waits longer
\* than the maximal delay and one period of the outer wait, whatever the debounce time
\* and however often it is repeated (Base3DbRefreshManager._run).
THEOREM RefreshesComeInTime == RefreshSpec => []RefreshSafety
<1>1. RefreshInvariant => RefreshSafety
  BY DEF RefreshInvariant, InTime, WakesForAll, RefreshSafety, NobodyWaitsTooLong
<1> QED
  BY <1>1, RefreshInvariantHolds, PTL

-----------------------------------------------------------------------------
(* Watchers (StateWatch)                                                     *)

\* The watcher is stopped before its notifier, and shutdown goes through its parts in order.
StopsInOrder ==
  /\ wRunning <=> wStop = "idle"
  /\ wNotifying <=> wStop \in {"idle", "flag"}
\* A thread waits for room in a full queue, or in one that a working notifier has emptied.
FullOrWorking ==
  wStop = "blocked" => wTokens > 0 \/ wNotifier # "get"

WatchInvariant ==
  /\ WatchTypeOK /\ StopsInOrder /\ FullOrWorking
  /\ WokenChangeIsOnItsWay /\ StopReachesTheNotifier

LEMMA WatchBegins == WatchInit => WatchInvariant
<1> SUFFICES ASSUME WatchInit PROVE WatchInvariant
  OBVIOUS
<1>1. WatchTypeOK
  BY WatchConstants DEF WatchInit, WatchTypeOK
<1>2. StopsInOrder /\ FullOrWorking /\ WokenChangeIsOnItsWay /\ StopReachesTheNotifier
  BY DEF WatchInit, StopsInOrder, FullOrWorking, WokenChangeIsOnItsWay, StopReachesTheNotifier
<1> QED
  BY <1>1, <1>2 DEF WatchInvariant

\* The watcher waits and puts tokens.
LEMMA WatcherKeeps ==
  ASSUME WatchInvariant, WatchUpdate \/ WatcherStep
  PROVE  WatchInvariant'
<1> USE WatchConstants DEF WatchInvariant, WatchTypeOK
<1>1. CASE WatchUpdate
  BY <1>1 DEF WatchUpdate, Notified, StopsInOrder, FullOrWorking, WokenChangeIsOnItsWay, StopReachesTheNotifier
<1>2. CASE WatcherTest
  BY <1>2 DEF WatcherTest, StopsInOrder, FullOrWorking, WokenChangeIsOnItsWay, StopReachesTheNotifier
<1>3. CASE WatcherWakes
  BY <1>3 DEF WatcherWakes, StopsInOrder, FullOrWorking, WokenChangeIsOnItsWay, StopReachesTheNotifier
<1>4. CASE WatcherPuts
  BY <1>4 DEF WatcherPuts, StopsInOrder, FullOrWorking, WokenChangeIsOnItsWay, StopReachesTheNotifier
<1> QED
  BY <1>1, <1>2, <1>3, <1>4 DEF WatcherStep

\* The notifier takes tokens, empties the queue and displays.
LEMMA NotifierKeeps ==
  ASSUME WatchInvariant, NotifierStep
  PROVE  WatchInvariant'
<1> USE WatchConstants DEF WatchInvariant, WatchTypeOK
<1>1. CASE NotifierTest
  BY <1>1 DEF NotifierTest, StopsInOrder, FullOrWorking, WokenChangeIsOnItsWay, StopReachesTheNotifier
<1>2. CASE NotifierGets
  BY <1>2 DEF NotifierGets, StopsInOrder, FullOrWorking, WokenChangeIsOnItsWay, StopReachesTheNotifier
<1>3. CASE NotifierClears
  BY <1>3 DEF NotifierClears, StopsInOrder, FullOrWorking, WokenChangeIsOnItsWay, StopReachesTheNotifier
<1>4. CASE NotifierActs
  BY <1>4 DEF NotifierActs, StopsInOrder, FullOrWorking, WokenChangeIsOnItsWay, StopReachesTheNotifier
<1>5. CASE NotifierActed
  BY <1>5 DEF NotifierActed, StopsInOrder, FullOrWorking, WokenChangeIsOnItsWay, StopReachesTheNotifier
<1> QED
  BY <1>1, <1>2, <1>3, <1>4, <1>5 DEF NotifierStep

\* A shutdown stops both threads, and wakes them.
LEMMA StopKeeps ==
  ASSUME WatchInvariant, StopWatcher \/ StopStep
  PROVE  WatchInvariant'
<1> USE WatchConstants DEF WatchInvariant, WatchTypeOK
<1>1. CASE StopWatcher
  BY <1>1 DEF StopWatcher, StopsInOrder, FullOrWorking, WokenChangeIsOnItsWay, StopReachesTheNotifier
<1>2. CASE StopNotifier
  BY <1>2 DEF StopNotifier, StopsInOrder, FullOrWorking, WokenChangeIsOnItsWay, StopReachesTheNotifier
<1>3. CASE StopPuts
  BY <1>3 DEF StopPuts, StopsInOrder, FullOrWorking, WokenChangeIsOnItsWay, StopReachesTheNotifier
<1>4. CASE StopNotifies
  BY <1>4 DEF StopNotifies, Notified, StopsInOrder, FullOrWorking, WokenChangeIsOnItsWay, StopReachesTheNotifier
<1> QED
  BY <1>1, <1>2, <1>3, <1>4 DEF StopStep

LEMMA WatchStep == WatchInvariant /\ [WatchNext]_watchVars => WatchInvariant'
<1> SUFFICES ASSUME WatchInvariant, [WatchNext]_watchVars PROVE WatchInvariant'
  OBVIOUS
<1>1. CASE UNCHANGED watchVars
  BY <1>1 DEF watchVars, WatchInvariant, WatchTypeOK, StopsInOrder, FullOrWorking,
              WokenChangeIsOnItsWay, StopReachesTheNotifier
<1> QED
  BY <1>1, WatcherKeeps, NotifierKeeps, StopKeeps DEF WatchNext

\* The types of the watcher, its notifier and their queue.
THEOREM WatchTypeCorrect == WatchSpec => []WatchTypeOK
<1>1. WatchInvariant => WatchTypeOK
  BY DEF WatchInvariant
<1> QED
  BY <1>1, WatchBegins, WatchStep, PTL DEF WatchSpec

\* A change the watcher was woken for never gets lost between its token, the emptying of the
\* queue and the action, and a stop never between shutdown's token and a notifier that waits
\* for one, whatever the size of the queue (StateWatcher.run, UpdateNotifier.run, shutdown).
THEOREM WatchersAreTold == WatchSpec => [](WokenChangeIsOnItsWay /\ StopReachesTheNotifier)
<1>1. WatchInvariant => WokenChangeIsOnItsWay /\ StopReachesTheNotifier
  BY DEF WatchInvariant
<1> QED
  BY <1>1, WatchBegins, WatchStep, PTL DEF WatchSpec

-----------------------------------------------------------------------------
(* Pictures (EngineImages)                                                   *)

GuiStates ==
  [chosen : Selectable \union {Nothing}, shown : Pictures \union {Blank, Loading},
   images : [Picks -> Pictures \union {Blank}],
   prods : [PicEngines -> {"none", "future", "empty", "failed", "info", "N/A"}],
   fetches : Seq(Tasks), checked : SUBSET PicEngines, looking : SUBSET PicEngines,
   lookups : Seq(Tasks), untagged : SUBSET PicEngines]
TkMessages == [what : {"product", "custom"}, task : Tasks, found : BOOLEAN]

\* A pick is shown by the picture of its lead engine; a pick's picture is one of its own.
LEMMA LeadIs ==
  ASSUME NEW p \in Picks
  PROVE  /\ LeadEngine(p) \in PicEngines /\ LeadEngine(p) \in Picks /\ p # Nothing
         /\ p \in PicEngines => LeadEngine(p) = p
  BY ImagesAssumption DEF LeadEngine, Picks

LEMMA PictureIs ==
  ASSUME NEW e \in PicEngines, NEW source \in {"custom", "product", "generic"}
  PROVE  /\ Picture(e, source) \in Pictures
         /\ Picture(e, source).of = e /\ Picture(e, source).source = source
  BY DEF Picture, Pictures

LEMMA NoPicture == Blank \notin Pictures /\ Loading \notin Pictures /\ Blank # Loading
<1>1. Blank.of = Nothing /\ Loading.of = Nothing /\ Blank.source = "blank" /\ Loading.source = "loading"
  BY DEF Blank, Loading, Picture
<1>2. \A x \in Pictures : x.of \in PicEngines
  BY DEF Pictures
<1> QED
  BY <1>1, <1>2, ImagesAssumption

LEMMA TaskIs ==
  ASSUME NEW e \in PicEngines, NEW p \in Picks
  PROVE  Task(e, p) \in Tasks /\ Task(e, p).engine = e /\ Task(e, p).pick = p
  BY DEF Task, Tasks

\* What a queue holds.
LEMMA ElementsAppend ==
  ASSUME NEW S, NEW s \in Seq(S), NEW x \in S
  PROVE  Append(s, x) \in Seq(S) /\ Elements(Append(s, x)) = Elements(s) \cup {x}
<1>1. Append(s, x) \in Seq(S) /\ Len(Append(s, x)) = Len(s) + 1
      /\ \A i \in 1 .. Len(s) + 1 : Append(s, x)[i] = IF i <= Len(s) THEN s[i] ELSE x
  OBVIOUS
<1>2. Len(s) \in Nat
  OBVIOUS
<1>3. \A i \in 1 .. Len(s) : i \in 1 .. Len(s) + 1 /\ i <= Len(s)
  BY <1>2
<1>4. Len(s) + 1 \in 1 .. Len(s) + 1 /\ ~(Len(s) + 1 <= Len(s))
  BY <1>2
<1>5. \A i \in 1 .. Len(s) + 1 : i \in 1 .. Len(s) \/ ~(i <= Len(s))
  BY <1>2
<1> QED
  BY <1>1, <1>3, <1>4, <1>5 DEF Elements

LEMMA ElementsTail ==
  ASSUME NEW S, NEW s \in Seq(S), s # <<>>
  PROVE  /\ Head(s) \in S /\ Tail(s) \in Seq(S)
         /\ Elements(s) = Elements(Tail(s)) \cup {Head(s)}
<1>1. Len(s) \in Nat /\ Len(s) > 0 /\ Head(s) = s[1] /\ s[1] \in S
  OBVIOUS
<1>2. Tail(s) \in Seq(S) /\ Len(Tail(s)) = Len(s) - 1
      /\ \A i \in 1 .. Len(s) - 1 : Tail(s)[i] = s[i + 1]
  OBVIOUS
<1>3. \A i \in 1 .. Len(s) - 1 : i + 1 \in 1 .. Len(s)
  BY <1>1
<1>4. \A i \in 1 .. Len(s) : i = 1 \/ (i - 1 \in 1 .. Len(s) - 1 /\ (i - 1) + 1 = i)
  BY <1>1
<1>5. 1 \in 1 .. Len(s)
  BY <1>1
<1> QED
  BY SMTT(60), <1>1, <1>2, <1>3, <1>4, <1>5 DEF Elements

-----------------------------------------------------------------------------
(* What the presenter's operations leave                                    *)

\* All but the picture shown and those kept.
AsBefore(r, g) ==
  /\ r.chosen = g.chosen /\ r.prods = g.prods /\ r.fetches = g.fetches /\ r.checked = g.checked
  /\ r.looking = g.looking /\ r.lookups = g.lookups /\ r.untagged = g.untagged

LEMMA GuiFields ==
  ASSUME NEW g \in GuiStates
  PROVE  /\ g.chosen \in Selectable \union {Nothing} /\ g.shown \in Pictures \union {Blank, Loading}
         /\ g.images \in [Picks -> Pictures \union {Blank}]
         /\ g.prods \in [PicEngines -> {"none", "future", "empty", "failed", "info", "N/A"}]
         /\ g.fetches \in Seq(Tasks) /\ g.checked \in SUBSET PicEngines
         /\ g.looking \in SUBSET PicEngines /\ g.lookups \in Seq(Tasks)
         /\ g.untagged \in SUBSET PicEngines
  BY DEF GuiStates

LEMMA ShowForIs ==
  ASSUME NEW g \in GuiStates, NEW p, NEW picture \in Pictures \union {Blank, Loading}
  PROVE  /\ ShowFor(g, p, picture) \in GuiStates /\ AsBefore(ShowFor(g, p, picture), g)
         /\ ShowFor(g, p, picture).images = g.images
         /\ ShowFor(g, p, picture).shown = IF g.chosen = p THEN picture ELSE g.shown
  BY DEF ShowFor, GuiStates, AsBefore

LEMMA KeepForIs ==
  ASSUME NEW g \in GuiStates, NEW p \in Picks, NEW picture \in Pictures \union {Blank}
  PROVE  /\ KeepFor(g, p, picture) \in GuiStates /\ AsBefore(KeepFor(g, p, picture), g)
         /\ KeepFor(g, p, picture).shown = g.shown
         /\ KeepFor(g, p, picture).images = [g.images EXCEPT ![p] = picture]
  BY DEF KeepFor, GuiStates, AsBefore

LEMMA LookUpIs ==
  ASSUME NEW g \in GuiStates, NEW e \in PicEngines, NEW p \in Picks
  PROVE  /\ e \in g.looking => LookUp(g, e, p) = g
         /\ e \notin g.looking =>
              LET r == LookUp(g, e, p)
              IN /\ r \in GuiStates /\ r.chosen = g.chosen /\ r.prods = g.prods
                 /\ r.fetches = g.fetches /\ r.checked = g.checked /\ r.untagged = g.untagged
                 /\ r.shown = g.shown /\ r.images = g.images
                 /\ r.looking = g.looking \cup {e} /\ r.lookups = Append(g.lookups, Task(e, p))
<1>1. Task(e, p) \in Tasks
  BY TaskIs
<1>2. CASE e \in g.looking
  BY <1>2 DEF LookUp
<1>3. CASE e \notin g.looking
  <2> DEFINE k == g.looking \union {e}
             u == Append(g.lookups, Task(e, p))
             r == [g EXCEPT !.looking = k, !.lookups = u]
  <2>1. LookUp(g, e, p) = r
    BY <1>3 DEF LookUp
  <2>2. u \in Seq(Tasks) /\ k \in SUBSET PicEngines
    BY <1>1, GuiFields
  <2> HIDE DEF k, u
  <2>3. /\ r \in GuiStates /\ r.chosen = g.chosen /\ r.prods = g.prods
        /\ r.fetches = g.fetches /\ r.checked = g.checked /\ r.untagged = g.untagged
        /\ r.shown = g.shown /\ r.images = g.images /\ r.looking = k /\ r.lookups = u
    BY <2>2 DEF GuiStates
  <2> QED
    BY <1>3, <2>1, <2>3 DEF k, u
<1> QED
  BY <1>2, <1>3

LEMMA GenericForIs ==
  ASSUME NEW g \in GuiStates, NEW e \in PicEngines, NEW p \in Picks
  PROVE  LET r == GenericFor(g, e, p)
             generic == Picture(e, "generic")
         IN /\ r \in GuiStates /\ AsBefore(r, g)
            /\ r.images = [[g.images EXCEPT ![e] = generic] EXCEPT ![p] = generic]
            /\ r.shown = IF g.chosen = p THEN generic ELSE g.shown
<1> DEFINE generic == Picture(e, "generic")
           g1 == KeepFor(g, e, generic)
           g2 == KeepFor(g1, p, generic)
           g3 == ShowFor(g2, p, generic)
<1>1. generic \in Pictures /\ e \in Picks
  BY PictureIs DEF Picks
<1> HIDE DEF generic
<1>2. g1 \in GuiStates /\ AsBefore(g1, g) /\ g1.shown = g.shown
      /\ g1.images = [g.images EXCEPT ![e] = generic]
  BY <1>1, KeepForIs
<1> HIDE DEF g1
<1>3. g2 \in GuiStates /\ AsBefore(g2, g1) /\ g2.shown = g1.shown
      /\ g2.images = [g1.images EXCEPT ![p] = generic]
  BY <1>1, <1>2, KeepForIs
<1> HIDE DEF g2
<1>4. g3 \in GuiStates /\ AsBefore(g3, g2) /\ g3.images = g2.images
      /\ g3.shown = IF g2.chosen = p THEN generic ELSE g2.shown
  BY <1>1, <1>3, ShowForIs
<1>5. GenericFor(g, e, p) = g3
  BY DEF GenericFor, g1, g2, generic
<1> HIDE DEF g3
<1>6. AsBefore(g3, g) /\ g2.chosen = g.chosen /\ g2.shown = g.shown
  BY <1>2, <1>3, <1>4 DEF AsBefore
<1>7. g3 \in GuiStates /\ AsBefore(g3, g)
      /\ g3.images = [[g.images EXCEPT ![e] = generic] EXCEPT ![p] = generic]
      /\ g3.shown = IF g.chosen = p THEN generic ELSE g.shown
  BY <1>2, <1>3, <1>4, <1>6
<1> QED
  BY <1>5, <1>7 DEF generic

-----------------------------------------------------------------------------
(* What is known of what the presenter knows                                *)

Apart == \A p, q \in Selectable : LeadEngine(p) = LeadEngine(q) => p = q
Rightly(task) == task.pick \in Selectable /\ task.engine = LeadEngine(task.pick)
About(tasks, e) == \E task \in tasks : task.engine = e
Tells(M, what, found, e) == \E m \in M : m.what = what /\ (found => m.found) /\ m.task.engine = e

\* Every picture that is kept is one of the engine it stands for.
ImagesFit(g) == \A q \in Picks : g.images[q] # Blank => g.images[q].of = LeadEngine(q)
QueuesFit(g) == \A task \in Elements(g.lookups) \cup Elements(g.fetches) : Rightly(task)
\* An engine whose own picture is looked for is in a queue; of one whose product is known the
\* picture is kept, or on its way; one whose product is not to be had has been given up.
LookingComes(g, M) ==
  \A e \in g.looking : About(Elements(g.lookups), e) \/ Tells(M, "custom", FALSE, e)
InfoComes(g, M) ==
  \A e \in PicEngines : g.prods[e] = "info" =>
    \/ g.images[e] # Blank /\ g.images[e].source # "generic"
    \/ Tells(M, "product", TRUE, e)
FailedIsGivenUp(g, U) == \A e \in PicEngines : g.prods[e] = "failed" => e \in U
PendingComes(A, P, U) == \A e \in P : e \in U \/ About(A, e)

Sound(g, M, U) ==
  ImagesFit(g) /\ QueuesFit(g) /\ LookingComes(g, M) /\ InfoComes(g, M) /\ FailedIsGivenUp(g, U)

\* The picture of the chosen engine or train is shown, or something comes of it.
Coming(g, M, A, e) ==
  About(Elements(g.lookups), e) \/ About(Elements(g.fetches), e) \/ About(A, e)
  \/ \E m \in M : m.task.engine = e
Arriving(g, M, A, U) ==
  \A p \in Selectable : g.chosen = p =>
    LET e == LeadEngine(p)
    IN /\ (g.shown \in Pictures /\ g.shown.of = e) \/ e \in U \/ Coming(g, M, A, e)
       /\ p \in PicEngines /\ g.prods[e] = "info" =>
            \/ g.shown \in Pictures /\ g.shown.of = e /\ g.shown.source # "generic"
            \/ Tells(M, "product", TRUE, e)
       /\ p \in PicEngines /\ g.images[p] # Blank => g.shown = g.images[p]

\* What updating the picture for p comes to, when p is what is chosen.
LEMMA GenericArrives ==
  ASSUME NEW g \in GuiStates, NEW M, NEW A, NEW U, NEW p \in Selectable, g.chosen = p, Sound(g, M, U),
         g.prods[LeadEngine(p)] # "info"
  PROVE  LET r == GenericFor(g, LeadEngine(p), p)
         IN r \in GuiStates /\ r.chosen = p /\ Sound(r, M, U) /\ Arriving(r, M, A, U)
<1> DEFINE e == LeadEngine(p)
           r == GenericFor(g, e, p)
           generic == Picture(e, "generic")
<1>1. p \in Picks /\ e \in PicEngines /\ e \in Picks /\ (p \in PicEngines => e = p) /\ LeadEngine(e) = e
  BY ImagesAssumption, LeadIs DEF Picks
<1>2. generic \in Pictures /\ generic.of = e /\ generic.source = "generic" /\ generic # Blank
  BY <1>1, PictureIs, NoPicture
<1>3. /\ r \in GuiStates /\ AsBefore(r, g)
      /\ r.images = [[g.images EXCEPT ![e] = generic] EXCEPT ![p] = generic]
      /\ r.shown = generic
  BY <1>1, GenericForIs
<1>4. g.images \in [Picks -> Pictures \union {Blank}]
  BY GuiFields
<1> HIDE DEF r, generic
<1>5. r.images[e] = generic /\ r.images[p] = generic
      /\ \A q \in Picks : q # e /\ q # p => r.images[q] = g.images[q]
  BY <1>1, <1>3, <1>4
<1>6. ImagesFit(r)
  <2> SUFFICES ASSUME NEW q \in Picks, r.images[q] # Blank PROVE r.images[q].of = LeadEngine(q)
    BY DEF ImagesFit
  <2>1. CASE q = e \/ q = p
    BY <1>1, <1>2, <1>5, <2>1
  <2>2. CASE q # e /\ q # p
    BY <1>5, <2>2 DEF Sound, ImagesFit
  <2> QED
    BY <2>1, <2>2
<1>7. QueuesFit(r) /\ LookingComes(r, M) /\ FailedIsGivenUp(r, U)
  BY <1>3 DEF AsBefore, Sound, QueuesFit, LookingComes, FailedIsGivenUp
<1>8. InfoComes(r, M)
  <2> SUFFICES ASSUME NEW x \in PicEngines, r.prods[x] = "info"
               PROVE  \/ r.images[x] # Blank /\ r.images[x].source # "generic"
                      \/ Tells(M, "product", TRUE, x)
    BY DEF InfoComes
  <2>1. g.prods[x] = "info" /\ x # e
    BY <1>3 DEF AsBefore
  <2>2. r.images[x] = g.images[x]
    BY <1>1, <1>5, <2>1 DEF Picks
  <2> QED
    BY <2>1, <2>2 DEF Sound, InfoComes
<1>9. r.chosen = p
  BY <1>3 DEF AsBefore
<1>10. Arriving(r, M, A, U)
  <2> SUFFICES ASSUME NEW q \in Selectable, r.chosen = q
               PROVE  /\ r.shown \in Pictures /\ r.shown.of = LeadEngine(q)
                      /\ r.prods[LeadEngine(q)] # "info"
                      /\ q \in PicEngines => r.shown = r.images[q]
    BY DEF Arriving
  <2>1. q = p /\ r.prods = g.prods
    BY <1>3, <1>9 DEF AsBefore
  <2> QED
    BY <1>2, <1>3, <1>5, <2>1
<1> QED
  BY <1>3, <1>6, <1>7, <1>8, <1>9, <1>10 DEF r, Sound

LEMMA AskArrives ==
  ASSUME NEW g \in GuiStates, NEW M, NEW p \in Selectable, g.chosen = p, Sound(g, M, unfetched),
         PendingComes(asking, pendingProds, unfetched), g.images[LeadEngine(p)] = Blank
  PROVE  LET r == AskProduct(g, LeadEngine(p), p)
         IN r \in GuiStates /\ r.chosen = p /\ Sound(r, M, unfetched) /\ Arriving(r, M, asking, unfetched)
<1> DEFINE e == LeadEngine(p)
           r == AskProduct(g, e, p)
           Done == /\ r \in GuiStates /\ r.chosen = p /\ Sound(r, M, unfetched)
                   /\ Arriving(r, M, asking, unfetched)
<1>1. p \in Picks /\ e \in PicEngines /\ e \in Picks /\ (p \in PicEngines => e = p)
  BY ImagesAssumption, LeadIs DEF Picks
<1>2. /\ g.prods \in [PicEngines -> {"none", "future", "empty", "failed", "info", "N/A"}]
      /\ g.fetches \in Seq(Tasks) /\ g.images \in [Picks -> Pictures \union {Blank}]
  BY GuiFields
<1>3. CASE g.prods[e] = "none" /\ e \notin g.untagged
  <2> DEFINE g1 == IF e \in pendingProds THEN g
                   ELSE [g EXCEPT !.prods[e] = "future", !.fetches = Append(@, Task(e, p))]
             r1 == ShowFor(g1, e, Loading)
  <2>1. r = r1
    BY <1>3 DEF AskProduct
  <2>2. /\ g1 \in GuiStates /\ g1.chosen = p /\ g1.images = g.images /\ g1.lookups = g.lookups
        /\ g1.looking = g.looking
        /\ \A x \in PicEngines : x # e => g1.prods[x] = g.prods[x]
        /\ g1.prods[e] \in {"none", "future"}
        /\ \/ g1.fetches = g.fetches /\ e \in pendingProds
           \/ Elements(g1.fetches) = Elements(g.fetches) \cup {Task(e, p)}
    <3>1. CASE e \in pendingProds
      BY <1>2, <1>3, <3>1
    <3>2. CASE e \notin pendingProds
      <4> DEFINE ps == [g.prods EXCEPT ![e] = "future"]
                 fs == Append(g.fetches, Task(e, p))
                 h == [g EXCEPT !.prods = ps, !.fetches = fs]
      <4>1. g1 = h
        BY <3>2
      <4>2. fs \in Seq(Tasks) /\ Elements(fs) = Elements(g.fetches) \cup {Task(e, p)}
        BY <1>1, <1>2, TaskIs, ElementsAppend
      <4>3. /\ ps \in [PicEngines -> {"none", "future", "empty", "failed", "info", "N/A"}]
            /\ ps[e] = "future" /\ \A x \in PicEngines : x # e => ps[x] = g.prods[x]
        BY <1>1, <1>2
      <4> HIDE DEF ps, fs
      <4>4. /\ h \in GuiStates /\ h.chosen = p /\ h.images = g.images /\ h.lookups = g.lookups
            /\ h.looking = g.looking /\ h.prods = ps /\ h.fetches = fs
        BY <4>2, <4>3 DEF GuiStates
      <4> HIDE DEF g1, h
      <4> QED
        BY <4>1, <4>2, <4>3, <4>4
    <3> QED
      BY <3>1, <3>2
  <2> HIDE DEF g1
  <2>3. r1 \in GuiStates /\ AsBefore(r1, g1) /\ r1.images = g1.images
    BY <2>2, ShowForIs
  <2> HIDE DEF r1
  <2>4. /\ r1.chosen = p /\ r1.images = g.images /\ r1.lookups = g.lookups /\ r1.looking = g.looking
        /\ r1.prods = g1.prods /\ r1.fetches = g1.fetches
    BY <2>2, <2>3 DEF AsBefore
  <2>5. Rightly(Task(e, p))
    BY <1>1, TaskIs DEF Rightly
  <2>6. Sound(r1, M, unfetched)
    <3>1. ImagesFit(r1) /\ LookingComes(r1, M)
      BY <2>4 DEF Sound, ImagesFit, LookingComes
    <3>2. QueuesFit(r1)
      BY <2>2, <2>4, <2>5 DEF Sound, QueuesFit
    <3>3. InfoComes(r1, M) /\ FailedIsGivenUp(r1, unfetched)
      BY <2>2, <2>4 DEF Sound, InfoComes, FailedIsGivenUp
    <3> QED
      BY <3>1, <3>2, <3>3 DEF Sound
  <2>7. e \in unfetched \/ Coming(r1, M, asking, e)
    <3>1. CASE e \in pendingProds
      BY <3>1 DEF PendingComes, Coming
    <3>2. CASE e \notin pendingProds
      <4>1. Task(e, p) \in Elements(r1.fetches) /\ Task(e, p).engine = e
        BY <1>1, <2>2, <2>4, <3>2, TaskIs
      <4> QED
        BY <4>1 DEF Coming, About
    <3> QED
      BY <3>1, <3>2
  <2>8. Arriving(r1, M, asking, unfetched)
    <3> SUFFICES ASSUME NEW q \in Selectable, r1.chosen = q
                 PROVE  /\ LeadEngine(q) \in unfetched \/ Coming(r1, M, asking, LeadEngine(q))
                        /\ r1.prods[LeadEngine(q)] # "info"
                        /\ q \in PicEngines => r1.images[q] = Blank
      BY DEF Arriving
    <3>1. q = p
      BY <2>4
    <3> QED
      BY <1>1, <2>2, <2>4, <2>7, <3>1
  <2> QED
    BY <2>1, <2>3, <2>4, <2>6, <2>8
<1>4. CASE g.prods[e] = "none" /\ e \in g.untagged
  <2> DEFINE g1 == [g EXCEPT !.prods[e] = "N/A"]
             ps == [g.prods EXCEPT ![e] = "N/A"]
  <2>1. r = GenericFor(g1, e, p)
    BY <1>4 DEF AskProduct
  <2>2. /\ ps \in [PicEngines -> {"none", "future", "empty", "failed", "info", "N/A"}]
        /\ ps[e] = "N/A" /\ \A x \in PicEngines : x # e => ps[x] = g.prods[x]
    BY <1>1, <1>2
  <2>3. g1 = [g EXCEPT !.prods = ps]
    OBVIOUS
  <2> HIDE DEF ps
  <2>4. /\ g1 \in GuiStates /\ g1.chosen = p /\ g1.images = g.images /\ g1.lookups = g.lookups
        /\ g1.looking = g.looking /\ g1.prods = ps /\ g1.fetches = g.fetches
    BY <2>2, <2>3 DEF GuiStates
  <2> HIDE DEF g1
  <2>5. Sound(g1, M, unfetched)
    BY <2>2, <2>4 DEF Sound, ImagesFit, QueuesFit, LookingComes, InfoComes, FailedIsGivenUp
  <2>6. g1.prods[LeadEngine(p)] # "info"
    BY <2>2, <2>4
  <2> HIDE DEF e
  <2> QED
    BY <2>1, <2>4, <2>5, <2>6, GenericArrives DEF e
<1>5. CASE g.prods[e] = "info"
  <2> DEFINE r1 == [g EXCEPT !.shown = Blank]
  <2>1. r = r1
    BY <1>5 DEF AskProduct
  <2>2. r1 \in GuiStates /\ AsBefore(r1, g) /\ r1.images = g.images /\ r1.shown = Blank
    BY DEF GuiStates, AsBefore
  <2> HIDE DEF r1
  <2>3. Sound(r1, M, unfetched)
    BY <2>2 DEF AsBefore, Sound, ImagesFit, QueuesFit, LookingComes, InfoComes, FailedIsGivenUp
  <2>4. Tells(M, "product", TRUE, e)
    BY <1>1, <1>5 DEF Sound, InfoComes
  <2>5. Coming(r1, M, asking, e)
    BY <2>4 DEF Tells, Coming
  <2>6. r1.chosen = p
    BY <2>2 DEF AsBefore
  <2>7. Arriving(r1, M, asking, unfetched)
    <3> SUFFICES ASSUME NEW q \in Selectable, r1.chosen = q
                 PROVE  /\ Coming(r1, M, asking, LeadEngine(q)) /\ Tells(M, "product", TRUE, LeadEngine(q))
                        /\ q \in PicEngines => r1.images[q] = Blank
      BY DEF Arriving
    <3>1. q = p
      BY <2>6
    <3> QED
      BY <1>1, <2>2, <2>4, <2>5, <3>1
  <2> QED
    BY <2>1, <2>2, <2>3, <2>6, <2>7
<1>6. CASE g.prods[e] = "failed"
  <2>1. r = g
    BY <1>6 DEF AskProduct
  <2>2. e \in unfetched
    BY <1>1, <1>6 DEF Sound, FailedIsGivenUp
  <2>3. Arriving(g, M, asking, unfetched)
    BY <1>1, <1>6, <2>2 DEF Arriving
  <2> QED
    BY <2>1, <2>3
<1>7. CASE g.prods[e] \in {"future", "empty", "N/A"}
  <2>1. r = GenericFor(g, e, p)
    BY <1>7 DEF AskProduct
  <2>2. g.prods[LeadEngine(p)] # "info"
    BY <1>7
  <2> HIDE DEF e
  <2> QED
    BY <2>1, <2>2, GenericArrives DEF e
<1>8. g.prods[e] \in {"none", "future", "empty", "failed", "info", "N/A"}
  BY <1>1, <1>2
<1> QED
  BY <1>3, <1>4, <1>5, <1>6, <1>7, <1>8

LEMMA UpdateArrives ==
  ASSUME NEW g \in GuiStates, NEW M, NEW p \in Selectable, g.chosen = p, Sound(g, M, unfetched),
         PendingComes(asking, pendingProds, unfetched)
  PROVE  LET r == UpdateEngine(g, LeadEngine(p), p)
         IN r \in GuiStates /\ r.chosen = p /\ Sound(r, M, unfetched) /\ Arriving(r, M, asking, unfetched)
<1> DEFINE e == LeadEngine(p)
           r == UpdateEngine(g, e, p)
<1>1. p \in Picks /\ e \in PicEngines /\ e \in Picks /\ (p \in PicEngines => e = p)
      /\ LeadEngine(e) = e
  BY ImagesAssumption, LeadIs DEF Picks
<1>2. g.images \in [Picks -> Pictures \union {Blank}]
  BY GuiFields
<1>3. CASE g.images[e] # Blank
  <2> DEFINE picture == g.images[e]
             g1 == KeepFor(g, p, picture)
             r1 == ShowFor(g1, p, picture)
  <2>1. r = r1
    BY <1>3 DEF UpdateEngine
  <2>2. picture \in Pictures /\ picture # Blank /\ picture.of = e
    BY <1>1, <1>2, <1>3 DEF Sound, ImagesFit
  <2> HIDE DEF picture
  <2>3. g1 \in GuiStates /\ AsBefore(g1, g) /\ g1.images = [g.images EXCEPT ![p] = picture]
    BY <1>1, <2>2, KeepForIs
  <2> HIDE DEF g1
  <2>4. r1 \in GuiStates /\ AsBefore(r1, g1) /\ r1.images = g1.images
        /\ r1.shown = IF g1.chosen = p THEN picture ELSE g1.shown
    BY <2>2, <2>3, ShowForIs
  <2> HIDE DEF r1
  <2>5. AsBefore(r1, g) /\ r1.chosen = p /\ r1.shown = picture
    BY <2>3, <2>4 DEF AsBefore
  <2>6. r1.images[p] = picture /\ \A q \in Picks : q # p => r1.images[q] = g.images[q]
    BY <1>1, <1>2, <2>3, <2>4
  <2>7. \A x \in PicEngines : r1.images[x] = g.images[x]
    BY <1>1, <2>6 DEF picture, Picks
  <2>8. ImagesFit(r1)
    BY <2>2, <2>6 DEF Sound, ImagesFit
  <2>9. InfoComes(r1, M)
    BY <2>5, <2>7 DEF Sound, InfoComes, AsBefore
  <2>10. QueuesFit(r1) /\ LookingComes(r1, M) /\ FailedIsGivenUp(r1, unfetched)
    BY <2>5 DEF AsBefore, Sound, QueuesFit, LookingComes, FailedIsGivenUp
  <2>11. Arriving(r1, M, asking, unfetched)
    <3> SUFFICES ASSUME NEW q \in Selectable, r1.chosen = q
                 PROVE  /\ r1.shown \in Pictures /\ r1.shown.of = LeadEngine(q)
                        /\ q \in PicEngines /\ r1.prods[LeadEngine(q)] = "info" =>
                             r1.shown.source # "generic" \/ Tells(M, "product", TRUE, LeadEngine(q))
                        /\ q \in PicEngines => r1.shown = r1.images[q]
      BY DEF Arriving
    <3>1. q = p
      BY <2>5
    <3>2. r1.prods[e] = "info" => picture.source # "generic" \/ Tells(M, "product", TRUE, e)
      BY <1>1, <2>5 DEF AsBefore, Sound, InfoComes, picture
    <3> QED
      BY <2>2, <2>5, <2>6, <3>1, <3>2
  <2> QED
    BY <2>1, <2>4, <2>5, <2>8, <2>9, <2>10, <2>11 DEF Sound
<1>4. CASE g.images[e] = Blank /\ e \notin g.checked
  <2> DEFINE r1 == LookUp(g, e, p)
  <2>1. r = r1
    BY <1>4 DEF UpdateEngine
  <2>2. /\ r1 \in GuiStates /\ r1.chosen = p /\ r1.prods = g.prods /\ r1.fetches = g.fetches
        /\ r1.images = g.images
        /\ \/ r1.looking = g.looking /\ r1.lookups = g.lookups /\ e \in g.looking
           \/ /\ r1.looking = g.looking \cup {e}
              /\ Elements(r1.lookups) = Elements(g.lookups) \cup {Task(e, p)}
    <3>1. CASE e \in g.looking
      BY <1>1, <3>1, LookUpIs
    <3>2. CASE e \notin g.looking
      <4>1. /\ r1 \in GuiStates /\ r1.chosen = p /\ r1.prods = g.prods /\ r1.fetches = g.fetches
            /\ r1.images = g.images /\ r1.looking = g.looking \cup {e}
            /\ r1.lookups = Append(g.lookups, Task(e, p))
        BY <1>1, <3>2, LookUpIs
      <4>2. Elements(Append(g.lookups, Task(e, p))) = Elements(g.lookups) \cup {Task(e, p)}
        BY <1>1, GuiFields, TaskIs, ElementsAppend
      <4> QED
        BY <4>1, <4>2
    <3> QED
      BY <3>1, <3>2
  <2> HIDE DEF r1
  <2>3. Task(e, p).engine = e /\ Rightly(Task(e, p))
    BY <1>1, TaskIs DEF Rightly
  <2>4. LookingComes(r1, M) /\ QueuesFit(r1)
    BY <2>2, <2>3 DEF Sound, LookingComes, QueuesFit, About
  <2>5. ImagesFit(r1) /\ InfoComes(r1, M) /\ FailedIsGivenUp(r1, unfetched)
    BY <2>2 DEF Sound, ImagesFit, InfoComes, FailedIsGivenUp
  <2>6. Coming(r1, M, asking, e)
    <3>1. About(Elements(r1.lookups), e) \/ Tells(M, "custom", FALSE, e)
      BY <2>2, <2>3 DEF Sound, LookingComes, About
    <3> QED
      BY <3>1 DEF Coming, Tells
  <2>7. Arriving(r1, M, asking, unfetched)
    <3> SUFFICES ASSUME NEW q \in Selectable, r1.chosen = q
                 PROVE  /\ Coming(r1, M, asking, LeadEngine(q))
                        /\ q \in PicEngines /\ r1.prods[LeadEngine(q)] = "info" =>
                             Tells(M, "product", TRUE, LeadEngine(q))
                        /\ q \in PicEngines => r1.images[q] = Blank
      BY DEF Arriving
    <3>1. q = p
      BY <2>2
    <3>2. r1.prods[e] = "info" => Tells(M, "product", TRUE, e)
      BY <1>1, <1>4, <2>2, <2>5 DEF InfoComes
    <3> QED
      BY <1>1, <1>4, <2>2, <2>6, <3>1, <3>2
  <2> QED
    BY <2>1, <2>2, <2>4, <2>5, <2>7 DEF Sound
<1>5. CASE g.images[e] = Blank /\ e \in g.checked
  <2>1. r = AskProduct(g, e, p)
    BY <1>5 DEF UpdateEngine
  <2> HIDE DEF r
  <2> QED
    BY <1>5, <2>1, AskArrives DEF r
<1> QED
  BY <1>3, <1>4, <1>5

\* The same when the picture of what is chosen is updated.
LEMMA UpdatePictureArrives ==
  ASSUME NEW g \in GuiStates, NEW M, Sound(g, M, unfetched),
         PendingComes(asking, pendingProds, unfetched)
  PROVE  LET r == UpdatePicture(g)
         IN r.chosen = g.chosen /\ Sound(r, M, unfetched) /\ Arriving(r, M, asking, unfetched)
<1> DEFINE r == UpdatePicture(g)
           p == g.chosen
<1>1. g.images \in [Picks -> Pictures \union {Blank}] /\ p \in Selectable \union {Nothing}
      /\ Selectable \subseteq Picks /\ Nothing \notin Selectable
  BY GuiFields, ImagesAssumption DEF Picks
<1>2. CASE p = Nothing
  <2> DEFINE r1 == [g EXCEPT !.shown = Blank]
  <2>1. r = r1
    BY <1>2 DEF UpdatePicture
  <2>2. r1 \in GuiStates /\ AsBefore(r1, g) /\ r1.images = g.images
    BY DEF GuiStates, AsBefore
  <2> HIDE DEF r1
  <2>3. Sound(r1, M, unfetched) /\ r1.chosen = p
    BY <2>2 DEF AsBefore, Sound, ImagesFit, QueuesFit, LookingComes, InfoComes, FailedIsGivenUp
  <2>4. Arriving(r1, M, asking, unfetched)
    BY <1>1, <1>2, <2>3 DEF Arriving
  <2> QED
    BY <2>1, <2>3, <2>4
<1>3. CASE p # Nothing /\ g.images[p] # Blank
  <2> DEFINE picture == g.images[p]
             r1 == ShowFor(g, p, picture)
  <2>0. p \in Selectable /\ p \in Picks
    BY <1>1, <1>3
  <2>1. r = r1
    BY <1>3 DEF UpdatePicture
  <2>2. picture \in Pictures /\ picture.of = LeadEngine(p)
    BY <1>1, <1>3, <2>0 DEF Sound, ImagesFit
  <2>3. AsBefore(r1, g) /\ r1.images = g.images /\ r1.shown = picture
    <3> HIDE DEF picture
    <3> QED
      BY <2>2, ShowForIs
  <2> HIDE DEF r1
  <2>4. Sound(r1, M, unfetched) /\ r1.chosen = p /\ r1.prods = g.prods
    BY <2>3 DEF AsBefore, Sound, ImagesFit, QueuesFit, LookingComes, InfoComes, FailedIsGivenUp
  <2>5. Arriving(r1, M, asking, unfetched)
    <3> SUFFICES ASSUME NEW q \in Selectable, r1.chosen = q
                 PROVE  /\ r1.shown \in Pictures /\ r1.shown.of = LeadEngine(q)
                        /\ q \in PicEngines /\ r1.prods[LeadEngine(q)] = "info" =>
                             r1.shown.source # "generic" \/ Tells(M, "product", TRUE, LeadEngine(q))
                        /\ q \in PicEngines => r1.shown = r1.images[q]
      BY DEF Arriving
    <3>1. q = p
      BY <2>4
    <3>2. p \in PicEngines /\ g.prods[LeadEngine(p)] = "info" =>
            picture.source # "generic" \/ Tells(M, "product", TRUE, LeadEngine(p))
      BY <2>0, LeadIs DEF Sound, InfoComes
    <3> QED
      BY <2>2, <2>3, <2>4, <3>1, <3>2
  <2> QED
    BY <2>1, <2>4, <2>5
<1>4. CASE p # Nothing /\ g.images[p] = Blank
  <2>1. r = UpdateEngine(g, LeadEngine(p), p) /\ p \in Selectable
    BY <1>1, <1>4 DEF UpdatePicture
  <2> HIDE DEF r
  <2> QED
    BY <2>1, UpdateArrives DEF r
<1> QED
  BY <1>2, <1>3, <1>4

-----------------------------------------------------------------------------
(* Types                                                                    *)

LEMMA AskIsTyped ==
  ASSUME NEW g \in GuiStates, NEW e \in PicEngines, NEW p \in Picks
  PROVE  AskProduct(g, e, p) \in GuiStates /\ AskProduct(g, e, p).chosen = g.chosen
<1>1. /\ g.prods \in [PicEngines -> {"none", "future", "empty", "failed", "info", "N/A"}]
      /\ g.fetches \in Seq(Tasks)
  BY GuiFields
<1>2. CASE g.prods[e] = "none" /\ e \notin g.untagged
  <2> DEFINE ps == [g.prods EXCEPT ![e] = "future"]
             fs == Append(g.fetches, Task(e, p))
             h == [g EXCEPT !.prods = ps, !.fetches = fs]
             g1 == IF e \in pendingProds THEN g ELSE h
             r1 == ShowFor(g1, e, Loading)
  <2>1. AskProduct(g, e, p) = r1
    BY <1>2 DEF AskProduct
  <2>2. fs \in Seq(Tasks)
    BY <1>1, TaskIs
  <2>3. ps \in [PicEngines -> {"none", "future", "empty", "failed", "info", "N/A"}]
    BY <1>1
  <2> HIDE DEF ps, fs
  <2>4. h \in GuiStates /\ h.chosen = g.chosen
    BY <2>2, <2>3 DEF GuiStates
  <2> HIDE DEF h
  <2>5. g1 \in GuiStates /\ g1.chosen = g.chosen
    BY <2>4
  <2> HIDE DEF g1
  <2>6. r1 \in GuiStates /\ r1.chosen = g.chosen
    BY <2>5, ShowForIs DEF AsBefore
  <2> QED
    BY <2>1, <2>6
<1>3. CASE g.prods[e] = "none" /\ e \in g.untagged
  <2> DEFINE ps == [g.prods EXCEPT ![e] = "N/A"]
             g1 == [g EXCEPT !.prods = ps]
  <2>1. AskProduct(g, e, p) = GenericFor(g1, e, p)
    BY <1>3 DEF AskProduct
  <2>2. ps \in [PicEngines -> {"none", "future", "empty", "failed", "info", "N/A"}]
    BY <1>1
  <2> HIDE DEF ps
  <2>3. g1 \in GuiStates /\ g1.chosen = g.chosen
    BY <2>2 DEF GuiStates
  <2> HIDE DEF g1
  <2>4. GenericFor(g1, e, p) \in GuiStates /\ AsBefore(GenericFor(g1, e, p), g1)
    BY <2>3, GenericForIs
  <2> QED
    BY <2>1, <2>3, <2>4 DEF AsBefore
<1>4. CASE g.prods[e] = "info"
  <2>1. AskProduct(g, e, p) = [g EXCEPT !.shown = Blank]
    BY <1>4 DEF AskProduct
  <2> QED
    BY <2>1 DEF GuiStates
<1>5. CASE g.prods[e] = "failed"
  <2>1. AskProduct(g, e, p) = g
    BY <1>5 DEF AskProduct
  <2> QED
    BY <2>1
<1>6. CASE g.prods[e] \in {"future", "empty", "N/A"}
  <2>1. AskProduct(g, e, p) = GenericFor(g, e, p)
    BY <1>6 DEF AskProduct
  <2>2. GenericFor(g, e, p) \in GuiStates /\ AsBefore(GenericFor(g, e, p), g)
    BY GenericForIs
  <2> QED
    BY <2>1, <2>2 DEF AsBefore
<1> QED
  BY <1>1, <1>2, <1>3, <1>4, <1>5, <1>6

LEMMA UpdateIsTyped ==
  ASSUME NEW g \in GuiStates, NEW e \in PicEngines, NEW p \in Picks
  PROVE  UpdateEngine(g, e, p) \in GuiStates /\ UpdateEngine(g, e, p).chosen = g.chosen
<1>1. e \in Picks /\ g.images \in [Picks -> Pictures \union {Blank}]
  BY GuiFields DEF Picks
<1>2. CASE g.images[e] # Blank
  <2> DEFINE picture == g.images[e]
             g1 == KeepFor(g, p, picture)
             r1 == ShowFor(g1, p, picture)
  <2>1. UpdateEngine(g, e, p) = r1
    BY <1>2 DEF UpdateEngine
  <2>2. picture \in Pictures
    BY <1>1, <1>2
  <2> HIDE DEF picture
  <2>3. g1 \in GuiStates /\ AsBefore(g1, g)
    BY <2>2, KeepForIs
  <2> HIDE DEF g1
  <2>4. g1.chosen = g.chosen
    BY <2>3 DEF AsBefore
  <2>5. r1 \in GuiStates /\ AsBefore(r1, g1)
    BY <2>2, <2>3, ShowForIs
  <2> HIDE DEF r1
  <2>6. r1.chosen = g1.chosen
    BY <2>5 DEF AsBefore
  <2> QED
    BY <2>1, <2>4, <2>5, <2>6
<1>3. CASE g.images[e] = Blank /\ e \notin g.checked
  <2>1. UpdateEngine(g, e, p) = LookUp(g, e, p)
    BY <1>3 DEF UpdateEngine
  <2> QED
    BY <2>1, LookUpIs
<1>4. CASE g.images[e] = Blank /\ e \in g.checked
  <2>1. UpdateEngine(g, e, p) = AskProduct(g, e, p)
    BY <1>4 DEF UpdateEngine
  <2> QED
    BY <2>1, AskIsTyped
<1> QED
  BY <1>2, <1>3, <1>4

LEMMA UpdatePictureIsTyped ==
  ASSUME NEW g \in GuiStates
  PROVE  UpdatePicture(g) \in GuiStates
<1>1. g.images \in [Picks -> Pictures \union {Blank}] /\ g.chosen \in Selectable \union {Nothing}
      /\ Selectable \subseteq Picks
  BY GuiFields, ImagesAssumption DEF Picks
<1>2. CASE g.chosen = Nothing
  <2>1. UpdatePicture(g) = [g EXCEPT !.shown = Blank]
    BY <1>2 DEF UpdatePicture
  <2> QED
    BY <2>1 DEF GuiStates
<1>3. CASE g.chosen # Nothing /\ g.images[g.chosen] # Blank
  <2>1. UpdatePicture(g) = ShowFor(g, g.chosen, g.images[g.chosen])
    BY <1>3 DEF UpdatePicture
  <2>2. g.images[g.chosen] \in Pictures
    BY <1>1, <1>3
  <2> QED
    BY <2>1, <2>2, ShowForIs
<1>4. CASE g.chosen # Nothing /\ g.images[g.chosen] = Blank
  <2>1. UpdatePicture(g) = UpdateEngine(g, LeadEngine(g.chosen), g.chosen) /\ g.chosen \in Picks
    BY <1>1, <1>4 DEF UpdatePicture
  <2> QED
    BY <2>1, LeadIs, UpdateIsTyped
<1> QED
  BY <1>2, <1>3, <1>4

\* What a message tells is kept, and the lookup it answers is over.
LEMMA LearnIs ==
  ASSUME NEW g \in GuiStates, NEW m \in TkMessages
  PROVE  LET r == Learn(g, m)
         IN /\ r \in GuiStates /\ r.chosen = g.chosen /\ r.shown = g.shown /\ r.prods = g.prods
            /\ r.fetches = g.fetches /\ r.lookups = g.lookups
            /\ r.images = IF m.found THEN [g.images EXCEPT ![m.task.engine] = Picture(m.task.engine, m.what)]
                          ELSE g.images
            /\ r.looking = IF m.what = "product" THEN g.looking ELSE g.looking \ {m.task.engine}
<1> DEFINE e == m.task.engine
           g1 == IF m.found THEN KeepFor(g, e, Picture(e, m.what)) ELSE g
           r == Learn(g, m)
<1>1. e \in PicEngines /\ e \in Picks /\ m.what \in {"product", "custom"} /\ m.found \in BOOLEAN
  BY DEF TkMessages, Tasks, Picks
<1>2. Picture(e, m.what) \in Pictures
  BY <1>1, PictureIs
<1>3. g1 \in GuiStates /\ AsBefore(g1, g) /\ g1.shown = g.shown
      /\ g1.images = IF m.found THEN [g.images EXCEPT ![e] = Picture(e, m.what)] ELSE g.images
  <2>1. CASE m.found
    BY <1>1, <1>2, <2>1, KeepForIs
  <2>2. CASE ~m.found
    BY <2>2 DEF AsBefore
  <2> QED
    BY <2>1, <2>2
<1> HIDE DEF g1
<1>4. CASE m.what = "product"
  <2>1. r = g1
    BY <1>4 DEF Learn, g1
  <2> QED
    BY <1>3, <1>4, <2>1 DEF AsBefore
<1>5. CASE m.what # "product"
  <2> DEFINE k == g1.looking \ {e}
             c == g1.checked \union {e}
             r1 == [g1 EXCEPT !.looking = k, !.checked = c]
  <2>1. r = r1
    BY <1>5 DEF Learn, g1
  <2>2. k \in SUBSET PicEngines /\ c \in SUBSET PicEngines
    BY <1>1, <1>3, GuiFields
  <2> HIDE DEF k, c
  <2>3. /\ r1 \in GuiStates /\ r1.chosen = g1.chosen /\ r1.shown = g1.shown /\ r1.prods = g1.prods
        /\ r1.fetches = g1.fetches /\ r1.lookups = g1.lookups /\ r1.images = g1.images
        /\ r1.looking = k
    BY <1>3, <2>2 DEF GuiStates
  <2> QED
    BY <1>3, <1>5, <2>1, <2>3 DEF AsBefore, k
<1> QED
  BY <1>4, <1>5

LEMMA CallBackIsTyped ==
  ASSUME NEW g \in GuiStates, NEW task \in Tasks
  PROVE  CallBack(g, task) \in GuiStates
<1>1. task.engine \in PicEngines /\ task.pick \in Picks
  BY DEF Tasks
<1> QED
  BY <1>1, UpdateIsTyped DEF CallBack

ImagesTyped == ImagesTypeOK /\ IsFiniteSet(asking)

LEMMA TypedParts ==
  ASSUME ImagesTyped
  PROVE  /\ gui \in GuiStates /\ asking \in SUBSET Tasks /\ IsFiniteSet(asking)
         /\ Cardinality(asking) <= FetchWorkers /\ pendingProds \in SUBSET PicEngines
         /\ tkMessages \in Seq(TkMessages) /\ choosingsLeft \in 0 .. Choosings
         /\ clearsLeft \in 0 .. ImageClears /\ unfetched \in SUBSET PicEngines
  BY DEF ImagesTyped, ImagesTypeOK, GuiStates, TkMessages

LEMMA TypedAgain ==
  ASSUME /\ gui' \in GuiStates /\ asking' \in SUBSET Tasks /\ IsFiniteSet(asking')
         /\ Cardinality(asking') <= FetchWorkers /\ pendingProds' \in SUBSET PicEngines
         /\ tkMessages' \in Seq(TkMessages) /\ choosingsLeft' \in 0 .. Choosings
         /\ clearsLeft' \in 0 .. ImageClears /\ unfetched' \in SUBSET PicEngines
  PROVE  ImagesTyped'
  BY DEF ImagesTyped, ImagesTypeOK, GuiStates, TkMessages

LEMMA MessageIs ==
  ASSUME NEW what \in {"product", "custom"}, NEW task \in Tasks, NEW found \in BOOLEAN
  PROVE  /\ Message(what, task, found) \in TkMessages
         /\ Message(what, task, found).what = what /\ Message(what, task, found).task = task
         /\ Message(what, task, found).found = found
  BY DEF Message, TkMessages

\* What the workers' steps take from the queues and put into them.
LEMMA LookupTaken ==
  ASSUME ImagesTyped, LoadCustom
  PROVE  /\ gui' \in GuiStates /\ gui'.chosen = gui.chosen /\ gui'.shown = gui.shown
         /\ gui'.images = gui.images /\ gui'.prods = gui.prods /\ gui'.fetches = gui.fetches
         /\ gui'.looking = gui.looking
         /\ UNCHANGED <<asking, pendingProds, choosingsLeft, clearsLeft, unfetched>>
         /\ tkMessages' \in Seq(TkMessages)
         /\ \E task \in Tasks : \E found \in BOOLEAN :
              /\ Elements(gui.lookups) = Elements(gui'.lookups) \cup {task}
              /\ Elements(tkMessages') = Elements(tkMessages) \cup {Message("custom", task, found)}
<1> DEFINE q == Tail(gui.lookups)
           task == Head(gui.lookups)
<1>1. gui \in GuiStates /\ gui.lookups \in Seq(Tasks) /\ gui.lookups # <<>>
      /\ tkMessages \in Seq(TkMessages)
  BY TypedParts, GuiFields DEF LoadCustom
<1>2. q \in Seq(Tasks) /\ task \in Tasks /\ Elements(gui.lookups) = Elements(q) \cup {task}
  BY <1>1, ElementsTail
<1>3. gui' = [gui EXCEPT !.lookups = q]
  BY DEF LoadCustom
<1>4. PICK found \in BOOLEAN : tkMessages' = Append(tkMessages, Message("custom", task, found))
  BY DEF LoadCustom
<1>5. UNCHANGED <<asking, pendingProds, choosingsLeft, clearsLeft, unfetched>>
  BY DEF LoadCustom
<1> HIDE DEF q, task
<1>6. tkMessages' \in Seq(TkMessages)
      /\ Elements(tkMessages') = Elements(tkMessages) \cup {Message("custom", task, found)}
  <2>1. Message("custom", task, found) \in TkMessages
    BY <1>2, MessageIs
  <2> QED
    BY <1>1, <1>4, <2>1, ElementsAppend
<1>7. /\ gui' \in GuiStates /\ gui'.chosen = gui.chosen /\ gui'.shown = gui.shown
      /\ gui'.images = gui.images /\ gui'.prods = gui.prods /\ gui'.fetches = gui.fetches
      /\ gui'.looking = gui.looking /\ gui'.lookups = q
  BY <1>1, <1>2, <1>3 DEF GuiStates
<1> QED
  BY <1>2, <1>5, <1>6, <1>7

LEMMA FetchTaken ==
  ASSUME ImagesTyped, StartFetch
  PROVE  /\ gui' \in GuiStates /\ gui'.chosen = gui.chosen /\ gui'.shown = gui.shown
         /\ gui'.images = gui.images /\ gui'.lookups = gui.lookups /\ gui'.looking = gui.looking
         /\ \A x \in PicEngines : gui'.prods[x] = gui.prods[x] \/ gui'.prods[x] = "empty"
         /\ UNCHANGED <<choosingsLeft, clearsLeft, unfetched>>
         /\ Cardinality(asking) < FetchWorkers
         /\ \E task \in Tasks :
              /\ Elements(gui.fetches) = Elements(gui'.fetches) \cup {task}
              /\ \/ /\ Elements(tkMessages') = Elements(tkMessages) \cup {Message("product", task, FALSE)}
                    /\ tkMessages' \in Seq(TkMessages) /\ UNCHANGED <<asking, pendingProds>>
                 \/ /\ asking' = asking \union {task} /\ pendingProds' = pendingProds \union {task.engine}
                    /\ UNCHANGED tkMessages
<1> DEFINE q == Tail(gui.fetches)
           task == Head(gui.fetches)
           e == task.engine
           taken == [gui EXCEPT !.fetches = q]
           ps == [gui.prods EXCEPT ![e] = "empty"]
           emptied == [taken EXCEPT !.prods[e] = "empty"]
<1>1. gui \in GuiStates /\ gui.fetches \in Seq(Tasks) /\ gui.fetches # <<>>
      /\ tkMessages \in Seq(TkMessages)
      /\ gui.prods \in [PicEngines -> {"none", "future", "empty", "failed", "info", "N/A"}]
  BY TypedParts, GuiFields DEF StartFetch
<1>2. q \in Seq(Tasks) /\ task \in Tasks /\ Elements(gui.fetches) = Elements(q) \cup {task}
  BY <1>1, ElementsTail
<1>3. /\ UNCHANGED <<choosingsLeft, clearsLeft, unfetched>> /\ Cardinality(asking) < FetchWorkers
      /\ \/ /\ gui' \in {taken, emptied}
            /\ tkMessages' = Append(tkMessages, Message("product", task, FALSE))
            /\ UNCHANGED <<asking, pendingProds>>
         \/ /\ gui' = taken /\ asking' = asking \union {task}
            /\ pendingProds' = pendingProds \union {e} /\ UNCHANGED tkMessages
  BY DEF StartFetch
<1>4. e \in PicEngines
  BY <1>2 DEF Tasks
<1> HIDE DEF q, task, e
<1>5. /\ taken \in GuiStates /\ taken.chosen = gui.chosen /\ taken.shown = gui.shown
      /\ taken.images = gui.images /\ taken.lookups = gui.lookups /\ taken.looking = gui.looking
      /\ taken.prods = gui.prods /\ taken.fetches = q
  BY <1>1, <1>2 DEF GuiStates
<1>6. emptied = [taken EXCEPT !.prods = ps]
  BY <1>5
<1>7. ps \in [PicEngines -> {"none", "future", "empty", "failed", "info", "N/A"}]
      /\ \A x \in PicEngines : ps[x] = gui.prods[x] \/ ps[x] = "empty"
  BY <1>1, <1>4
<1> HIDE DEF taken, emptied, ps
<1>8. /\ emptied \in GuiStates /\ emptied.chosen = gui.chosen /\ emptied.shown = gui.shown
      /\ emptied.images = gui.images /\ emptied.lookups = gui.lookups
      /\ emptied.looking = gui.looking /\ emptied.prods = ps /\ emptied.fetches = q
  BY <1>5, <1>6, <1>7 DEF GuiStates
<1>9. Append(tkMessages, Message("product", task, FALSE)) \in Seq(TkMessages)
      /\ Elements(Append(tkMessages, Message("product", task, FALSE)))
           = Elements(tkMessages) \cup {Message("product", task, FALSE)}
  <2> DEFINE m == Message("product", task, FALSE)
  <2>1. m \in TkMessages /\ tkMessages \in Seq(TkMessages)
    BY <1>1, <1>2, MessageIs
  <2> HIDE DEF m
  <2>2. Append(tkMessages, m) \in Seq(TkMessages)
        /\ Elements(Append(tkMessages, m)) = Elements(tkMessages) \cup {m}
    BY ONLY <2>1, ElementsAppend
  <2> QED
    BY <2>2 DEF m
<1>10. /\ gui' \in GuiStates /\ gui'.chosen = gui.chosen /\ gui'.shown = gui.shown
       /\ gui'.images = gui.images /\ gui'.lookups = gui.lookups /\ gui'.looking = gui.looking
       /\ \A x \in PicEngines : gui'.prods[x] = gui.prods[x] \/ gui'.prods[x] = "empty"
       /\ gui'.fetches = q
  BY <1>3, <1>5, <1>7, <1>8
<1> QED
  BY <1>2, <1>3, <1>9, <1>10 DEF e

LEMMA FetchEnds ==
  ASSUME ImagesTyped, NEW task \in Tasks, NEW found \in BOOLEAN, Fetched(task, found)
  PROVE  /\ gui' \in GuiStates /\ gui'.chosen = gui.chosen /\ gui'.shown = gui.shown
         /\ gui'.images = gui.images /\ gui'.lookups = gui.lookups /\ gui'.looking = gui.looking
         /\ gui'.fetches = gui.fetches /\ task \in asking
         /\ gui'.prods[task.engine] = IF found THEN "info" ELSE "N/A"
         /\ \A x \in PicEngines : x # task.engine => gui'.prods[x] = gui.prods[x]
         /\ UNCHANGED <<choosingsLeft, clearsLeft, unfetched>>
         /\ asking' = asking \ {task} /\ pendingProds' = pendingProds \ {task.engine}
         /\ tkMessages' \in Seq(TkMessages)
         /\ Elements(tkMessages') = Elements(tkMessages) \cup {Message("product", task, found)}
<1> DEFINE e == task.engine
           ps == [gui.prods EXCEPT ![e] = IF found THEN "info" ELSE "N/A"]
<1>1. gui \in GuiStates /\ tkMessages \in Seq(TkMessages) /\ e \in PicEngines
      /\ gui.prods \in [PicEngines -> {"none", "future", "empty", "failed", "info", "N/A"}]
  BY TypedParts, GuiFields DEF Tasks
<1>2. /\ task \in asking /\ asking' = asking \ {task} /\ pendingProds' = pendingProds \ {e}
      /\ gui' = [gui EXCEPT !.prods = ps]
      /\ tkMessages' = Append(tkMessages, Message("product", task, found))
      /\ UNCHANGED <<choosingsLeft, clearsLeft, unfetched>>
  BY DEF Fetched
<1>3. /\ ps \in [PicEngines -> {"none", "future", "empty", "failed", "info", "N/A"}]
      /\ ps[e] = (IF found THEN "info" ELSE "N/A")
      /\ \A x \in PicEngines : x # e => ps[x] = gui.prods[x]
  BY <1>1
<1> HIDE DEF ps
<1>4. /\ gui' \in GuiStates /\ gui'.chosen = gui.chosen /\ gui'.shown = gui.shown
      /\ gui'.images = gui.images /\ gui'.lookups = gui.lookups /\ gui'.looking = gui.looking
      /\ gui'.fetches = gui.fetches /\ gui'.prods = ps
  BY <1>1, <1>2, <1>3 DEF GuiStates
<1>5. tkMessages' \in Seq(TkMessages)
      /\ Elements(tkMessages') = Elements(tkMessages) \cup {Message("product", task, found)}
  <2>1. Message("product", task, found) \in TkMessages
    BY MessageIs
  <2> QED
    BY <1>1, <1>2, <2>1, ElementsAppend
<1> QED
  BY <1>2, <1>3, <1>4, <1>5

LEMMA FetchGivenUp ==
  ASSUME ImagesTyped, NEW task \in Tasks, FetchFails(task)
  PROVE  /\ gui' \in GuiStates /\ gui'.chosen = gui.chosen /\ gui'.shown = gui.shown
         /\ gui'.images = gui.images /\ gui'.lookups = gui.lookups /\ gui'.looking = gui.looking
         /\ gui'.fetches = gui.fetches
         /\ \A x \in PicEngines : \/ gui'.prods[x] = gui.prods[x]
                                  \/ x = task.engine /\ gui'.prods[x] = "failed"
         /\ UNCHANGED <<choosingsLeft, clearsLeft, pendingProds, tkMessages>>
         /\ asking' = asking \ {task} /\ unfetched' = unfetched \union {task.engine}
<1> DEFINE e == task.engine
           ps == [gui.prods EXCEPT ![e] = "failed"]
<1>1. gui \in GuiStates /\ e \in PicEngines
      /\ gui.prods \in [PicEngines -> {"none", "future", "empty", "failed", "info", "N/A"}]
  BY TypedParts, GuiFields DEF Tasks
<1>2. /\ asking' = asking \ {task} /\ unfetched' = unfetched \union {e}
      /\ gui' = [gui EXCEPT !.prods = ps] \/ gui' = gui
      /\ UNCHANGED <<choosingsLeft, clearsLeft, pendingProds, tkMessages>>
  BY DEF FetchFails
<1>3. /\ ps \in [PicEngines -> {"none", "future", "empty", "failed", "info", "N/A"}]
      /\ \A x \in PicEngines : ps[x] = gui.prods[x] \/ (x = e /\ ps[x] = "failed")
  BY <1>1
<1> HIDE DEF ps
<1> QED
  BY <1>1, <1>2, <1>3 DEF GuiStates

LEMMA ImagesTypedInit == ImagesInit => ImagesTyped
<1> SUFFICES ASSUME ImagesInit PROVE ImagesTyped
  OBVIOUS
<1>1. PICK ids \in SUBSET PicEngines :
        gui = [chosen |-> Nothing, shown |-> Blank, images |-> [p \in Picks |-> Blank],
               untagged |-> ids, prods |-> [e \in PicEngines |-> "none"], fetches |-> <<>>,
               checked |-> {}, looking |-> {}, lookups |-> <<>>]
  BY DEF ImagesInit
<1>2. gui \in GuiStates
  BY <1>1 DEF GuiStates
<1>3. /\ asking = {} /\ pendingProds = {} /\ tkMessages = <<>> /\ choosingsLeft = Choosings
      /\ clearsLeft = ImageClears /\ unfetched = {}
  BY DEF ImagesInit
<1>4. IsFiniteSet(asking) /\ Cardinality(asking) = 0
  BY <1>3, FS_EmptySet
<1> QED
  BY <1>2, <1>3, <1>4, ImagesAssumption DEF ImagesTyped, ImagesTypeOK, GuiStates

LEMMA ImagesTypedStep == ImagesTyped /\ [ImagesNext]_imagesVars => ImagesTyped'
<1> SUFFICES ASSUME ImagesTyped, [ImagesNext]_imagesVars PROVE ImagesTyped'
  OBVIOUS
<1>1. /\ gui \in GuiStates /\ asking \in SUBSET Tasks /\ IsFiniteSet(asking)
      /\ Cardinality(asking) <= FetchWorkers /\ pendingProds \in SUBSET PicEngines
      /\ tkMessages \in Seq(TkMessages) /\ choosingsLeft \in 0 .. Choosings
      /\ clearsLeft \in 0 .. ImageClears /\ unfetched \in SUBSET PicEngines
  BY TypedParts
<1>2. Choosings \in Nat /\ ImageClears \in Nat /\ FetchWorkers \in Nat /\ Cardinality(asking) \in Nat
  BY <1>1, ImagesAssumption, FS_CardinalityType
<1>3. ASSUME NEW p \in Selectable \union {Nothing}, Choose(p)
      PROVE  ImagesTyped'
  <2> DEFINE g0 == [gui EXCEPT !.chosen = p]
  <2>1. g0 \in GuiStates
    BY <1>1 DEF GuiStates
  <2> HIDE DEF g0
  <2>2. gui' = UpdatePicture(g0)
    BY <1>3 DEF Choose, g0
  <2>3. gui' \in GuiStates
    BY <2>1, <2>2, UpdatePictureIsTyped
  <2>4. choosingsLeft' \in 0 .. Choosings
    BY <1>1, <1>2, <1>3 DEF Choose
  <2>5. UNCHANGED <<asking, pendingProds, tkMessages, clearsLeft, unfetched>>
    BY <1>3 DEF Choose
  <2> QED
    BY <1>1, <2>3, <2>4, <2>5, TypedAgain
<1>4. CASE ClearImages
  <2> DEFINE is == [p \in Picks |-> Blank]
             ps == [e \in PicEngines |-> "none"]
  <2>1. gui' = [gui EXCEPT !.images = is, !.checked = {}, !.looking = {}, !.prods = ps]
    BY <1>4 DEF ClearImages
  <2>2. is \in [Picks -> Pictures \union {Blank}]
        /\ ps \in [PicEngines -> {"none", "future", "empty", "failed", "info", "N/A"}]
    OBVIOUS
  <2> HIDE DEF is, ps
  <2>3. gui' \in GuiStates
    BY <1>1, <2>1, <2>2 DEF GuiStates
  <2>4. clearsLeft' \in 0 .. ImageClears
    BY <1>1, <1>2, <1>4 DEF ClearImages
  <2>5. UNCHANGED <<asking, pendingProds, tkMessages, choosingsLeft, unfetched>>
    BY <1>4 DEF ClearImages
  <2> QED
    BY <1>1, <2>3, <2>4, <2>5, TypedAgain
<1>5. CASE HandleMessage
  <2> DEFINE m == Head(tkMessages)
  <2>1. m \in TkMessages /\ Tail(tkMessages) \in Seq(TkMessages)
    BY <1>1, <1>5, ElementsTail DEF HandleMessage
  <2>2. gui' = CallBack(Learn(gui, m), m.task) /\ tkMessages' = Tail(tkMessages)
        /\ UNCHANGED <<asking, pendingProds, choosingsLeft, clearsLeft, unfetched>>
    BY <1>5 DEF HandleMessage
  <2> HIDE DEF m
  <2>3. m.task \in Tasks /\ Learn(gui, m) \in GuiStates
    BY <1>1, <2>1, LearnIs DEF TkMessages
  <2>4. gui' \in GuiStates
    BY <2>2, <2>3, CallBackIsTyped
  <2> QED
    BY <1>1, <2>1, <2>2, <2>4, TypedAgain
<1>6. CASE LoadCustom
  BY <1>1, <1>6, LookupTaken, TypedAgain
<1>7. CASE StartFetch
  <2>1. PICK task \in Tasks :
           \/ tkMessages' \in Seq(TkMessages) /\ UNCHANGED <<asking, pendingProds>>
           \/ /\ asking' = asking \union {task} /\ pendingProds' = pendingProds \union {task.engine}
              /\ UNCHANGED tkMessages
    BY <1>7, FetchTaken
  <2>2. gui' \in GuiStates /\ UNCHANGED <<choosingsLeft, clearsLeft, unfetched>>
        /\ Cardinality(asking) < FetchWorkers
    BY <1>7, FetchTaken
  <2>3. CASE tkMessages' \in Seq(TkMessages) /\ UNCHANGED <<asking, pendingProds>>
    BY <1>1, <2>2, <2>3, TypedAgain
  <2>4. CASE /\ asking' = asking \union {task} /\ pendingProds' = pendingProds \union {task.engine}
             /\ UNCHANGED tkMessages
    <3>1. IsFiniteSet(asking \union {task})
          /\ Cardinality(asking \union {task}) = IF task \in asking THEN Cardinality(asking)
                                                 ELSE Cardinality(asking) + 1
      BY <1>1, FS_AddElement
    <3>2. Cardinality(asking') <= FetchWorkers
      BY <1>2, <2>2, <2>4, <3>1
    <3>3. pendingProds' \in SUBSET PicEngines /\ asking' \in SUBSET Tasks
      BY <1>1, <2>4 DEF Tasks
    <3>4. IsFiniteSet(asking') /\ tkMessages' = tkMessages
      BY <2>4, <3>1
    <3> QED
      BY <1>1, <2>2, <3>2, <3>3, <3>4, TypedAgain
  <2> QED
    BY <2>1, <2>3, <2>4
<1>8. ASSUME NEW task \in asking
      PROVE  IsFiniteSet(asking \ {task}) /\ Cardinality(asking \ {task}) <= FetchWorkers
  <2>1. IsFiniteSet(asking \ {task})
        /\ Cardinality(asking \ {task}) = IF task \in asking THEN Cardinality(asking) - 1
                                          ELSE Cardinality(asking)
    BY <1>1, FS_RemoveElement
  <2> QED
    BY <1>1, <1>2, <2>1
<1>9. ASSUME NEW task \in asking, NEW found \in BOOLEAN, Fetched(task, found)
      PROVE  ImagesTyped'
  <2>1. task \in Tasks
    BY <1>1
  <2>2. /\ gui' \in GuiStates /\ UNCHANGED <<choosingsLeft, clearsLeft, unfetched>>
        /\ asking' = asking \ {task} /\ pendingProds' = pendingProds \ {task.engine}
        /\ tkMessages' \in Seq(TkMessages)
    BY <1>9, <2>1, FetchEnds
  <2>3. pendingProds' \in SUBSET PicEngines /\ asking' \in SUBSET Tasks
        /\ IsFiniteSet(asking') /\ Cardinality(asking') <= FetchWorkers
    BY <1>1, <1>8, <2>2
  <2> QED
    BY <1>1, <2>2, <2>3, TypedAgain
<1>10. ASSUME NEW task \in asking, FetchFails(task)
       PROVE  ImagesTyped'
  <2>1. task \in Tasks /\ task.engine \in PicEngines
    BY <1>1 DEF Tasks
  <2>2. /\ gui' \in GuiStates /\ UNCHANGED <<choosingsLeft, clearsLeft, pendingProds, tkMessages>>
        /\ asking' = asking \ {task} /\ unfetched' = unfetched \union {task.engine}
    BY <1>10, <2>1, FetchGivenUp
  <2>3. unfetched' \in SUBSET PicEngines /\ asking' \in SUBSET Tasks
        /\ IsFiniteSet(asking') /\ Cardinality(asking') <= FetchWorkers
    BY <1>1, <1>8, <2>1, <2>2
  <2> QED
    BY <1>1, <2>2, <2>3, TypedAgain
<1>11. CASE UNCHANGED imagesVars
  BY <1>11 DEF imagesVars, ImagesTyped, ImagesTypeOK
<1> QED
  BY <1>3, <1>4, <1>5, <1>6, <1>7, <1>9, <1>10, <1>11 DEF ImagesNext, FetchStep, FetchOf

\* The types of what the touch screens know of pictures, and no more fetches at work than
\* there are workers (ImagePresenter, GuiZeroBase.get_prod_info).
THEOREM ImagesTypeCorrect == ImagesSpec => []ImagesTypeOK
<1>1. ImagesTyped => ImagesTypeOK
  BY DEF ImagesTyped
<1> QED
  BY <1>1, ImagesTypedInit, ImagesTypedStep, PTL DEF ImagesSpec

-----------------------------------------------------------------------------
(* The picture of what is chosen comes                                      *)

ImagesInvariant ==
  /\ ImagesTyped
  /\ Sound(gui, Elements(tkMessages), unfetched)
  /\ \A task \in asking : Rightly(task)
  /\ \A m \in Elements(tkMessages) : Rightly(m.task)
  /\ PendingComes(asking, pendingProds, unfetched)
  /\ Arriving(gui, Elements(tkMessages), asking, unfetched)

LEMMA ImagesBegin == ImagesInit => ImagesInvariant
<1> SUFFICES ASSUME ImagesInit PROVE ImagesInvariant
  OBVIOUS
<1>1. gui.chosen = Nothing /\ gui.images = [p \in Picks |-> Blank] /\ gui.fetches = <<>>
      /\ gui.lookups = <<>> /\ gui.looking = {} /\ gui.prods = [e \in PicEngines |-> "none"]
  BY DEF ImagesInit
<1>2. asking = {} /\ pendingProds = {} /\ tkMessages = <<>>
  BY DEF ImagesInit
<1>3. Elements(<<>>) = {}
  BY DEF Elements
<1>4. Sound(gui, Elements(tkMessages), unfetched)
  BY <1>1, <1>2, <1>3 DEF Sound, ImagesFit, QueuesFit, LookingComes, InfoComes, FailedIsGivenUp
<1>5. Arriving(gui, Elements(tkMessages), asking, unfetched)
  <2>1. Nothing \notin Selectable
    BY ImagesAssumption
  <2> QED
    BY <1>1, <2>1 DEF Arriving
<1>6. PendingComes(asking, pendingProds, unfetched)
  BY <1>2 DEF PendingComes
<1> QED
  BY <1>2, <1>3, <1>4, <1>5, <1>6, ImagesTypedInit DEF ImagesInvariant

LEMMA ChooseArrives ==
  ASSUME ImagesInvariant, NEW p \in Selectable \union {Nothing}, Choose(p)
  PROVE  ImagesInvariant'
<1> DEFINE g0 == [gui EXCEPT !.chosen = p]
           M == Elements(tkMessages)
<1>1. gui \in GuiStates
  BY TypedParts DEF ImagesInvariant
<1>2. g0 \in GuiStates /\ g0.images = gui.images /\ g0.prods = gui.prods /\ g0.lookups = gui.lookups
      /\ g0.fetches = gui.fetches /\ g0.looking = gui.looking
  BY <1>1 DEF GuiStates
<1>3. gui' = UpdatePicture(g0) /\ UNCHANGED <<asking, pendingProds, tkMessages, unfetched>>
  BY DEF Choose
<1> HIDE DEF g0
<1>4. Sound(g0, M, unfetched)
  BY <1>2 DEF ImagesInvariant, Sound, ImagesFit, QueuesFit, LookingComes, InfoComes, FailedIsGivenUp
<1>5. Sound(gui', M, unfetched) /\ Arriving(gui', M, asking, unfetched)
  <2>1. PendingComes(asking, pendingProds, unfetched)
    BY DEF ImagesInvariant
  <2> HIDE DEF M
  <2> QED
    BY <1>2, <1>3, <1>4, <2>1, UpdatePictureArrives
<1>6. ImagesTyped'
  BY ImagesTypedStep DEF ImagesInvariant, ImagesNext
<1>7. Sound(gui', Elements(tkMessages'), unfetched') /\ Arriving(gui', Elements(tkMessages'), asking', unfetched')
  BY <1>3, <1>5
<1> QED
  BY <1>3, <1>6, <1>7 DEF ImagesInvariant

LEMMA ClearArrives ==
  ASSUME ImagesInvariant, ClearImages
  PROVE  ImagesInvariant'
<1>1. gui \in GuiStates
  BY TypedParts DEF ImagesInvariant
<1>2. gui' = [gui EXCEPT !.images = [p \in Picks |-> Blank], !.checked = {}, !.looking = {},
                         !.prods = [e \in PicEngines |-> "none"]]
      /\ UNCHANGED <<asking, pendingProds, tkMessages, unfetched>>
  BY DEF ClearImages
<1>3. /\ gui'.images = [p \in Picks |-> Blank] /\ gui'.looking = {}
      /\ gui'.prods = [e \in PicEngines |-> "none"] /\ gui'.chosen = gui.chosen
      /\ gui'.shown = gui.shown /\ gui'.lookups = gui.lookups /\ gui'.fetches = gui.fetches
  BY <1>1, <1>2 DEF GuiStates
<1>4. ImagesTyped'
  BY ImagesTypedStep DEF ImagesInvariant, ImagesNext
<1>5. Sound(gui', Elements(tkMessages), unfetched)
  BY <1>3 DEF ImagesInvariant, Sound, ImagesFit, QueuesFit, LookingComes, InfoComes, FailedIsGivenUp
<1>6. Arriving(gui', Elements(tkMessages), asking, unfetched)
  <2> DEFINE M == Elements(tkMessages)
  <2> HIDE DEF M
  <2> SUFFICES ASSUME NEW p \in Selectable, gui'.chosen = p
               PROVE  /\ (gui'.shown \in Pictures /\ gui'.shown.of = LeadEngine(p))
                         \/ LeadEngine(p) \in unfetched \/ Coming(gui', M, asking, LeadEngine(p))
                      /\ gui'.prods[LeadEngine(p)] # "info"
                      /\ gui'.images[p] = Blank
    BY DEF Arriving, M
  <2>1. p \in Picks /\ LeadEngine(p) \in PicEngines
    BY ImagesAssumption, LeadIs DEF Picks
  <2>2. (gui.shown \in Pictures /\ gui.shown.of = LeadEngine(p))
        \/ LeadEngine(p) \in unfetched \/ Coming(gui, M, asking, LeadEngine(p))
    BY <1>3 DEF ImagesInvariant, Arriving, M
  <2>3. Coming(gui, M, asking, LeadEngine(p)) => Coming(gui', M, asking, LeadEngine(p))
    BY <1>3 DEF Coming
  <2> QED
    BY <1>3, <2>1, <2>2, <2>3
<1>7. Sound(gui', Elements(tkMessages'), unfetched') /\ Arriving(gui', Elements(tkMessages'), asking', unfetched')
  BY <1>2, <1>5, <1>6
<1> QED
  BY <1>2, <1>4, <1>7 DEF ImagesInvariant

\* Who something comes for goes on waiting when what was under way is still so, or told of.
LEMMA StillArriving ==
  ASSUME NEW g, NEW h, NEW M, NEW N, NEW A, NEW B, NEW U, NEW V, Arriving(g, M, A, U),
         h.chosen = g.chosen, h.shown = g.shown, h.images = g.images, M \subseteq N, U \subseteq V,
         \A x \in PicEngines : h.prods[x] = "info" =>
           g.prods[x] = "info" \/ Tells(N, "product", TRUE, x),
         \A x \in PicEngines : Coming(g, M, A, x) => x \in V \/ Coming(h, N, B, x)
  PROVE  Arriving(h, N, B, V)
<1> SUFFICES ASSUME NEW p \in Selectable, h.chosen = p
             PROVE  LET e == LeadEngine(p)
                    IN /\ (h.shown \in Pictures /\ h.shown.of = e) \/ e \in V \/ Coming(h, N, B, e)
                       /\ p \in PicEngines /\ h.prods[e] = "info" =>
                            \/ h.shown \in Pictures /\ h.shown.of = e /\ h.shown.source # "generic"
                            \/ Tells(N, "product", TRUE, e)
                       /\ p \in PicEngines /\ h.images[p] # Blank => h.shown = h.images[p]
  BY DEF Arriving
<1> DEFINE e == LeadEngine(p)
<1>1. e \in PicEngines
  BY ImagesAssumption, LeadIs DEF Picks
<1>2. /\ (g.shown \in Pictures /\ g.shown.of = e) \/ e \in U \/ Coming(g, M, A, e)
      /\ p \in PicEngines /\ g.prods[e] = "info" =>
           \/ g.shown \in Pictures /\ g.shown.of = e /\ g.shown.source # "generic"
           \/ Tells(M, "product", TRUE, e)
      /\ p \in PicEngines /\ g.images[p] # Blank => g.shown = g.images[p]
  BY DEF Arriving
<1>3. Tells(M, "product", TRUE, e) => Tells(N, "product", TRUE, e)
  BY DEF Tells
<1> HIDE DEF e
<1>4. (h.shown \in Pictures /\ h.shown.of = e) \/ e \in V \/ Coming(h, N, B, e)
  BY <1>1, <1>2
<1>5. p \in PicEngines /\ h.prods[e] = "info" =>
        \/ h.shown \in Pictures /\ h.shown.of = e /\ h.shown.source # "generic"
        \/ Tells(N, "product", TRUE, e)
  BY <1>1, <1>2, <1>3
<1> QED
  BY <1>2, <1>4, <1>5 DEF e

LEMMA LookupArrives ==
  ASSUME ImagesInvariant, LoadCustom
  PROVE  ImagesInvariant'
<1> DEFINE M == Elements(tkMessages)
           N == Elements(tkMessages')
<1>1. /\ gui'.chosen = gui.chosen /\ gui'.shown = gui.shown
      /\ gui'.images = gui.images /\ gui'.prods = gui.prods /\ gui'.fetches = gui.fetches
      /\ gui'.looking = gui.looking
      /\ UNCHANGED <<asking, pendingProds, unfetched>>
  BY LookupTaken DEF ImagesInvariant
<1>2. PICK task \in Tasks, found \in BOOLEAN :
        /\ Elements(gui.lookups) = Elements(gui'.lookups) \cup {task}
        /\ N = M \cup {Message("custom", task, found)}
  BY LookupTaken DEF ImagesInvariant
<1> DEFINE m == Message("custom", task, found)
<1>3. m.what = "custom" /\ m.task = task
  BY MessageIs
<1>4. ImagesTyped'
  BY ImagesTypedStep DEF ImagesInvariant, ImagesNext
<1>5. Rightly(task)
  BY <1>2 DEF ImagesInvariant, Sound, QueuesFit
<1> HIDE DEF m, M, N
<1>6. m \in N /\ M \subseteq N /\ \A x \in N : x \in M \/ x = m
  BY <1>2 DEF m
<1>7. Sound(gui', N, unfetched)
  <2>1. ImagesFit(gui') /\ FailedIsGivenUp(gui', unfetched) /\ QueuesFit(gui')
    BY <1>1, <1>2 DEF ImagesInvariant, Sound, ImagesFit, FailedIsGivenUp, QueuesFit
  <2>2. InfoComes(gui', N)
    BY <1>1, <1>6 DEF ImagesInvariant, Sound, InfoComes, Tells, M
  <2>3. LookingComes(gui', N)
    <3> SUFFICES ASSUME NEW e \in gui.looking
                 PROVE  About(Elements(gui'.lookups), e) \/ Tells(N, "custom", FALSE, e)
      BY <1>1 DEF LookingComes
    <3>1. About(Elements(gui.lookups), e) \/ Tells(M, "custom", FALSE, e)
      BY DEF ImagesInvariant, Sound, LookingComes, M
    <3> QED
      BY <1>2, <1>3, <1>6, <3>1 DEF About, Tells
  <2> QED
    BY <2>1, <2>2, <2>3 DEF Sound
<1>8. Arriving(gui', N, asking, unfetched)
  <2>1. \A x \in PicEngines : Coming(gui, M, asking, x) => Coming(gui', N, asking, x)
    BY <1>1, <1>2, <1>3, <1>6 DEF Coming, About
  <2>2. Arriving(gui, M, asking, unfetched)
    BY DEF ImagesInvariant, M
  <2> QED
    BY <1>1, <1>6, <2>1, <2>2, StillArriving
<1>9. \A x \in N : Rightly(x.task)
  BY <1>3, <1>5, <1>6 DEF ImagesInvariant, M
<1> QED
  BY <1>1, <1>4, <1>7, <1>8, <1>9 DEF ImagesInvariant, N

LEMMA FetchTakenArrives ==
  ASSUME ImagesInvariant, StartFetch
  PROVE  ImagesInvariant'
<1> DEFINE M == Elements(tkMessages)
           N == Elements(tkMessages')
<1>1. /\ gui'.chosen = gui.chosen /\ gui'.shown = gui.shown
      /\ gui'.images = gui.images /\ gui'.lookups = gui.lookups /\ gui'.looking = gui.looking
      /\ \A x \in PicEngines : gui'.prods[x] = gui.prods[x] \/ gui'.prods[x] = "empty"
      /\ UNCHANGED unfetched
  BY FetchTaken DEF ImagesInvariant
<1>2. PICK task \in Tasks :
        /\ Elements(gui.fetches) = Elements(gui'.fetches) \cup {task}
        /\ \/ N = M \cup {Message("product", task, FALSE)} /\ UNCHANGED <<asking, pendingProds>>
           \/ /\ asking' = asking \union {task} /\ pendingProds' = pendingProds \union {task.engine}
              /\ UNCHANGED tkMessages
  BY FetchTaken DEF ImagesInvariant
<1> DEFINE m == Message("product", task, FALSE)
<1>3. m.task = task
  BY MessageIs
<1>4. ImagesTyped'
  BY ImagesTypedStep DEF ImagesInvariant, ImagesNext, FetchStep
<1>5. Rightly(task)
  BY <1>2 DEF ImagesInvariant, Sound, QueuesFit
<1> HIDE DEF m
<1>6. /\ M \subseteq N /\ asking \subseteq asking'
      /\ m \in N \/ task \in asking'
      /\ \A x \in N : x \in M \/ x = m
      /\ \A t \in asking' : t \in asking \/ t = task
      /\ \A x \in pendingProds' : x \in pendingProds \/ (x = task.engine /\ task \in asking')
  BY <1>2 DEF m
<1> HIDE DEF M, N
<1>7. Sound(gui', N, unfetched)
  <2>1. ImagesFit(gui') /\ FailedIsGivenUp(gui', unfetched) /\ QueuesFit(gui')
    BY <1>1, <1>2 DEF ImagesInvariant, Sound, ImagesFit, FailedIsGivenUp, QueuesFit
  <2>2. InfoComes(gui', N)
    BY <1>1, <1>6 DEF ImagesInvariant, Sound, InfoComes, Tells, M
  <2>3. LookingComes(gui', N)
    BY <1>1, <1>6 DEF ImagesInvariant, Sound, LookingComes, Tells, M
  <2> QED
    BY <2>1, <2>2, <2>3 DEF Sound
<1>8. Arriving(gui', N, asking', unfetched)
  <2>1. ASSUME NEW x \in PicEngines, Coming(gui, M, asking, x)
        PROVE  Coming(gui', N, asking', x)
    <3>1. CASE About(Elements(gui.fetches), x)
      BY <1>2, <1>3, <1>6, <3>1 DEF Coming, About
    <3>2. CASE ~About(Elements(gui.fetches), x)
      BY <1>1, <1>6, <2>1, <3>2 DEF Coming, About
    <3> QED
      BY <3>1, <3>2
  <2>2. Arriving(gui, M, asking, unfetched)
    BY DEF ImagesInvariant, M
  <2>3. \A x \in PicEngines : gui'.prods[x] = "info" => gui.prods[x] = "info"
    BY <1>1
  <2> QED
    BY <1>1, <1>6, <2>1, <2>2, <2>3, StillArriving
<1>9. /\ \A x \in N : Rightly(x.task)
      /\ \A t \in asking' : Rightly(t)
  BY <1>3, <1>5, <1>6 DEF ImagesInvariant, M
<1>10. PendingComes(asking', pendingProds', unfetched)
  BY <1>6 DEF ImagesInvariant, PendingComes, About
<1> QED
  BY <1>1, <1>4, <1>7, <1>8, <1>9, <1>10 DEF ImagesInvariant, N

LEMMA FetchEndsArrives ==
  ASSUME ImagesInvariant, NEW task \in asking, NEW found \in BOOLEAN, Fetched(task, found)
  PROVE  ImagesInvariant'
<1> DEFINE M == Elements(tkMessages)
           N == Elements(tkMessages')
           e == task.engine
           m == Message("product", task, found)
<1>1. task \in Tasks /\ e \in PicEngines /\ Rightly(task)
  BY TypedParts DEF ImagesInvariant, Tasks
<1>2. /\ gui'.chosen = gui.chosen /\ gui'.shown = gui.shown
      /\ gui'.images = gui.images /\ gui'.lookups = gui.lookups /\ gui'.looking = gui.looking
      /\ gui'.fetches = gui.fetches
      /\ gui'.prods[e] = IF found THEN "info" ELSE "N/A"
      /\ \A x \in PicEngines : x # e => gui'.prods[x] = gui.prods[x]
      /\ UNCHANGED unfetched
      /\ asking' = asking \ {task} /\ pendingProds' = pendingProds \ {e}
      /\ N = M \cup {m}
  BY <1>1, FetchEnds DEF ImagesInvariant
<1>3. m.what = "product" /\ m.task = task /\ m.found = found
  BY <1>1, MessageIs
<1>4. ImagesTyped'
  <2>1. FetchOf(task.engine)
    BY DEF FetchOf
  <2>2. ImagesNext
    BY <1>1, <2>1 DEF ImagesNext, FetchStep, e
  <2> QED
    BY <2>2, ImagesTypedStep DEF ImagesInvariant
<1> HIDE DEF m
<1>5. m \in N /\ M \subseteq N /\ \A x \in N : x \in M \/ x = m
  BY <1>2
<1> HIDE DEF M, N
<1>6. gui'.prods[e] = "info" => Tells(N, "product", TRUE, e)
  BY <1>2, <1>3, <1>5 DEF Tells
<1> HIDE DEF e
<1>7. Sound(gui', N, unfetched)
  <2>1. ImagesFit(gui') /\ QueuesFit(gui')
    BY <1>2 DEF ImagesInvariant, Sound, ImagesFit, QueuesFit
  <2>2. InfoComes(gui', N)
    BY <1>2, <1>5, <1>6 DEF ImagesInvariant, Sound, InfoComes, Tells, M
  <2>3. LookingComes(gui', N)
    BY <1>2, <1>5 DEF ImagesInvariant, Sound, LookingComes, Tells, M
  <2>4. FailedIsGivenUp(gui', unfetched)
    BY <1>2 DEF ImagesInvariant, Sound, FailedIsGivenUp
  <2> QED
    BY <2>1, <2>2, <2>3, <2>4 DEF Sound
<1>8. Arriving(gui', N, asking', unfetched)
  <2>1. ASSUME NEW x \in PicEngines, Coming(gui, M, asking, x)
        PROVE  Coming(gui', N, asking', x)
    <3>1. CASE About(asking, x)
      BY <1>2, <1>3, <1>5, <3>1 DEF Coming, About
    <3>2. CASE ~About(asking, x)
      BY <1>2, <1>5, <2>1, <3>2 DEF Coming
    <3> QED
      BY <3>1, <3>2
  <2>2. Arriving(gui, M, asking, unfetched)
    BY DEF ImagesInvariant, M
  <2>3. \A x \in PicEngines : gui'.prods[x] = "info" =>
          gui.prods[x] = "info" \/ Tells(N, "product", TRUE, x)
    BY <1>2, <1>6
  <2> QED
    BY <1>2, <1>5, <2>1, <2>2, <2>3, StillArriving
<1>9. /\ \A x \in N : Rightly(x.task)
      /\ \A t \in asking' : Rightly(t)
  BY <1>1, <1>2, <1>3, <1>5 DEF ImagesInvariant, M
<1>10. PendingComes(asking', pendingProds', unfetched)
  BY <1>2 DEF ImagesInvariant, PendingComes, About, e
<1> QED
  BY <1>2, <1>4, <1>7, <1>8, <1>9, <1>10 DEF ImagesInvariant, N

LEMMA FetchGivenUpArrives ==
  ASSUME ImagesInvariant, NEW task \in asking, FetchFails(task)
  PROVE  ImagesInvariant'
<1> DEFINE M == Elements(tkMessages)
           e == task.engine
<1>1. task \in Tasks /\ e \in PicEngines
  BY TypedParts DEF ImagesInvariant, Tasks
<1>2. /\ gui'.chosen = gui.chosen /\ gui'.shown = gui.shown
      /\ gui'.images = gui.images /\ gui'.lookups = gui.lookups /\ gui'.looking = gui.looking
      /\ gui'.fetches = gui.fetches
      /\ \A x \in PicEngines : gui'.prods[x] = gui.prods[x] \/ (x = e /\ gui'.prods[x] = "failed")
      /\ UNCHANGED <<pendingProds, tkMessages>>
      /\ asking' = asking \ {task} /\ unfetched' = unfetched \union {e}
  BY <1>1, FetchGivenUp DEF ImagesInvariant
<1>3. ImagesTyped'
  <2>1. FetchOf(task.engine)
    BY DEF FetchOf
  <2>2. ImagesNext
    BY <1>1, <2>1 DEF ImagesNext, FetchStep, e
  <2> QED
    BY <2>2, ImagesTypedStep DEF ImagesInvariant
<1>4. Sound(gui', M, unfetched')
  <2>1. ImagesFit(gui') /\ QueuesFit(gui') /\ LookingComes(gui', M)
    BY <1>2 DEF ImagesInvariant, Sound, ImagesFit, QueuesFit, LookingComes
  <2>2. InfoComes(gui', M)
    BY <1>2 DEF ImagesInvariant, Sound, InfoComes
  <2>3. FailedIsGivenUp(gui', unfetched')
    BY <1>2 DEF ImagesInvariant, Sound, FailedIsGivenUp
  <2> QED
    BY <2>1, <2>2, <2>3 DEF Sound
<1> HIDE DEF M, e
<1>5. Arriving(gui', M, asking', unfetched')
  <2>1. \A x \in PicEngines : Coming(gui, M, asking, x) => x \in unfetched' \/ Coming(gui', M, asking', x)
    BY <1>2 DEF Coming, About, e
  <2>2. Arriving(gui, M, asking, unfetched)
    BY DEF ImagesInvariant, M
  <2>3. \A x \in PicEngines : gui'.prods[x] = "info" => gui.prods[x] = "info"
    BY <1>2
  <2>4. unfetched \subseteq unfetched'
    BY <1>2
  <2> QED
    BY <1>2, <2>1, <2>2, <2>3, <2>4, StillArriving
<1>6. PendingComes(asking', pendingProds', unfetched')
  BY <1>2 DEF ImagesInvariant, PendingComes, About, e
<1>7. /\ \A t \in asking' : Rightly(t)
      /\ \A m \in Elements(tkMessages') : Rightly(m.task)
  BY <1>2 DEF ImagesInvariant
<1>8. Elements(tkMessages') = M
  BY <1>2 DEF M
<1> QED
  BY <1>3, <1>4, <1>5, <1>6, <1>7, <1>8 DEF ImagesInvariant

LEMMA HandleArrives ==
  ASSUME Apart, ImagesInvariant, HandleMessage
  PROVE  ImagesInvariant'
<1> DEFINE M == Elements(tkMessages)
           N == Elements(tkMessages')
           m == Head(tkMessages)
           task == m.task
           e == task.engine
           g == Learn(gui, m)
<1>1. gui \in GuiStates /\ tkMessages \in Seq(TkMessages) /\ tkMessages # <<>>
  BY TypedParts DEF ImagesInvariant, HandleMessage
<1>2. /\ gui' = CallBack(g, task) /\ tkMessages' = Tail(tkMessages)
      /\ UNCHANGED <<asking, pendingProds, unfetched>>
  BY DEF HandleMessage
<1>3. m \in TkMessages /\ M = N \cup {m}
  BY <1>1, <1>2, ElementsTail
<1>4. task \in Tasks /\ e \in PicEngines /\ m.what \in {"product", "custom"} /\ m.found \in BOOLEAN
  BY <1>3 DEF TkMessages, Tasks
<1>5. Rightly(task) /\ \A x \in N : Rightly(x.task)
  BY <1>3 DEF ImagesInvariant
<1>6. /\ g \in GuiStates /\ g.chosen = gui.chosen /\ g.shown = gui.shown /\ g.prods = gui.prods
      /\ g.fetches = gui.fetches /\ g.lookups = gui.lookups
      /\ g.images = IF m.found THEN [gui.images EXCEPT ![e] = Picture(e, m.what)] ELSE gui.images
      /\ g.looking = IF m.what = "product" THEN gui.looking ELSE gui.looking \ {e}
  BY <1>1, <1>3, LearnIs
<1>7. ImagesTyped'
  BY ImagesTypedStep DEF ImagesInvariant, ImagesNext
<1>8. /\ \A q \in Picks : q # e => g.images[q] = gui.images[q]
      /\ ~m.found => g.images = gui.images
      /\ m.found => g.images[e] = Picture(e, m.what)
  BY <1>1, <1>4, <1>6, GuiFields DEF Picks
<1>9. Picture(e, m.what) # Blank /\ Picture(e, m.what).of = e /\ Picture(e, m.what).source # "generic"
      /\ LeadEngine(e) = e
  BY <1>4, PictureIs, NoPicture, LeadIs DEF Picks
<1> HIDE DEF M, N, m, task, e, g
<1>10. Sound(g, N, unfetched)
  <2>1. ImagesFit(g)
    BY <1>8, <1>9 DEF ImagesInvariant, Sound, ImagesFit
  <2>2. QueuesFit(g) /\ FailedIsGivenUp(g, unfetched)
    BY <1>6 DEF ImagesInvariant, Sound, QueuesFit, FailedIsGivenUp
  <2>3. LookingComes(g, N)
    <3> SUFFICES ASSUME NEW x \in g.looking
                 PROVE  About(Elements(gui.lookups), x) \/ Tells(N, "custom", FALSE, x)
      BY <1>6 DEF LookingComes
    <3>1. x \in gui.looking /\ (m.what = "product" \/ x # e)
      BY <1>6
    <3>2. About(Elements(gui.lookups), x) \/ Tells(M, "custom", FALSE, x)
      BY <3>1 DEF ImagesInvariant, Sound, LookingComes, M
    <3> QED
      BY <1>3, <3>1, <3>2 DEF Tells, e, task
  <2>4. InfoComes(g, N)
    <3> SUFFICES ASSUME NEW x \in PicEngines, gui.prods[x] = "info"
                 PROVE  \/ g.images[x] # Blank /\ g.images[x].source # "generic"
                        \/ Tells(N, "product", TRUE, x)
      BY <1>6 DEF InfoComes
    <3>1. \/ gui.images[x] # Blank /\ gui.images[x].source # "generic"
          \/ Tells(M, "product", TRUE, x)
      BY DEF ImagesInvariant, Sound, InfoComes, M
    <3>2. CASE m.found /\ x = e
      BY <1>8, <1>9, <3>2
    <3>3. CASE ~(m.found /\ x = e)
      <4>1. g.images[x] = gui.images[x]
        BY <1>8, <3>3 DEF Picks
      <4>2. Tells(M, "product", TRUE, x) => Tells(N, "product", TRUE, x)
        BY <1>3, <3>3 DEF Tells, e, task
      <4> QED
        BY <3>1, <4>1, <4>2
    <3> QED
      BY <3>2, <3>3
  <2> QED
    BY <2>1, <2>2, <2>3, <2>4 DEF Sound
<1>11. PendingComes(asking, pendingProds, unfetched)
  BY DEF ImagesInvariant
<1>12. Sound(gui', N, unfetched) /\ Arriving(gui', N, asking, unfetched)
  <2>1. task.pick \in Selectable /\ e = LeadEngine(task.pick) /\ task.pick \in Picks
        /\ Selectable \subseteq Picks
    BY <1>5, ImagesAssumption DEF Rightly, e, Picks
  <2>2. CASE Relevant(g, task)
    <3>1. g.chosen = task.pick
      <4>1. CASE g.chosen \in PicEngines /\ g.chosen = e
        <5>1. g.chosen \in Selectable
          BY <1>6, <4>1, GuiFields, ImagesAssumption
        <5> QED
          BY <1>9, <2>1, <4>1, <5>1 DEF Apart
      <4>2. CASE g.chosen = task.pick
        BY <4>2
      <4> QED
        BY <2>2, <4>1, <4>2 DEF Relevant, e
    <3>2. gui' = UpdateEngine(g, LeadEngine(task.pick), task.pick)
      BY <1>2, <2>1, <2>2 DEF CallBack, e
    <3> QED
      BY <1>6, <1>10, <1>11, <2>1, <3>1, <3>2, UpdateArrives
  <2>3. CASE ~Relevant(g, task)
    <3>1. gui' = g
      BY <1>2, <2>3 DEF CallBack
    <3>2. Arriving(g, N, asking, unfetched)
      <4> SUFFICES ASSUME NEW p \in Selectable, g.chosen = p
                   PROVE  LET d == LeadEngine(p)
                          IN /\ (g.shown \in Pictures /\ g.shown.of = d) \/ d \in unfetched
                                \/ Coming(g, N, asking, d)
                             /\ p \in PicEngines /\ g.prods[d] = "info" =>
                                  \/ g.shown \in Pictures /\ g.shown.of = d /\ g.shown.source # "generic"
                                  \/ Tells(N, "product", TRUE, d)
                             /\ p \in PicEngines /\ g.images[p] # Blank => g.shown = g.images[p]
        BY DEF Arriving
      <4> DEFINE d == LeadEngine(p)
      <4>1. d # e
        <5> SUFFICES ASSUME d = e PROVE FALSE
          OBVIOUS
        <5>1. p = task.pick
          BY <2>1 DEF Apart
        <5>2. p \in PicEngines => p = e
          BY <2>1, LeadIs
        <5> QED
          BY <2>1, <2>3, <5>1, <5>2 DEF Relevant, Picks, e
      <4>2. p \in Picks /\ (p \in PicEngines => d = p)
        BY <2>1, LeadIs
      <4>3. /\ (gui.shown \in Pictures /\ gui.shown.of = d) \/ d \in unfetched
               \/ Coming(gui, M, asking, d)
            /\ p \in PicEngines /\ gui.prods[d] = "info" =>
                 \/ gui.shown \in Pictures /\ gui.shown.of = d /\ gui.shown.source # "generic"
                 \/ Tells(M, "product", TRUE, d)
            /\ p \in PicEngines /\ gui.images[p] # Blank => gui.shown = gui.images[p]
        BY <1>6 DEF ImagesInvariant, Arriving, M
      <4> HIDE DEF d
      <4>4. Coming(gui, M, asking, d) => Coming(g, N, asking, d)
        BY <1>3, <1>6, <4>1 DEF Coming, e, task
      <4>5. Tells(M, "product", TRUE, d) => Tells(N, "product", TRUE, d)
        BY <1>3, <4>1 DEF Tells, e, task
      <4>6. p \in PicEngines => g.images[p] = gui.images[p]
        BY <1>8, <4>1, <4>2
      <4> QED
        BY <1>6, <4>3, <4>4, <4>5, <4>6 DEF d
    <3> QED
      BY <1>10, <3>1, <3>2
  <2> QED
    BY <2>2, <2>3
<1>13. \A x \in asking' : Rightly(x)
  BY <1>2 DEF ImagesInvariant
<1> QED
  BY <1>2, <1>5, <1>7, <1>11, <1>12, <1>13 DEF ImagesInvariant, N

LEMMA ImagesStep ==
  ASSUME Apart
  PROVE  ImagesInvariant /\ [ImagesNext]_imagesVars => ImagesInvariant'
<1> SUFFICES ASSUME ImagesInvariant, [ImagesNext]_imagesVars PROVE ImagesInvariant'
  OBVIOUS
<1>1. ASSUME NEW p \in Selectable \union {Nothing}, Choose(p)
      PROVE  ImagesInvariant'
  BY <1>1, ChooseArrives
<1>2. ASSUME NEW task \in asking, NEW found \in BOOLEAN, Fetched(task, found)
      PROVE  ImagesInvariant'
  BY <1>2, FetchEndsArrives
<1>3. ASSUME NEW task \in asking, FetchFails(task)
      PROVE  ImagesInvariant'
  BY <1>3, FetchGivenUpArrives
<1>4. CASE FetchStep
  <2>1. CASE StartFetch
    BY <2>1, FetchTakenArrives
  <2>2. CASE \E e \in PicEngines : FetchOf(e)
    BY <1>2, <1>3, <2>2 DEF FetchOf
  <2> QED
    BY <1>4, <2>1, <2>2 DEF FetchStep
<1>5. CASE ClearImages \/ HandleMessage \/ LoadCustom
  BY <1>5, ClearArrives, HandleArrives, LookupArrives
<1>6. CASE UNCHANGED imagesVars
  BY <1>6 DEF imagesVars, ImagesInvariant, ImagesTyped, ImagesTypeOK
<1> QED
  BY <1>1, <1>4, <1>5, <1>6 DEF ImagesNext

LEMMA ArrivingIsOnItsWay == ImagesInvariant => PictureIsOnItsWay
<1> SUFFICES ASSUME ImagesInvariant, NEW p \in Selectable, gui.chosen = p
             PROVE  LET e == LeadEngine(p)
                    IN /\ Shows(p) \/ e \in unfetched \/ UnderWay(e)
                       /\ p \in PicEngines /\ gui.prods[e] = "info" =>
                            \/ Shows(p) /\ gui.shown.source # "generic"
                            \/ \E m \in Elements(tkMessages) :
                                 m.what = "product" /\ m.found /\ m.task.engine = e
  BY DEF PictureIsOnItsWay
<1> DEFINE e == LeadEngine(p)
           M == Elements(tkMessages)
<1>1. /\ (gui.shown \in Pictures /\ gui.shown.of = e) \/ e \in unfetched \/ Coming(gui, M, asking, e)
      /\ p \in PicEngines /\ gui.prods[e] = "info" =>
           \/ gui.shown \in Pictures /\ gui.shown.of = e /\ gui.shown.source # "generic"
           \/ Tells(M, "product", TRUE, e)
  BY DEF ImagesInvariant, Arriving
<1> HIDE DEF e, M
<1>2. Coming(gui, M, asking, e) => UnderWay(e)
  BY DEF Coming, About, UnderWay, M
<1> QED
  BY <1>1, <1>2 DEF Shows, Tells, e, M

\* What is chosen never waits for a picture that nobody brings, whatever was chosen, cleared,
\* looked for or fetched meanwhile, with any number of workers and failures; of choices no two
\* of which show the same engine (ImagePresenter.update, _ImageCallback, get_prod_info).
THEOREM PicturesAreBrought ==
  ASSUME \A p, q \in Selectable : LeadEngine(p) = LeadEngine(q) => p = q
  PROVE  ImagesSpec => []PictureIsOnItsWay
<1>1. ImagesInvariant /\ [ImagesNext]_imagesVars => ImagesInvariant'
  BY ImagesStep DEF Apart
<1> QED
  BY <1>1, ImagesBegin, ArrivingIsOnItsWay, PTL DEF ImagesSpec
==============================================================================
