------------------------------ MODULE CacheSync ------------------------------
(***************************************************************************)
(* db/cache_sync.py: every node keeps files about engines.  A client gives *)
(* its files to the server, the server makes those of its clients equal to *)
(* its own, and a file that is deleted is deleted everywhere.  Requests    *)
(* are handled by threads of their own, beside the manager's thread and    *)
(* the command line's.                                                     *)
(***************************************************************************)
EXTENDS Naturals, FiniteSets

CONSTANTS CacheFiles,   \* file names
          CustomImages, \* those a push does not delete (_preserve_file)
          QuietFiles,   \* those written by hand: nobody calls notify_cache_changed
          CacheClients, \* nodes
          CacheServer,
          CacheEvents,  \* bound: changes of files, commands, and peers that do not answer
          Deletions     \* identities of delete commands, each given once

ASSUME CacheConstants ==
  /\ CacheServer \notin CacheClients /\ IsFiniteSet(Deletions) /\ CacheFiles # {}
  /\ CustomImages \subseteq CacheFiles /\ QuietFiles \subseteq CacheFiles
  /\ CacheEvents \in Nat

CacheNodes == CacheClients \cup {CacheServer}
\* the manager's thread of each node, and the command line's
Syncers == CacheNodes \X {"manager", "cli"}
Absent == 0
Contents == [CacheFiles -> 0 .. CacheEvents]

VARIABLES
  disk,       \* each node's files: the number of the event that wrote it, or Absent
  manifest,   \* _manifest: the files as they were when last looked at
  woken,      \* _queue has an event
  transfer,   \* what each syncer does; the peer's handler is part of it
  tombstones, \* _delete_tombstones of the server
  deletion,   \* what each delete command does
  events,     \* so far
  calm        \* ghost: no deletion, force_sync or unanswered request so far

cacheVars == << disk, manifest, woken, transfer, tombstones, deletion, events, calm >>
counts == << events, calm >>

Transfers ==
  [pc : {"idle", "debounce", "next", "begin", "write", "mark", "tell"},
   todo : SUBSET CacheNodes, to : CacheNodes, data : Contents, left : SUBSET CacheFiles]
Steps == {"given", "here", "ask", "server", "clients", "back", "ended"}

CacheTypeOK ==
  /\ disk \in [CacheNodes -> Contents] /\ manifest \in [CacheNodes -> Contents]
  /\ woken \in [CacheNodes -> BOOLEAN] /\ transfer \in [Syncers -> Transfers]
  /\ tombstones \in [CacheFiles -> Nat] /\ calm \in BOOLEAN
  /\ deletion \in [Deletions -> [pc : Steps, file : CacheFiles, from : CacheNodes,
                                 left : SUBSET CacheClients]]
  /\ events \in 0 .. CacheEvents

Empty == [f \in CacheFiles |-> Absent]

\* run: a client first offers what it has
CacheInit ==
  /\ disk = [n \in CacheNodes |-> Empty] /\ manifest = disk
  /\ woken = [n \in CacheNodes |-> n \in CacheClients]
  /\ transfer = [s \in Syncers |-> [pc |-> "idle", todo |-> {}, to |-> CacheServer,
                                    data |-> Empty, left |-> {}]]
  /\ tombstones = Empty
  /\ deletion = [d \in Deletions |-> [pc |-> "given", file |-> CHOOSE f \in CacheFiles : TRUE,
                                    from |-> CacheServer, left |-> {}]]
  /\ events = 0 /\ calm = TRUE

-----------------------------------------------------------------------------
\* the program writes its cache files

\* a file is downloaded, or written by hand
EditFile(n, f) ==
  /\ events < CacheEvents /\ events' = events + 1
  /\ disk' = [disk EXCEPT ![n][f] = events']
  /\ woken' = [woken EXCEPT ![n] = @ \/ f \notin QuietFiles]
  /\ UNCHANGED << manifest, transfer, tombstones, deletion, calm >>

\* ProdInfo.clear_caches
ClearCache(n) ==
  /\ events < CacheEvents /\ events' = events + 1
  /\ disk' = [disk EXCEPT ![n] = [f \in CacheFiles |-> IF f \in CustomImages THEN @[f] ELSE Absent]]
  /\ woken' = [woken EXCEPT ![n] = TRUE]
  /\ UNCHANGED << manifest, transfer, tombstones, deletion, calm >>

-----------------------------------------------------------------------------
\* the manager

Peers(n) == IF n = CacheServer THEN CacheClients ELSE {CacheServer}
GoesOn(s, pc) == transfer' = [transfer EXCEPT ![s].pc = pc]

\* run takes an event
Wake(n) ==
  /\ transfer[<<n, "manager">>].pc = "idle" /\ woken[n]
  /\ GoesOn(<<n, "manager">>, "debounce") /\ woken' = [woken EXCEPT ![n] = FALSE]
  /\ UNCHANGED << disk, manifest, tombstones, deletion, counts >>

\* _drain_debounce: events that arrive meanwhile are dropped, since what follows covers
\* them
Settle(n) ==
  /\ transfer[<<n, "manager">>].pc = "debounce" /\ woken' = [woken EXCEPT ![n] = FALSE]
  /\ transfer' = [transfer EXCEPT ![<<n, "manager">>].pc = "next",
                                  ![<<n, "manager">>].todo = Peers(n)]
  /\ UNCHANGED << disk, manifest, tombstones, deletion, counts >>

\* force_sync, on a thread of the command line
ForceSyncCache(n) ==
  /\ events < CacheEvents /\ transfer[<<n, "cli">>].pc = "idle"
  /\ transfer' = [transfer EXCEPT ![<<n, "cli">>].pc = "next", ![<<n, "cli">>].todo = Peers(n)]
  /\ events' = events + 1 /\ calm' = FALSE
  /\ UNCHANGED << disk, manifest, woken, tombstones, deletion >>

\* _poll_for_changes
PollForChanges(n) ==
  /\ transfer[<<n, "manager">>].pc = "idle" /\ ~woken[n] /\ manifest[n] # disk[n]
  /\ woken' = [woken EXCEPT ![n] = TRUE] /\ manifest' = [manifest EXCEPT ![n] = disk[n]]
  /\ UNCHANGED << disk, transfer, tombstones, deletion, counts >>

\* _probe and build_payload
Build(s, peer) ==
  /\ transfer[s].pc = "next" /\ peer \in transfer[s].todo
  /\ transfer' = [transfer EXCEPT ![s] = [pc |-> "begin", todo |-> @.todo \ {peer}, to |-> peer,
                                          data |-> disk[s[1]], left |-> {}]]
  /\ UNCHANGED << disk, manifest, woken, tombstones, deletion, counts >>

\* the peer does not answer the probe; nothing is tried again
Miss(s, peer) ==
  /\ transfer[s].pc = "next" /\ peer \in transfer[s].todo /\ events < CacheEvents
  /\ transfer' = [transfer EXCEPT ![s].todo = @ \ {peer}]
  /\ events' = events + 1 /\ calm' = FALSE
  /\ UNCHANGED << disk, manifest, woken, tombstones, deletion >>

SentFiles(data) == {f \in CacheFiles : data[f] # Absent}
\* as if tombstones were not looked at
MutTombstoned(n) == {}
\* _delete_tombstone_snapshot: only the server has tombstones
Tombstoned(n) == IF n = CacheServer THEN {f \in CacheFiles : tombstones[f] > 0} ELSE {}

\* apply_sync_payload
BeginApply(s) ==
  LET t == transfer[s] IN
  /\ t.pc = "begin"
  /\ transfer' = [transfer EXCEPT ![s].pc = "write", ![s].left = SentFiles(t.data) \ Tombstoned(t.to)]
  /\ UNCHANGED << disk, manifest, woken, tombstones, deletion, counts >>

\* apply_payload, one file after the other
WriteFile(s, f) ==
  LET t == transfer[s] IN
  /\ t.pc = "write" /\ f \in t.left
  /\ disk' = [disk EXCEPT ![t.to][f] = t.data[f]]
  /\ transfer' = [transfer EXCEPT ![s].left = @ \ {f}]
  /\ UNCHANGED << manifest, woken, tombstones, deletion, counts >>

\* _preserve_file
Kept(data) == SentFiles(data) \cup CustomImages
\* _delete_stale_files, for what the server sends
DeleteStale(s) ==
  LET t == transfer[s] IN
  /\ t.pc = "write" /\ t.left = {} /\ GoesOn(s, "mark")
  /\ disk' = IF s[1] # CacheServer THEN disk
             ELSE [disk EXCEPT ![t.to] = [f \in CacheFiles |-> IF f \in Kept(t.data) THEN @[f] ELSE Absent]]
  /\ UNCHANGED << manifest, woken, tombstones, deletion, counts >>

\* mark_cache_synced
MarkSynced(s) ==
  LET t == transfer[s] IN
  /\ t.pc = "mark" /\ manifest' = [manifest EXCEPT ![t.to] = disk[t.to]]
  /\ GoesOn(s, IF s[1] = CacheServer THEN "next" ELSE "tell")
  /\ UNCHANGED << disk, woken, tombstones, deletion, counts >>

\* _notify_peer_changed: the server passes on what it was given
TellServer(s) ==
  /\ transfer[s].pc = "tell" /\ GoesOn(s, "next")
  /\ woken' = [woken EXCEPT ![CacheServer] = TRUE]
  /\ UNCHANGED << disk, manifest, tombstones, deletion, counts >>

\* the end of an event, or of force_sync
Note(s) ==
  LET n == s[1] IN
  /\ transfer[s].pc = "next" /\ transfer[s].todo = {}
  /\ manifest' = [manifest EXCEPT ![n] = disk[n]] /\ GoesOn(s, "idle")
  /\ UNCHANGED << disk, woken, tombstones, deletion, counts >>

SyncerStep(s) ==
  \/ \E peer \in CacheNodes : Build(s, peer)
  \/ BeginApply(s) \/ \E f \in CacheFiles : WriteFile(s, f)
  \/ DeleteStale(s) \/ MarkSynced(s) \/ TellServer(s) \/ Note(s)
ManagerStep(n) == Wake(n) \/ Settle(n) \/ SyncerStep(<<n, "manager">>)

-----------------------------------------------------------------------------
\* delete_cache_file

Deletes(d, pc) == deletion' = [deletion EXCEPT ![d].pc = pc]

\* the command is given to a node; the server begins with a tombstone
GiveDelete(d, n, f) ==
  /\ deletion[d].pc = "given" /\ events < CacheEvents /\ events' = events + 1 /\ calm' = FALSE
  /\ deletion' = [deletion EXCEPT ![d] =
       [pc |-> IF n = CacheServer THEN "ask" ELSE "here", file |-> f, from |-> n, left |-> {}]]
  /\ UNCHANGED << disk, manifest, woken, transfer, tombstones >>

\* a client deletes the file and then asks the server
DeleteHere(d) ==
  /\ deletion[d].pc = "here" /\ Deletes(d, "ask")
  /\ disk' = [disk EXCEPT ![deletion[d].from][deletion[d].file] = Absent]
  /\ UNCHANGED << manifest, woken, transfer, tombstones, counts >>

\* _add_delete_tombstone
AddTombstone(d) ==
  /\ deletion[d].pc = "ask" /\ Deletes(d, "server")
  /\ tombstones' = [tombstones EXCEPT ![deletion[d].file] = @ + 1]
  /\ UNCHANGED << disk, manifest, woken, transfer, counts >>

\* _delete_local_cache_file on the server
DeleteOnServer(d) ==
  /\ deletion[d].pc = "server"
  /\ disk' = [disk EXCEPT ![CacheServer][deletion[d].file] = Absent]
  /\ deletion' = [deletion EXCEPT ![d].pc = "clients", ![d].left = CacheClients]
  /\ UNCHANGED << manifest, woken, transfer, tombstones, counts >>

\* _delete_from_clients
DeleteOnClient(d, c) ==
  /\ deletion[d].pc = "clients" /\ c \in deletion[d].left
  /\ disk' = [disk EXCEPT ![c][deletion[d].file] = Absent]
  /\ manifest' = [manifest EXCEPT ![c] = disk'[c]]
  /\ deletion' = [deletion EXCEPT ![d].left = @ \ {c}]
  /\ UNCHANGED << woken, transfer, tombstones, counts >>

\* _remove_delete_tombstone counts
Removed(count) == IF count <= 1 THEN 0 ELSE count - 1
DeletedOnServer(d) ==
  /\ deletion[d].pc = "clients" /\ deletion[d].left = {}
  /\ tombstones' = [tombstones EXCEPT ![deletion[d].file] = Removed(@)]
  /\ manifest' = [manifest EXCEPT ![CacheServer] = disk[CacheServer]]
  /\ Deletes(d, IF deletion[d].from = CacheServer THEN "ended" ELSE "back")
  /\ UNCHANGED << disk, woken, transfer, counts >>

\* the client has the server's answer
DeleteBack(d) ==
  LET n == deletion[d].from IN
  /\ deletion[d].pc = "back" /\ Deletes(d, "ended")
  /\ manifest' = [manifest EXCEPT ![n] = disk[n]]
  /\ UNCHANGED << disk, woken, transfer, tombstones, counts >>

DeleteStep(d) ==
  \/ \E n \in CacheNodes, f \in CacheFiles : GiveDelete(d, n, f)
  \/ DeleteHere(d) \/ AddTombstone(d) \/ DeleteOnServer(d)
  \/ \E c \in CacheClients : DeleteOnClient(d, c)
  \/ DeletedOnServer(d) \/ DeleteBack(d)

CacheNext ==
  \/ \E n \in CacheNodes : \/ \E f \in CacheFiles : EditFile(n, f)
                           \/ ClearCache(n) \/ ManagerStep(n) \/ PollForChanges(n) \/ ForceSyncCache(n)
  \/ \E n \in CacheNodes : SyncerStep(<<n, "cli">>)
  \/ \E s \in Syncers, peer \in CacheNodes : Miss(s, peer)
  \/ \E d \in Deletions : DeleteStep(d)

\* the managers' threads run
CacheSpec == CacheInit /\ [][CacheNext]_cacheVars /\ \A n \in CacheNodes : WF_cacheVars(ManagerStep(n))

-----------------------------------------------------------------------------
\* properties

\* deletions the server is about to finish
Underway(f) == {d \in Deletions : deletion[d].file = f /\ deletion[d].pc \in {"server", "clients"}}

\* The server has one tombstone for each deletion of a file under way, so that the end of
\* one does not lift the other's (_add_delete_tombstone, _remove_delete_tombstone).
TombstonePerDeletion == \A f \in CacheFiles : tombstones[f] = Cardinality(Underway(f))

\* A payload whose handling begins while a file is being deleted does not bring the file
\* back to the server (apply_sync_payload).
DeletionKeepsPayloadsOut ==
  [][\A s \in Syncers : transfer[s].pc = "begin" /\ transfer'[s].pc = "write" /\ transfer[s].to = CacheServer
        => \A f \in transfer'[s].left : Underway(f) = {}]_cacheVars

\* Pushes of the server, and cleared caches, leave the custom images of a node alone: only
\* a delete command removes one.
CustomImagesStay ==
  [][\A n \in CacheNodes, f \in CustomImages :
        disk[n][f] # Absent /\ disk'[n][f] = Absent =>
          \E d \in Deletions : deletion[d].file = f /\ deletion'[d] # deletion[d]]_cacheVars

Agreed == \A c \in CacheClients, f \in CacheFiles \ (QuietFiles \cup CustomImages) :
            disk[c][f] = disk[CacheServer][f]

\* nobody has anything to do
SyncersRest == /\ \A n \in CacheNodes : ~woken[n]
          /\ \A s \in Syncers : transfer[s].pc = "idle"

\* Whenever all managers have come to rest, all nodes have the same ordinary files, if
\* every request was answered and nobody deleted a file or forced a synchronization
\* (CacheSyncManager.run).
RestMeansAgreed == SyncersRest /\ calm => Agreed

\* What a delete command and a synchronization at the same time, or two of either, may do.
CacheSafety ==
  /\ [](TombstonePerDeletion /\ RestMeansAgreed)
  /\ DeletionKeepsPayloadsOut /\ CustomImagesStay

\* The code does not keep this: a payload that was built before the deletion, or a push
\* beside it, brings the file back, on one node or on all of them; a client that
\* does not answer is not tried again; and a forced
\* synchronization beside the manager's may write an old file last.
RestAlwaysMeansAgreed == SyncersRest => Agreed
\* The code does not keep this: a file changed by hand during a synchronization is in the
\* manifest that is taken at its end, and is never sent.
HandMadeFilesArrive ==
  SyncersRest /\ calm /\ (\A n \in CacheNodes : manifest[n] = disk[n]) =>
    \A c \in CacheClients, f \in QuietFiles \ CustomImages : disk[c][f] = disk[CacheServer][f]
\* The code does not keep this: two synchronizations that cross exchange an older and a
\* newer file, and a poll in between lets them cross again.
ManagersComeToRest == []calm => <>SyncersRest
=============================================================================
