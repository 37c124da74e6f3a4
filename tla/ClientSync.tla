------------------------------ MODULE ClientSync ------------------------------
(***************************************************************************)
(* How a client's copy of the layout state is loaded and kept up to date.  *)
(* On the server, a dispatcher thread stores each update and then sends it  *)
(* to the registered clients (update_client_state), while a handler thread  *)
(* sends the whole state to a client that asks for it (send_current_state). *)
(* On the client, TMCC packets and PDI packets go through separate threads, *)
(* and the markers of a synchronization pass the TMCC bytes still queued.   *)
(*                                                                         *)
(* A state is a number that grows with each update of its component, so     *)
(* that older and newer can be told apart; 0 is a state not known yet.      *)
(***************************************************************************)
EXTENDS Naturals, Sequences

CONSTANTS
  Components,  \* components with a state
  SnapshotVia, \* the pipeline of the last packet of a component's snapshot
  Changes,     \* the components the "tmcc" and the "pdi" dispatcher update
  MaxUpdates,  \* bound on the updates
  MaxSyncs,    \* bound on the synchronizations asked for
  Syncer,      \* the EnqueueHandler thread that synchronizes the client
  NoSender,      \* no thread
  Begin,       \* SYNC_BEGIN_RESPONSE, offered on as SYNCHRONIZING
  Complete     \* SYNC_COMPLETE_RESPONSE, offered on as SYNCHRONIZED

Pipes == {"tmcc", "pdi"}
States == 0 .. MaxUpdates + 1
Packets == Components \X States

ASSUME SyncAssumption ==
  /\ SnapshotVia \in [Components -> Pipes]
  /\ Changes \in [Pipes -> SUBSET Components]
  /\ MaxUpdates \in Nat /\ MaxSyncs \in Nat
  /\ Syncer # NoSender /\ Begin # Complete
  /\ Begin \notin Packets /\ Complete \notin Packets

VARIABLES
  server,      \* the server's state of each component
  hand,        \* the update each dispatcher still has to send: a sequence of 0 or 1
  joined,      \* the client is registered
  clientLock,        \* who holds CommandDispatcher._client_lock
  todo,        \* components the synchronization has not reached
  snap,        \* the snapshot read and not yet sent: a sequence of 0 or 1
  syncing,     \* a synchronization is being sent
  syncs,       \* synchronizations asked for
  updates,     \* updates applied
  raw,         \* client: CommandListener._deque
  tmcc,        \* client: CommandDispatcher._queue
  pdi,         \* client: PdiListener._deque and PdiDispatcher._queue
  client,      \* the client's state of each component
  clientSynced       \* SyncState.is_synchronized

serverVars == <<server, hand, updates>>
syncingVars == <<clientLock, todo, snap, syncing, syncs>>
queueVars == <<raw, tmcc, pdi>>
clientVars == <<client, clientSynced>>
clientSyncVars == <<serverVars, joined, syncingVars, queueVars, clientVars>>

SyncInit ==
  /\ server = [a \in Components |-> 1] /\ hand = [w \in Pipes |-> <<>>] /\ updates = 0
  /\ joined = FALSE
  /\ clientLock = NoSender /\ todo = {} /\ snap = <<>> /\ syncing = FALSE /\ syncs = 0
  /\ raw = <<>> /\ tmcc = <<>> /\ pdi = <<>>
  /\ client = [a \in Components |-> 0] /\ clientSynced = FALSE

\* The client's TCP server takes one packet and offers it to a pipeline.
Arrive(packet, pipe) ==
  /\ raw' = IF pipe = "tmcc" THEN Append(raw, packet) ELSE raw
  /\ pdi' = IF pipe = "pdi" THEN Append(pdi, packet) ELSE pdi
  /\ UNCHANGED tmcc

\* Sync markers skip _deque: CommandListener.offer gives them to the dispatcher.
Mark(marker) == tmcc' = Append(tmcc, marker) /\ UNCHANGED <<raw, pdi>>

-----------------------------------------------------------------------------
(* The server                                                               *)

\* A dispatcher publishes an update: ComponentStateStore applies it.
Apply(w, a) ==
  /\ hand[w] = <<>> /\ updates < MaxUpdates
  /\ server' = [server EXCEPT ![a] = @ + 1]
  /\ hand' = [hand EXCEPT ![w] = <<<<a, server[a] + 1>>>>]
  /\ updates' = updates + 1
  /\ UNCHANGED <<joined, syncingVars, queueVars, clientVars>>

\* update_client_state of CommandDispatcher needs _client_lock; the one of
\* PdiDispatcher has a clientLock of its own.
MutMaySend(w) == TRUE  \* the TMCC side sends without the clientLock, too
MaySend(w) == w = "tmcc" => clientLock = NoSender

\* Whether there is a client to send to.
MutRegistered == joined /\ ~syncing  \* a client is told of updates once synchronized
Registered == joined

SyncSend(w) ==
  /\ hand[w] # <<>> /\ MaySend(w)
  /\ IF Registered THEN Arrive(Head(hand[w]), w) ELSE UNCHANGED queueVars
  /\ hand' = [hand EXCEPT ![w] = <<>>]
  /\ UNCHANGED <<server, updates, joined, syncingVars, clientVars>>

\* send_current_state: the begin marker, then every component.
SyncBegin ==
  /\ joined /\ ~syncing /\ syncs < MaxSyncs
  /\ syncing' = TRUE /\ syncs' = syncs + 1
  /\ todo' = Components
  /\ Mark(Begin)
  /\ UNCHANGED <<serverVars, joined, clientLock, snap, clientVars>>

\* Inside _client_lock, a component's state is read ...
SnapshotRead(a) ==
  /\ syncing /\ a \in todo /\ clientLock = NoSender
  /\ clientLock' = Syncer
  /\ todo' = todo \ {a}
  /\ snap' = <<<<a, server[a]>>>>
  /\ UNCHANGED <<serverVars, joined, syncing, syncs, queueVars, clientVars>>

\* ... and sent.
SnapshotSend ==
  /\ clientLock = Syncer
  /\ Arrive(snap[1], SnapshotVia[snap[1][1]])
  /\ snap' = <<>> /\ clientLock' = NoSender
  /\ UNCHANGED <<serverVars, joined, todo, syncing, syncs, clientVars>>

SyncComplete ==
  /\ syncing /\ todo = {} /\ clientLock = NoSender
  /\ syncing' = FALSE
  /\ Mark(Complete)
  /\ UNCHANGED <<serverVars, joined, clientLock, todo, snap, syncs, clientVars>>

-----------------------------------------------------------------------------
(* The client                                                               *)

\* ClientStateListener.__init__: register, before the state is asked for.
Register ==
  /\ ~joined /\ joined' = TRUE
  /\ UNCHANGED <<serverVars, syncingVars, queueVars, clientVars>>

\* CommandListener.run turns bytes into a command and offers it on.
Parse ==
  /\ raw # <<>>
  /\ raw' = Tail(raw)
  /\ tmcc' = Append(tmcc, Head(raw))
  /\ UNCHANGED <<serverVars, joined, syncingVars, pdi, clientVars>>

SyncStore(packet) == client' = [client EXCEPT ![packet[1]] = packet[2]]

\* The client's CommandDispatcher publishes to ComponentStateStore and SyncState.
DispatchTmcc ==
  /\ tmcc # <<>>
  /\ tmcc' = Tail(tmcc)
  /\ LET packet == Head(tmcc)
     IN  IF packet \in {Begin, Complete}
           THEN clientSynced' = (packet = Complete) /\ UNCHANGED client
           ELSE SyncStore(packet) /\ UNCHANGED clientSynced
  /\ UNCHANGED <<serverVars, joined, syncingVars, raw, pdi>>

\* The client's PdiDispatcher publishes to ComponentStateStore.
DispatchPdi ==
  /\ pdi # <<>>
  /\ pdi' = Tail(pdi)
  /\ SyncStore(Head(pdi))
  /\ UNCHANGED <<serverVars, joined, syncingVars, raw, tmcc, clientSynced>>

ServerStep ==
  \/ \E w \in Pipes : SyncSend(w) \/ \E a \in Changes[w] : Apply(w, a)
  \/ SyncBegin \/ SnapshotSend \/ SyncComplete
  \/ \E a \in Components : SnapshotRead(a)

ClientStep == Register \/ Parse \/ DispatchTmcc \/ DispatchPdi

SyncNext == ServerStep \/ ClientStep

SyncSpec == SyncInit /\ [][SyncNext]_clientSyncVars

-----------------------------------------------------------------------------
(* Properties                                                               *)

\* Types; the handler holds the clientLock exactly while a snapshot is read and unsent.
SyncTypeOK ==
  /\ server \in [Components -> States]
  /\ hand \in [Pipes -> Seq(Packets)] /\ \A w \in Pipes : Len(hand[w]) <= 1
  /\ updates \in 0 .. MaxUpdates /\ syncs \in 0 .. MaxSyncs
  /\ joined \in BOOLEAN /\ syncing \in BOOLEAN /\ clientSynced \in BOOLEAN
  /\ clientLock = IF snap = <<>> THEN NoSender ELSE Syncer
  /\ snap \in Seq(Packets) /\ Len(snap) <= 1
  /\ todo \subseteq Components
  /\ raw \in Seq(Packets) /\ pdi \in Seq(Packets)
  /\ tmcc \in Seq(Packets \union {Begin, Complete})
  /\ client \in [Components -> States]

\* A client never falls back to an older state of a component: what
\* send_current_state read before an update cannot arrive after it.
ClientNeverGoesBack == [][\A a \in Components : client'[a] >= client[a]]_clientSyncVars

\* When nothing is under way any more, a client that was synchronized once
\* holds the server's state: "Used to keep client states in sync with server"
\* (command_listener.py:621).
SyncQuiet ==
  /\ syncs > 0 /\ ~syncing
  /\ \A w \in Pipes : hand[w] = <<>>
  /\ raw = <<>> /\ tmcc = <<>> /\ pdi = <<>>

ClientConverges == SyncQuiet => client = server

\* A client that has been told the synchronization is complete knows the state of
\* every component: "wait for roster download" (pytrain.py:304).  The code does
\* not keep this.
SynchronizedMeansLoaded == clientSynced => \A a \in Components : client[a] # 0
=============================================================================
