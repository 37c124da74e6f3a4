------------------------- MODULE StateLoadingProofs --------------------------
(*****************************************************************************)
(* Theorems about ClientSync, for any components, changes and pipelines, and *)
(* about StartupState, for any rosters, record counts and options.           *)
(*****************************************************************************)
EXTENDS StartupState, ClientSync, TLAPS

-----------------------------------------------------------------------------
(* Clients: what the server sends of its state (ClientSync)                  *)

\* One pipeline carries all that is said of a component that changes: its updates
\* and its snapshot.  It is the TMCC one: the PDI dispatcher sends without _client_lock.
OnePipe ==
  /\ Changes["pdi"] = {}
  /\ \A a \in Changes["tmcc"] : SnapshotVia[a] = "tmcc"

Items == Packets \union {Begin, Complete}

\* Two packets of one component, in the order they are sent.
Rises(p, r) == p \in Packets /\ r \in Packets /\ p[1] = r[1] => p[2] <= r[2]

\* Along a queue, and from one queue to the one that feeds it.
Rising(q) == \A i, j \in 1 .. Len(q) : i < j => Rises(q[i], q[j])
Ahead(q, r) == \A i \in 1 .. Len(q), j \in 1 .. Len(r) : Rises(q[i], r[j])

\* What a queue holds lies between what the client has and what the server has.
Between(q, low, high) ==
  \A i \in 1 .. Len(q) : q[i] \in Packets => q[i][2] \in low[q[i][1]] .. high[q[i][1]]

\* What a queue holds came down the TMCC pipeline.
Down(q) == \A i \in 1 .. Len(q) : q[i] \in Packets => SnapshotVia[q[i][1]] = "tmcc"

Holds(q, p) == \E i \in 1 .. Len(q) : q[i] = p

-----------------------------------------------------------------------------
Counted ==
  /\ \A a \in Components : server[a] <= updates + 1
  /\ syncing => syncs > 0
  /\ syncs > 0 => joined
  /\ ~syncing => todo = {} /\ snap = <<>>

\* The update in a dispatcher's hand is the newest; a snapshot that is not the
\* newest waits for one that is in hand.
Fresh ==
  /\ hand["pdi"] = <<>>
  /\ \A i \in 1 .. Len(hand["tmcc"]) :
       LET p == hand["tmcc"][i] IN p[1] \in Changes["tmcc"] /\ p[2] = server[p[1]]
  /\ \A i \in 1 .. Len(snap) :
       snap[i][2] = server[snap[i][1]] \/ Holds(hand["tmcc"], <<snap[i][1], server[snap[i][1]]>>)

InLine ==
  /\ Rising(tmcc) /\ Rising(raw)
  /\ Ahead(tmcc, raw) /\ Ahead(tmcc, snap) /\ Ahead(raw, snap)
  /\ Between(tmcc, client, server) /\ Between(raw, client, server)
  /\ Between(snap, client, server)
  /\ Down(tmcc) /\ Down(raw)
  /\ \A a \in Components : client[a] <= server[a]

\* The PDI pipeline holds only the states of components that do not change.
Still ==
  \A i \in 1 .. Len(pdi) :
    SnapshotVia[pdi[i][1]] = "pdi" /\ pdi[i][2] = server[pdi[i][1]]

\* A synchronization has sent a component's state.
Loaded(a) ==
  /\ syncs > 0
  /\ syncs = 1 /\ syncing => a \notin todo /\ \A i \in 1 .. Len(snap) : snap[i][1] # a

\* The client has the newest state of a component, or it is on its way.
Latest(a) ==
  \/ client[a] = server[a]
  \/ Holds(tmcc, <<a, server[a]>>) \/ Holds(raw, <<a, server[a]>>)
  \/ Holds(pdi, <<a, server[a]>>) \/ Holds(hand["tmcc"], <<a, server[a]>>)

OnItsWay == \A a \in Components : Loaded(a) => Latest(a)

SyncInvariant == SyncTypeOK /\ Counted /\ Fresh /\ InLine /\ Still /\ OnItsWay

-----------------------------------------------------------------------------
(* Queues                                                                   *)

LEMMA ItemParts ==
  ASSUME NEW p \in Packets
  PROVE  p[1] \in Components /\ p[2] \in States /\ p = <<p[1], p[2]>>
BY DEF Packets, States

LEMMA Appended ==
  ASSUME NEW S, NEW q \in Seq(S), NEW p \in S
  PROVE  /\ Append(q, p) \in Seq(S) /\ Len(Append(q, p)) = Len(q) + 1 /\ Len(q) \in Nat
         /\ \A i \in 1 .. Len(q) : Append(q, p)[i] = q[i]
         /\ Append(q, p)[Len(q) + 1] = p
OBVIOUS

LEMMA Taken ==
  ASSUME NEW S, NEW q \in Seq(S), q # <<>>
  PROVE  /\ Tail(q) \in Seq(S) /\ Len(Tail(q)) = Len(q) - 1 /\ Len(q) \in Nat /\ Len(q) > 0
         /\ \A i \in 1 .. Len(Tail(q)) : Tail(q)[i] = q[i + 1] /\ i + 1 \in 1 .. Len(q)
         /\ \A i \in 1 .. Len(q) : i # 1 => i - 1 \in 1 .. Len(Tail(q)) /\ Tail(q)[i - 1] = q[i]
         /\ Head(q) = q[1] /\ Head(q) \in S
OBVIOUS

\* A packet that joins the end of a queue behind all that is in it.
LEMMA RisingAppend ==
  ASSUME NEW q \in Seq(Items), NEW p \in Items, Rising(q),
         \A i \in 1 .. Len(q) : Rises(q[i], p)
  PROVE  Rising(Append(q, p))
<1>1. \A i, j \in 1 .. Len(q) + 1 : i < j => i \in 1 .. Len(q) /\ (j \in 1 .. Len(q) \/ j = Len(q) + 1)
  BY Appended
<1> QED
  BY <1>1, Appended DEF Rising

LEMMA AheadAppend ==
  ASSUME NEW q \in Seq(Items), NEW r \in Seq(Items), NEW p \in Items, Ahead(q, r)
  PROVE  /\ (\A i \in 1 .. Len(q) : Rises(q[i], p)) => Ahead(q, Append(r, p))
         /\ (\A j \in 1 .. Len(r) : Rises(p, r[j])) => Ahead(Append(q, p), r)
<1>1. \A i \in 1 .. Len(q) + 1 : i \in 1 .. Len(q) \/ i = Len(q) + 1
  BY Appended
<1>2. \A i \in 1 .. Len(r) + 1 : i \in 1 .. Len(r) \/ i = Len(r) + 1
  BY Appended
<1> QED
  BY <1>1, <1>2, Appended DEF Ahead

LEMMA TailKeeps ==
  ASSUME NEW q \in Seq(Items), NEW r \in Seq(Items), q # <<>>,
         NEW low, NEW high
  PROVE  /\ Rising(q) => Rising(Tail(q))
         /\ Ahead(q, r) => Ahead(Tail(q), r)
         /\ Ahead(r, q) => Ahead(r, Tail(q))
         /\ Between(q, low, high) => Between(Tail(q), low, high)
         /\ Down(q) => Down(Tail(q))
<1>1. /\ \A i \in 1 .. Len(Tail(q)) : Tail(q)[i] = q[i + 1] /\ i + 1 \in 1 .. Len(q)
      /\ Len(Tail(q)) \in Nat
  BY Taken
<1>2. Rising(q) => Rising(Tail(q))
  <2>1. \A i, j \in 1 .. Len(Tail(q)) : i < j => i + 1 < j + 1
    BY <1>1
  <2> QED
    BY <1>1, <2>1 DEF Rising
<1>3. /\ Ahead(q, r) => Ahead(Tail(q), r)
      /\ Ahead(r, q) => Ahead(r, Tail(q))
  BY <1>1 DEF Ahead
<1>4. /\ Between(q, low, high) => Between(Tail(q), low, high)
      /\ Down(q) => Down(Tail(q))
  BY <1>1 DEF Between, Down
<1> QED
  BY <1>2, <1>3, <1>4

\* A marker says nothing of a component.
LEMMA MarkerFree ==
  ASSUME SyncAssumption, NEW p, NEW m \in {Begin, Complete}
  PROVE  m \notin Packets /\ Rises(p, m) /\ Rises(m, p)
BY DEF SyncAssumption, Rises

LEMMA ShortSeq ==
  ASSUME NEW S, NEW q \in Seq(S), Len(q) <= 1, q # <<>>
  PROVE  /\ Len(q) = 1 /\ q = <<q[1]>> /\ q[1] \in S
         /\ q[1] = Head(q) /\ q = <<Head(q)>> /\ Head(q) \in S
<1>1. Len(q) = 1
  <2>1. Len(q) \in Nat /\ Len(q) # 0
    OBVIOUS
  <2> QED
    BY <2>1
<1>2. q[1] \in S /\ q[1] = Head(q)
  BY <1>1
<1>3. q = <<q[1]>>
  BY <1>1
<1> QED
  BY <1>1, <1>2, <1>3

LEMMA InHand ==
  ASSUME SyncTypeOK, NEW w \in Pipes
  PROVE  /\ hand[w] \in Seq(Packets)
         /\ hand[w] = <<>> \/ (Len(hand[w]) = 1 /\ hand[w] = <<Head(hand[w])>>
                                 /\ hand[w][1] = Head(hand[w]) /\ Head(hand[w]) \in Packets)
<1>1. hand[w] \in Seq(Packets) /\ Len(hand[w]) <= 1
  BY DEF SyncTypeOK
<1> QED
  BY <1>1, ShortSeq

LEMMA InSnap ==
  ASSUME SyncTypeOK
  PROVE  \/ snap = <<>>
         \/ Len(snap) = 1 /\ snap = <<snap[1]>> /\ snap[1] \in Packets
<1>1. snap \in Seq(Packets) /\ Len(snap) <= 1
  BY DEF SyncTypeOK
<1> QED
  BY <1>1, ShortSeq

-----------------------------------------------------------------------------
(* Types                                                                    *)

LEMMA SyncTypeStep ==
  ASSUME SyncAssumption, SyncTypeOK, Counted, [SyncNext]_clientSyncVars
  PROVE  SyncTypeOK' /\ Counted'
<1> USE DEF SyncTypeOK, Counted, States
<1>1. ASSUME NEW w \in Pipes, SyncSend(w) PROVE SyncTypeOK' /\ Counted'
  <2>1. Head(hand[w]) \in Packets
    BY <1>1, InHand DEF SyncSend
  <2>2. Append(raw, Head(hand[w])) \in Seq(Packets) /\ Append(pdi, Head(hand[w])) \in Seq(Packets)
    BY <2>1
  <2>3. raw' \in Seq(Packets) /\ pdi' \in Seq(Packets) /\ tmcc' = tmcc
    BY <1>1, <2>2 DEF SyncSend, Arrive, queueVars
  <2>4. hand' \in [Pipes -> Seq(Packets)] /\ \A v \in Pipes : Len(hand'[v]) <= 1
    <3>1. <<>> \in Seq(Packets) /\ Len(<<>>) = 0
      OBVIOUS
    <3> QED
      BY <1>1, <3>1 DEF SyncSend
  <2> QED
    BY <1>1, <2>3, <2>4 DEF SyncSend, syncingVars, clientVars
<1>2. ASSUME NEW w \in Pipes, NEW a \in Changes[w], Apply(w, a) PROVE SyncTypeOK' /\ Counted'
  <2>1. a \in Components /\ MaxUpdates \in Nat
    BY DEF SyncAssumption
  <2>2. server[a] + 1 \in States /\ server' = [server EXCEPT ![a] = server[a] + 1]
    BY <1>2, <2>1 DEF Apply
  <2>3. <<<<a, server[a] + 1>>>> \in Seq(Packets)
    BY <2>1, <2>2 DEF Packets
  <2>4. hand' \in [Pipes -> Seq(Packets)] /\ \A v \in Pipes : Len(hand'[v]) <= 1
    <3>1. Len(<<<<a, server[a] + 1>>>>) = 1
      OBVIOUS
    <3> QED
      BY <1>2, <2>3, <3>1 DEF Apply
  <2>5. server' \in [Components -> States]
    BY <2>1, <2>2
  <2>6. \A b \in Components : server'[b] <= updates' + 1
    BY <1>2, <2>1, <2>2 DEF Apply
  <2>7. updates' \in 0 .. MaxUpdates
    BY <1>2, <2>1 DEF Apply
  <2> QED
    BY <1>2, <2>4, <2>5, <2>6, <2>7 DEF Apply, syncingVars, queueVars, clientVars
<1>3. CASE SyncBegin
  <2>1. tmcc' \in Seq(Packets \union {Begin, Complete})
    BY <1>3 DEF SyncBegin, Mark
  <2> QED
    BY <1>3, <2>1 DEF SyncBegin, Mark, serverVars, clientVars, SyncAssumption
<1>4. CASE SnapshotSend
  <2>1. snap # <<>> /\ snap[1] \in Packets
    BY <1>4 DEF SnapshotSend, SyncAssumption
  <2>2. raw' \in Seq(Packets) /\ pdi' \in Seq(Packets) /\ tmcc' = tmcc
    BY <1>4, <2>1 DEF SnapshotSend, Arrive
  <2> QED
    BY <1>4, <2>2 DEF SnapshotSend, serverVars, clientVars
<1>5. CASE SyncComplete
  <2>1. tmcc' \in Seq(Packets \union {Begin, Complete})
    BY <1>5 DEF SyncComplete, Mark
  <2>2. snap = <<>>
    BY <1>5 DEF SyncComplete, SyncAssumption
  <2> QED
    BY <1>5, <2>1, <2>2 DEF SyncComplete, Mark, serverVars, clientVars
<1>6. ASSUME NEW a \in Components, SnapshotRead(a) PROVE SyncTypeOK' /\ Counted'
  <2>1. snap' \in Seq(Packets) /\ Len(snap') = 1 /\ snap' # <<>>
    BY <1>6 DEF SnapshotRead, Packets
  <2> QED
    BY <1>6, <2>1 DEF SnapshotRead, serverVars, queueVars, clientVars
<1>7. CASE Register
  BY <1>7 DEF Register, serverVars, syncingVars, queueVars, clientVars
<1>8. CASE Parse
  <2>1. raw' \in Seq(Packets) /\ Head(raw) \in Packets
    BY <1>8, Taken DEF Parse
  <2>2. tmcc' \in Seq(Packets \union {Begin, Complete})
    BY <1>8, <2>1, Appended DEF Parse
  <2> QED
    BY <1>8, <2>1, <2>2 DEF Parse, serverVars, syncingVars, clientVars
<1>9. CASE DispatchTmcc
  <2>1. Head(tmcc) \in Packets \union {Begin, Complete}
        /\ tmcc' \in Seq(Packets \union {Begin, Complete})
    BY <1>9, Taken DEF DispatchTmcc
  <2>2. client' \in [Components -> States] /\ clientSynced' \in BOOLEAN
    BY <1>9, <2>1, ItemParts DEF DispatchTmcc, SyncStore
  <2> QED
    BY <1>9, <2>1, <2>2 DEF DispatchTmcc, serverVars, syncingVars
<1>10. CASE DispatchPdi
  <2>1. Head(pdi) \in Packets /\ pdi' \in Seq(Packets)
    BY <1>10, Taken DEF DispatchPdi
  <2>2. client' \in [Components -> States]
    BY <1>10, <2>1, ItemParts DEF DispatchPdi, SyncStore
  <2> QED
    BY <1>10, <2>1, <2>2 DEF DispatchPdi, serverVars, syncingVars
<1>11. CASE UNCHANGED clientSyncVars
  BY <1>11 DEF clientSyncVars, serverVars, syncingVars, queueVars, clientVars
<1> QED
  BY <1>1, <1>2, <1>3, <1>4, <1>5, <1>6, <1>7, <1>8, <1>9, <1>10, <1>11
     DEF SyncNext, ServerStep, ClientStep

-----------------------------------------------------------------------------
(* What is in hand and what is read is fresh                                *)

\* The TMCC dispatcher sends only while no snapshot is read and unsent.
LEMMA SendStep ==
  ASSUME SyncAssumption, SyncTypeOK, Fresh, NEW w \in Pipes, SyncSend(w)
  PROVE  /\ w = "tmcc" /\ snap = <<>> /\ hand' = [hand EXCEPT !["tmcc"] = <<>>]
         /\ hand["tmcc"] = <<Head(hand["tmcc"])>> /\ Head(hand["tmcc"]) \in Packets
         /\ Head(hand["tmcc"])[2] = server[Head(hand["tmcc"])[1]]
         /\ Head(hand["tmcc"])[1] \in Changes["tmcc"]
<1>1. w = "tmcc"
  BY DEF SyncSend, Fresh, Pipes
<1>2. snap = <<>>
  BY <1>1 DEF SyncSend, MaySend, SyncTypeOK, SyncAssumption
<1>3. /\ hand["tmcc"] = <<Head(hand["tmcc"])>> /\ Head(hand["tmcc"]) \in Packets
      /\ Len(hand["tmcc"]) = 1 /\ hand["tmcc"][1] = Head(hand["tmcc"])
  BY <1>1, InHand DEF SyncSend
<1>4. hand' = [hand EXCEPT !["tmcc"] = <<>>]
  BY <1>1 DEF SyncSend
<1> QED
  BY <1>1, <1>2, <1>3, <1>4 DEF Fresh

LEMMA ApplyStep ==
  ASSUME SyncAssumption, OnePipe, SyncTypeOK, Fresh,
         NEW w \in Pipes, NEW a \in Changes[w], Apply(w, a)
  PROVE  /\ w = "tmcc" /\ a \in Components /\ a \in Changes["tmcc"] /\ SnapshotVia[a] = "tmcc"
         /\ hand["tmcc"] = <<>> /\ hand' = [hand EXCEPT !["tmcc"] = <<<<a, server'[a]>>>>]
         /\ server'[a] = server[a] + 1
         /\ \A b \in Components : b # a => server'[b] = server[b]
         /\ UNCHANGED <<syncingVars, queueVars, clientVars>>
<1>1. w = "tmcc" /\ a \in Components
  BY DEF OnePipe, Pipes, SyncAssumption
<1> QED
  BY <1>1 DEF Apply, OnePipe, SyncTypeOK

LEMMA FreshStep ==
  ASSUME SyncAssumption, OnePipe, SyncTypeOK, Fresh, [SyncNext]_clientSyncVars
  PROVE  Fresh'
<1>1. ASSUME NEW w \in Pipes, SyncSend(w) PROVE Fresh'
  <2>1. hand'["pdi"] = <<>> /\ hand'["tmcc"] = <<>> /\ snap' = <<>>
    BY <1>1, SendStep DEF SyncSend, SyncTypeOK, Pipes, Fresh, syncingVars
  <2>2. Len(<<>>) = 0
    OBVIOUS
  <2> QED
    BY <2>1, <2>2 DEF Fresh
<1>2. ASSUME NEW w \in Pipes, NEW a \in Changes[w], Apply(w, a) PROVE Fresh'
  <2>1. hand'["pdi"] = <<>> /\ hand'["tmcc"] = <<<<a, server'[a]>>>>
    BY <1>2, ApplyStep DEF Fresh, SyncTypeOK, Pipes
  <2>2. \A i \in 1 .. Len(snap) : snap[i] \in Packets /\ snap[i][2] = server[snap[i][1]]
    <3>1. \A i \in 1 .. Len(snap) : snap[i] \in Packets
      BY InSnap
    <3>2. \A p : ~Holds(hand["tmcc"], p)
      BY <1>2, ApplyStep DEF Holds
    <3> QED
      BY <3>1, <3>2 DEF Fresh
  <2>3. ASSUME NEW i \in 1 .. Len(snap'), snap'[i][1] # a PROVE snap'[i][2] = server'[snap'[i][1]]
    BY <1>2, <2>2, <2>3, ApplyStep, ItemParts DEF syncingVars
  <2>4. ASSUME NEW i \in 1 .. Len(snap'), snap'[i][1] = a
        PROVE  Holds(hand["tmcc"], <<snap[i][1], server[snap[i][1]]>>)'
    BY <1>2, <2>1, <2>4 DEF Holds
  <2> QED
    BY <1>2, <2>1, <2>3, <2>4, ApplyStep DEF Fresh
<1>3. CASE SyncBegin
  BY <1>3 DEF SyncBegin, Fresh, serverVars, Holds
<1>4. CASE SnapshotSend
  BY <1>4 DEF SnapshotSend, Fresh, serverVars
<1>5. CASE SyncComplete
  BY <1>5 DEF SyncComplete, Fresh, serverVars, Holds
<1>6. ASSUME NEW a \in Components, SnapshotRead(a) PROVE Fresh'
  BY <1>6 DEF SnapshotRead, Fresh, serverVars
<1>7. CASE ClientStep \/ UNCHANGED clientSyncVars
  BY <1>7 DEF ClientStep, Register, Parse, DispatchTmcc, DispatchPdi, clientSyncVars,
              serverVars, syncingVars, Fresh, Holds
<1> QED
  BY <1>1, <1>2, <1>3, <1>4, <1>5, <1>6, <1>7 DEF SyncNext, ServerStep

-----------------------------------------------------------------------------
(* The order of the packets of a component                                  *)

LEMMA BetweenAppend ==
  ASSUME NEW q \in Seq(Items), NEW p \in Items, NEW low, NEW high
  PROVE  /\ Between(q, low, high) /\ (p \in Packets => p[2] \in low[p[1]] .. high[p[1]])
              => Between(Append(q, p), low, high)
         /\ Down(q) /\ (p \in Packets => SnapshotVia[p[1]] = "tmcc") => Down(Append(q, p))
<1>1. \A i \in 1 .. Len(q) + 1 : i \in 1 .. Len(q) \/ i = Len(q) + 1
  BY Appended
<1> QED
  BY <1>1, Appended DEF Between, Down

LEMMA BetweenWider ==
  ASSUME SyncTypeOK, NEW q \in Seq(Items), Between(q, client, server),
         NEW high \in [Components -> Nat], \A a \in Components : server[a] <= high[a]
  PROVE  Between(q, client, high)
<1> SUFFICES ASSUME NEW i \in 1 .. Len(q), q[i] \in Packets
             PROVE  q[i][2] \in client[q[i][1]] .. high[q[i][1]]
  BY DEF Between
<1>1. q[i][1] \in Components /\ q[i][2] \in States
  BY ItemParts
<1>2. q[i][2] \in client[q[i][1]] .. server[q[i][1]]
  BY DEF Between
<1> QED
  BY <1>1, <1>2 DEF SyncTypeOK, States

\* The client stores a packet behind none of those that are left of its component.
LEMMA BetweenStore ==
  ASSUME SyncTypeOK, NEW q \in Seq(Items), Between(q, client, server),
         NEW p \in Packets, SyncStore(p),
         \A i \in 1 .. Len(q) : q[i] \in Packets /\ q[i][1] = p[1] => p[2] <= q[i][2]
  PROVE  Between(q, client', server)
<1> SUFFICES ASSUME NEW i \in 1 .. Len(q), q[i] \in Packets
             PROVE  q[i][2] \in client'[q[i][1]] .. server[q[i][1]]
  BY DEF Between
<1>1. /\ q[i][1] \in Components /\ q[i][2] \in Nat /\ p[1] \in Components /\ p[2] \in Nat
      /\ client \in [Components -> Nat] /\ server \in [Components -> Nat]
  <2>1. client \in [Components -> Nat] /\ server \in [Components -> Nat]
    BY DEF SyncTypeOK, States
  <2>2. q[i][1] \in Components /\ q[i][2] \in States
    BY ItemParts
  <2>3. p[1] \in Components /\ p[2] \in States
    BY ItemParts
  <2> QED
    BY <2>1, <2>2, <2>3 DEF States
<1>2. q[i][2] \in client[q[i][1]] .. server[q[i][1]]
  BY DEF Between
<1>3. client' = [client EXCEPT ![p[1]] = p[2]]
  BY DEF SyncStore
<1> QED
  BY <1>1, <1>2, <1>3

LEMMA Typed ==
  ASSUME SyncTypeOK
  PROVE  /\ tmcc \in Seq(Items) /\ raw \in Seq(Items) /\ snap \in Seq(Items)
         /\ raw \in Seq(Packets) /\ pdi \in Seq(Packets) /\ snap \in Seq(Packets)
         /\ client \in [Components -> Nat] /\ server \in [Components -> Nat]
         /\ Packets \subseteq Items
BY DEF SyncTypeOK, Items, States

LEMMA EmptyLine ==
  ASSUME NEW low, NEW high, NEW q
  PROVE  /\ Rising(<<>>) /\ Ahead(<<>>, q) /\ Ahead(q, <<>>)
         /\ Between(<<>>, low, high) /\ Down(<<>>)
BY DEF Rising, Ahead, Between, Down

\* A packet that arrives at the TMCC pipeline behind all that is in it.
LEMMA ArriveInLine ==
  ASSUME SyncTypeOK, SyncTypeOK', InLine, NEW p \in Packets, SnapshotVia[p[1]] = "tmcc",
         p[2] \in client[p[1]] .. server[p[1]],
         \A i \in 1 .. Len(tmcc) : Rises(tmcc[i], p),
         \A i \in 1 .. Len(raw) : Rises(raw[i], p),
         raw' = Append(raw, p), snap' = <<>>, UNCHANGED <<tmcc, client, server>>
  PROVE  InLine'
<1>1. tmcc \in Seq(Items) /\ raw \in Seq(Items) /\ p \in Items
  BY Typed
<1>2. Rising(raw') /\ Ahead(tmcc, raw')
  BY <1>1, RisingAppend, AheadAppend DEF InLine
<1>3. Between(raw', client, server) /\ Down(raw')
  BY <1>1, BetweenAppend DEF InLine
<1>4. Ahead(tmcc, snap') /\ Ahead(raw', snap') /\ Between(snap', client, server)
  BY EmptyLine
<1> QED
  BY <1>2, <1>3, <1>4 DEF InLine

\* A marker joins the TMCC queue.
LEMMA MarkInLine ==
  ASSUME SyncAssumption, SyncTypeOK, InLine, NEW m \in {Begin, Complete}, tmcc' = Append(tmcc, m),
         UNCHANGED <<raw, snap, client, server>>
  PROVE  InLine'
<1>1. tmcc \in Seq(Items) /\ raw \in Seq(Items) /\ snap \in Seq(Items) /\ m \in Items
  BY Typed DEF Items
<1>2. Rising(tmcc') /\ Ahead(tmcc', raw) /\ Ahead(tmcc', snap)
  BY <1>1, MarkerFree, RisingAppend, AheadAppend DEF InLine
<1>3. Between(tmcc', client, server) /\ Down(tmcc')
  BY <1>1, MarkerFree, BetweenAppend DEF InLine
<1> QED
  BY <1>2, <1>3 DEF InLine

\* A snapshot that is not of the server's state is of a component that changes.
LEMMA SnapOfStill ==
  ASSUME OnePipe, SyncTypeOK, Fresh, snap # <<>>, SnapshotVia[snap[1][1]] = "pdi"
  PROVE  snap[1][2] = server[snap[1][1]]
<1>1. Len(snap) = 1 /\ snap[1] \in Packets
  BY InSnap
<1>2. ~Holds(hand["tmcc"], <<snap[1][1], server[snap[1][1]]>>)
  <2>1. SUFFICES ASSUME NEW i \in 1 .. Len(hand["tmcc"]),
                        hand["tmcc"][i] = <<snap[1][1], server[snap[1][1]]>>
                 PROVE  FALSE
    BY DEF Holds
  <2>2. hand["tmcc"][i][1] = snap[1][1] /\ hand["tmcc"][i][1] \in Changes["tmcc"]
    BY <2>1 DEF Fresh
  <2> QED
    BY <2>2 DEF OnePipe
<1> QED
  BY <1>1, <1>2 DEF Fresh

LEMMA SendInLine ==
  ASSUME SyncAssumption, OnePipe, SyncTypeOK, SyncTypeOK', Fresh, InLine,
         NEW w \in Pipes, SyncSend(w)
  PROVE  InLine'
<1> DEFINE p == Head(hand["tmcc"])
<1>1. /\ p \in Packets /\ p[1] \in Changes["tmcc"] /\ p[2] = server[p[1]]
      /\ snap = <<>> /\ w = "tmcc"
  BY SendStep
<1>2. SnapshotVia[p[1]] = "tmcc"
  BY <1>1 DEF OnePipe
<1>3. p[1] \in Components /\ p[2] \in Nat
  BY <1>1, ItemParts DEF States
<1>4. p[2] \in client[p[1]] .. server[p[1]]
  BY <1>1, <1>3, Typed DEF InLine
<1>5. /\ \A i \in 1 .. Len(tmcc) : Rises(tmcc[i], p)
      /\ \A i \in 1 .. Len(raw) : Rises(raw[i], p)
  <2>1. ASSUME NEW q \in Seq(Items), Between(q, client, server), NEW i \in 1 .. Len(q),
               q[i] \in Packets, q[i][1] = p[1]
        PROVE  q[i][2] <= p[2]
    BY <1>1, <1>3, <2>1, Typed DEF Between
  <2> QED
    BY <2>1, Typed DEF Rises, InLine
<1>6. CASE joined
  <2>1. raw' = Append(raw, p) /\ snap' = <<>> /\ UNCHANGED <<tmcc, client, server>>
    BY <1>1, <1>6 DEF SyncSend, Registered, Arrive, syncingVars, clientVars
  <2> HIDE DEF p
  <2> QED
    BY <1>1, <1>2, <1>4, <1>5, <2>1, ArriveInLine
<1>7. CASE ~joined
  BY <1>7 DEF SyncSend, Registered, InLine, queueVars, syncingVars, clientVars
<1> QED
  BY <1>6, <1>7

LEMMA SnapshotInLine ==
  ASSUME SyncAssumption, OnePipe, SyncTypeOK, SyncTypeOK', Fresh, InLine, SnapshotSend
  PROVE  InLine'
<1> DEFINE p == snap[1]
<1>1. Len(snap) = 1 /\ p \in Packets /\ snap # <<>>
  BY InSnap DEF SnapshotSend, SyncTypeOK, SyncAssumption
<1>2. snap' = <<>> /\ UNCHANGED <<tmcc, client, server>>
  BY DEF SnapshotSend, Arrive, serverVars, clientVars
<1>3. CASE SnapshotVia[p[1]] = "tmcc"
  <2>1. raw' = Append(raw, p)
    BY <1>3 DEF SnapshotSend, Arrive
  <2>2. p[2] \in client[p[1]] .. server[p[1]]
    BY <1>1 DEF InLine, Between
  <2>3. /\ \A i \in 1 .. Len(tmcc) : Rises(tmcc[i], p)
        /\ \A i \in 1 .. Len(raw) : Rises(raw[i], p)
    BY <1>1 DEF InLine, Ahead
  <2> HIDE DEF p
  <2> QED
    BY <1>1, <1>2, <1>3, <2>1, <2>2, <2>3, ArriveInLine
<1>4. CASE SnapshotVia[p[1]] # "tmcc"
  <2>1. raw' = raw
    BY <1>4 DEF SnapshotSend, Arrive
  <2>2. Ahead(tmcc, snap') /\ Ahead(raw, snap') /\ Between(snap', client, server)
    BY <1>2, EmptyLine
  <2> QED
    BY <1>2, <2>1, <2>2 DEF InLine
<1> QED
  BY <1>3, <1>4

LEMMA ReadInLine ==
  ASSUME SyncAssumption, SyncTypeOK, InLine, NEW a \in Components, SnapshotRead(a)
  PROVE  InLine'
<1>1. snap' = <<<<a, server[a]>>>> /\ UNCHANGED <<tmcc, raw, client, server>>
  BY DEF SnapshotRead, queueVars, clientVars, serverVars
<1>2. Len(snap') = 1 /\ snap'[1] = <<a, server[a]>>
  BY <1>1
<1>3. client[a] <= server[a] /\ client[a] \in Nat /\ server[a] \in Nat
  BY Typed DEF InLine
<1>4. Between(snap', client, server)
  BY <1>2, <1>3 DEF Between
<1>5. ASSUME NEW q \in Seq(Items), Between(q, client, server)
      PROVE  Ahead(q, snap')
  <2>1. SUFFICES ASSUME NEW i \in 1 .. Len(q), q[i] \in Packets, q[i][1] = a
                 PROVE  q[i][2] <= server[a]
    BY <1>2 DEF Ahead, Rises
  <2>2. q[i][2] \in client[a] .. server[a]
    BY <1>5, <2>1 DEF Between
  <2> QED
    BY <1>3, <2>2
<1> QED
  BY <1>1, <1>4, <1>5, Typed DEF InLine

LEMMA ParseInLine ==
  ASSUME SyncAssumption, SyncTypeOK, InLine, Parse
  PROVE  InLine'
<1> DEFINE p == Head(raw)
<1>1. /\ raw # <<>> /\ raw' = Tail(raw) /\ tmcc' = Append(tmcc, p)
      /\ UNCHANGED <<snap, client, server>>
  BY DEF Parse, serverVars, syncingVars, clientVars
<1>2. tmcc \in Seq(Items) /\ raw \in Seq(Items) /\ snap \in Seq(Items) /\ raw' \in Seq(Items)
  BY <1>1, Typed, Taken
<1>3. p = raw[1] /\ p \in Packets /\ p \in Items /\ Len(raw) \in Nat /\ Len(raw) > 0
  BY <1>1, Typed, Taken
<1>4. Rising(raw') /\ Ahead(tmcc, raw') /\ Ahead(raw', snap)
      /\ Between(raw', client, server) /\ Down(raw')
  BY <1>1, <1>2, TailKeeps DEF InLine
<1>5. \A i \in 1 .. Len(tmcc) : Rises(tmcc[i], p)
  BY <1>3 DEF InLine, Ahead
<1>6. \A j \in 1 .. Len(snap) : Rises(p, snap[j])
  BY <1>3 DEF InLine, Ahead
<1>7. \A j \in 1 .. Len(raw') : Rises(p, raw'[j])
  <2>1. \A j \in 1 .. Len(raw') : raw'[j] = raw[j + 1] /\ j + 1 \in 1 .. Len(raw) /\ 1 < j + 1
    BY <1>1, <1>2, Taken
  <2> QED
    BY <1>3, <2>1 DEF InLine, Rising
<1>8. p[2] \in client[p[1]] .. server[p[1]] /\ SnapshotVia[p[1]] = "tmcc"
  BY <1>3 DEF InLine, Between, Down
<1> HIDE DEF p
<1>9. Rising(tmcc') /\ Ahead(tmcc', raw') /\ Ahead(tmcc', snap)
  BY <1>1, <1>2, <1>3, <1>4, <1>5, <1>6, <1>7, RisingAppend, AheadAppend DEF InLine
<1>10. Between(tmcc', client, server) /\ Down(tmcc')
  BY <1>1, <1>2, <1>3, <1>8, BetweenAppend DEF InLine
<1> QED
  BY <1>1, <1>4, <1>9, <1>10 DEF InLine

LEMMA DispatchInLine ==
  ASSUME SyncAssumption, SyncTypeOK, InLine, DispatchTmcc
  PROVE  InLine' /\ \A a \in Components : client'[a] >= client[a]
<1> DEFINE p == Head(tmcc)
<1>1. tmcc # <<>> /\ tmcc' = Tail(tmcc) /\ UNCHANGED <<raw, snap, server>>
  BY DEF DispatchTmcc, serverVars, syncingVars
<1>2. tmcc \in Seq(Items) /\ raw \in Seq(Items) /\ snap \in Seq(Items) /\ tmcc' \in Seq(Items)
  BY <1>1, Typed, Taken
<1>3. p = tmcc[1] /\ p \in Items /\ Len(tmcc) \in Nat /\ Len(tmcc) > 0
  BY <1>1, <1>2, Taken
<1>4. Rising(tmcc') /\ Ahead(tmcc', raw) /\ Ahead(tmcc', snap)
      /\ Between(tmcc', client, server) /\ Down(tmcc')
  BY <1>1, <1>2, TailKeeps DEF InLine
<1>5. CASE p \in {Begin, Complete}
  <2>1. client' = client
    BY <1>5 DEF DispatchTmcc
  <2> QED
    BY <1>1, <1>4, <2>1, Typed DEF InLine
<1>6. CASE p \notin {Begin, Complete}
  <2>1. p \in Packets /\ SyncStore(p)
    BY <1>3, <1>6 DEF DispatchTmcc, Items
  <2>2. /\ p[1] \in Components /\ p[2] \in Nat
        /\ p[2] \in client[p[1]] .. server[p[1]]
    BY <1>3, <2>1, ItemParts DEF InLine, Between, States
  <2>3. /\ \A j \in 1 .. Len(tmcc') : Rises(p, tmcc'[j])
        /\ \A j \in 1 .. Len(raw) : Rises(p, raw[j])
        /\ \A j \in 1 .. Len(snap) : Rises(p, snap[j])
    <3>1. \A j \in 1 .. Len(tmcc') : tmcc'[j] = tmcc[j + 1] /\ j + 1 \in 1 .. Len(tmcc) /\ 1 < j + 1
      BY <1>1, <1>2, Taken
    <3>2. \A j \in 1 .. Len(tmcc') : Rises(p, tmcc'[j])
      BY <1>3, <3>1 DEF InLine, Rising
    <3> QED
      BY <1>3, <3>2 DEF InLine, Ahead
  <2> HIDE DEF p
  <2>4. Between(tmcc', client', server)
    BY <1>2, <1>4, <2>1, <2>3, BetweenStore DEF Rises
  <2>5. Between(raw, client', server) /\ Between(snap, client', server)
    BY <1>2, <2>1, <2>3, BetweenStore DEF Rises, InLine
  <2>6. \A a \in Components : client'[a] <= server[a] /\ client'[a] >= client[a]
    BY <2>1, <2>2, Typed DEF SyncStore, InLine
  <2> QED
    BY <1>1, <1>4, <2>4, <2>5, <2>6 DEF InLine
<1> QED
  BY <1>5, <1>6

LEMMA PdiInLine ==
  ASSUME SyncAssumption, OnePipe, SyncTypeOK, Fresh, InLine, Still, DispatchPdi
  PROVE  InLine' /\ \A a \in Components : client'[a] >= client[a]
<1> DEFINE p == Head(pdi)
<1>1. SyncStore(p) /\ UNCHANGED <<tmcc, raw, snap, server>>
  BY DEF DispatchPdi, serverVars, syncingVars
<1>2. /\ p \in Packets /\ p[1] \in Components /\ p[2] \in Nat
      /\ p[2] = server[p[1]] /\ SnapshotVia[p[1]] = "pdi"
  <2>1. pdi \in Seq(Packets) /\ pdi # <<>>
    BY Typed DEF DispatchPdi
  <2>2. p = pdi[1] /\ p \in Packets /\ 1 \in 1 .. Len(pdi)
    BY <2>1, Taken
  <2> QED
    BY <2>2, ItemParts DEF Still, States
<1>3. /\ \A i \in 1 .. Len(tmcc) : tmcc[i] \in Packets => tmcc[i][1] # p[1]
      /\ \A i \in 1 .. Len(raw) : raw[i] \in Packets => raw[i][1] # p[1]
  <2>1. "pdi" # "tmcc"
    OBVIOUS
  <2> QED
    BY <1>2, <2>1 DEF InLine, Down
<1>4. \A i \in 1 .. Len(snap) : snap[i][1] = p[1] => p[2] <= snap[i][2]
  <2>1. SUFFICES ASSUME NEW i \in 1 .. Len(snap), snap[i][1] = p[1] PROVE snap[i][2] = p[2]
    BY <1>2
  <2>2. snap # <<>>
    BY Typed
  <2>3. i = 1
    <3>1. Len(snap) = 1
      BY <2>2, InSnap
    <3> QED
      BY <3>1
  <2> QED
    BY <1>2, <2>1, <2>2, <2>3, SnapOfStill
<1> HIDE DEF p
<1>5. /\ Between(tmcc, client', server) /\ Between(raw, client', server)
      /\ Between(snap, client', server)
  BY <1>1, <1>2, <1>3, <1>4, Typed, BetweenStore DEF InLine
<1>6. \A a \in Components : client'[a] <= server[a] /\ client'[a] >= client[a]
  BY <1>1, <1>2, Typed DEF SyncStore, InLine
<1> QED
  BY <1>1, <1>5, <1>6 DEF InLine

LEMMA InLineStep ==
  ASSUME SyncAssumption, OnePipe, SyncTypeOK, SyncTypeOK', Fresh, InLine, Still,
         [SyncNext]_clientSyncVars
  PROVE  InLine' /\ \A a \in Components : client'[a] >= client[a]
<1>1. CASE DispatchTmcc
  BY <1>1, DispatchInLine
<1>2. CASE DispatchPdi
  BY <1>2, PdiInLine
<1>3. CASE ServerStep \/ Register \/ Parse \/ UNCHANGED clientSyncVars
  <2>1. client' = client
    BY <1>3 DEF ServerStep, SyncSend, Apply, SyncBegin, SnapshotSend, SyncComplete, SnapshotRead,
                Register, Parse, clientVars, clientSyncVars
  <2>2. \A a \in Components : client'[a] >= client[a]
    BY <2>1, Typed
  <2>3. ASSUME NEW w \in Pipes, NEW a \in Changes[w], Apply(w, a) PROVE InLine'
    <3>1. server' \in [Components -> Nat] /\ \A b \in Components : server[b] <= server'[b]
      <4>1. server \in [Components -> Nat] /\ server' \in [Components -> Nat]
        BY SMTT(60), Typed DEF SyncTypeOK, States
      <4>2. /\ a \in Components /\ server'[a] = server[a] + 1
            /\ \A b \in Components : b # a => server'[b] = server[b]
        BY <2>3, ApplyStep
      <4> QED
        BY <4>1, <4>2
    <3>2. UNCHANGED <<tmcc, raw, snap, client>>
      BY <2>3 DEF Apply, syncingVars, queueVars, clientVars
    <3>3. /\ Between(tmcc, client, server') /\ Between(raw, client, server')
          /\ Between(snap, client, server')
      BY <3>1, Typed, BetweenWider DEF InLine
    <3>4. \A b \in Components : client[b] <= server'[b]
      BY <3>1, Typed DEF InLine
    <3> QED
      BY <3>2, <3>3, <3>4 DEF InLine
  <2>4. CASE SyncBegin
    <3>1. tmcc' = Append(tmcc, Begin) /\ UNCHANGED <<raw, snap, client, server>>
      BY <2>4 DEF SyncBegin, Mark, serverVars, clientVars
    <3> QED
      BY <2>2, <3>1, MarkInLine
  <2>5. CASE SyncComplete
    <3>1. tmcc' = Append(tmcc, Complete) /\ UNCHANGED <<raw, snap, client, server>>
      BY <2>5 DEF SyncComplete, Mark, serverVars, clientVars
    <3> QED
      BY <2>2, <3>1, MarkInLine
  <2>6. CASE Register \/ UNCHANGED clientSyncVars
    <3>1. UNCHANGED <<tmcc, raw, snap, client, server>>
      BY <2>6 DEF Register, clientSyncVars, serverVars, syncingVars, queueVars, clientVars
    <3> QED
      BY <2>2, <3>1 DEF InLine
  <2> QED
    BY <1>3, <2>2, <2>3, <2>4, <2>5, <2>6, SendInLine, SnapshotInLine, ReadInLine, ParseInLine
       DEF ServerStep
<1> QED
  BY <1>1, <1>2, <1>3 DEF SyncNext, ClientStep

-----------------------------------------------------------------------------
(* What is on its way                                                       *)

LEMMA StillStep ==
  ASSUME SyncAssumption, OnePipe, SyncTypeOK, Fresh, Still, [SyncNext]_clientSyncVars
  PROVE  Still'
<1>1. CASE DispatchPdi
  <2>1. pdi' = Tail(pdi) /\ pdi \in Seq(Packets) /\ pdi # <<>> /\ server' = server
    BY <1>1, Typed DEF DispatchPdi, serverVars
  <2> QED
    BY <2>1, Taken DEF Still
<1>2. ASSUME NEW w \in Pipes, SyncSend(w) PROVE Still'
  <2>1. w = "tmcc" /\ server' = server
    BY <1>2, SendStep DEF SyncSend
  <2>2. pdi' = pdi
    BY <1>2, <2>1 DEF SyncSend, Arrive, queueVars
  <2> QED
    BY <2>1, <2>2 DEF Still
<1>3. ASSUME NEW w \in Pipes, NEW a \in Changes[w], Apply(w, a) PROVE Still'
  <2>1. /\ SnapshotVia[a] = "tmcc" /\ pdi' = pdi
        /\ \A b \in Components : b # a => server'[b] = server[b]
    BY <1>3, ApplyStep DEF queueVars
  <2>2. \A i \in 1 .. Len(pdi) : pdi[i] \in Packets /\ pdi[i][1] \in Components
    BY Typed, ItemParts
  <2>3. "pdi" # "tmcc"
    OBVIOUS
  <2> QED
    BY <2>1, <2>2, <2>3 DEF Still
<1>4. CASE SnapshotSend
  <2>1. snap # <<>> /\ server' = server /\ pdi \in Seq(Packets) /\ snap[1] \in Packets
    BY <1>4, Typed, InSnap DEF SnapshotSend, SyncTypeOK, SyncAssumption, serverVars
  <2>2. CASE SnapshotVia[snap[1][1]] = "pdi"
    <3>1. pdi' = Append(pdi, snap[1])
      BY <1>4, <2>2 DEF SnapshotSend, Arrive
    <3>2. snap[1][2] = server[snap[1][1]]
      BY <2>1, <2>2, SnapOfStill
    <3>3. \A i \in 1 .. Len(pdi) + 1 : i \in 1 .. Len(pdi) \/ i = Len(pdi) + 1
      BY <2>1
    <3> QED
      BY <2>1, <2>2, <3>1, <3>2, <3>3, Appended DEF Still
  <2>3. CASE SnapshotVia[snap[1][1]] # "pdi"
    <3>1. pdi' = pdi
      BY <1>4, <2>3 DEF SnapshotSend, Arrive
    <3> QED
      BY <2>1, <3>1 DEF Still
  <2> QED
    BY <2>2, <2>3
<1>5. CASE \/ SyncBegin \/ SyncComplete \/ Register \/ Parse \/ DispatchTmcc
           \/ UNCHANGED clientSyncVars \/ \E a \in Components : SnapshotRead(a)
  <2>1. UNCHANGED <<pdi, server>>
    BY <1>5 DEF SyncBegin, SyncComplete, Mark, Register, Parse, DispatchTmcc, SnapshotRead,
                clientSyncVars, serverVars, queueVars
  <2> QED
    BY <2>1 DEF Still
<1> QED
  BY <1>1, <1>2, <1>3, <1>4, <1>5 DEF SyncNext, ServerStep, ClientStep

LEMMA HoldsAppend ==
  ASSUME NEW S, NEW q \in Seq(S), NEW p \in S, NEW r
  PROVE  Holds(q, r) \/ r = p => Holds(Append(q, p), r)
<1>1. Len(q) + 1 \in 1 .. Len(q) + 1 /\ \A i \in 1 .. Len(q) : i \in 1 .. Len(q) + 1
  BY Appended
<1> QED
  BY <1>1, Appended DEF Holds

LEMMA HoldsTail ==
  ASSUME NEW S, NEW q \in Seq(S), q # <<>>, NEW r, Holds(q, r)
  PROVE  r = Head(q) \/ Holds(Tail(q), r)
<1>1. PICK i \in 1 .. Len(q) : q[i] = r
  BY DEF Holds
<1>2. CASE i = 1
  BY <1>1, <1>2, Taken
<1>3. CASE i # 1
  <2>1. i - 1 \in 1 .. Len(Tail(q)) /\ Tail(q)[i - 1] = q[i]
    BY <1>1, <1>3, Taken
  <2> QED
    BY <1>1, <2>1 DEF Holds
<1> QED
  BY <1>2, <1>3

\* What is on its way to the client stays so while the server's state is the same.
LEMMA LatestStays ==
  ASSUME SyncAssumption, OnePipe, SyncTypeOK, SyncTypeOK', Counted, Fresh, InLine, Still,
         InLine', \A b \in Components : client'[b] >= client[b],
         syncs > 0, SyncNext, NEW a \in Components, Latest(a), server'[a] = server[a]
  PROVE  Latest(a)'
<1> DEFINE p == <<a, server[a]>>
<1>1. p \in Packets /\ p \in Items /\ p \notin {Begin, Complete}
  BY DEF Packets, Items, SyncTypeOK, SyncAssumption
<1>2. /\ tmcc \in Seq(Items) /\ raw \in Seq(Packets) /\ pdi \in Seq(Packets)
      /\ client[a] \in Nat /\ server[a] \in Nat /\ client'[a] \in Nat
  BY SMTT(60), Typed DEF SyncTypeOK, States
<1>3. client[a] = server[a] => client'[a] = server'[a]
  <2>1. client'[a] >= client[a] /\ client'[a] <= server'[a]
    BY DEF InLine
  <2> QED
    BY <1>2, <2>1
<1> SUFFICES ASSUME client[a] # server[a] PROVE Latest(a)'
  BY <1>3 DEF Latest
<1>4. Holds(tmcc, p) \/ Holds(raw, p) \/ Holds(pdi, p) \/ Holds(hand["tmcc"], p)
  BY DEF Latest
<1>5. CASE Parse
  <2>1. /\ raw # <<>> /\ raw' = Tail(raw) /\ tmcc' = Append(tmcc, Head(raw))
        /\ pdi' = pdi /\ hand' = hand /\ Head(raw) \in Packets /\ Head(raw) \in Items
    BY <1>2, <1>5, Taken, Typed DEF Parse, serverVars
  <2>2. Holds(raw, p) => Holds(raw', p) \/ Holds(tmcc', p)
    BY <1>2, <2>1, HoldsTail, HoldsAppend
  <2>3. Holds(tmcc, p) => Holds(tmcc', p)
    BY <1>2, <2>1, HoldsAppend
  <2> QED
    BY <1>4, <2>1, <2>2, <2>3 DEF Latest
<1>6. CASE DispatchTmcc
  <2>1. /\ tmcc # <<>> /\ tmcc' = Tail(tmcc) /\ UNCHANGED <<raw, pdi, hand>>
    BY <1>6 DEF DispatchTmcc, serverVars
  <2>2. ASSUME p = Head(tmcc) PROVE client'[a] = server[a]
    <3>1. SyncStore(p)
      BY <1>1, <1>6, <2>2 DEF DispatchTmcc
    <3> QED
      BY <3>1, Typed DEF SyncStore
  <2>3. Holds(tmcc, p) => p = Head(tmcc) \/ Holds(tmcc', p)
    BY <1>2, <2>1, HoldsTail
  <2> QED
    BY <1>4, <2>1, <2>2, <2>3 DEF Latest
<1>7. CASE DispatchPdi
  <2>1. /\ pdi # <<>> /\ pdi' = Tail(pdi) /\ UNCHANGED <<raw, tmcc, hand>>
    BY <1>7 DEF DispatchPdi, serverVars
  <2>2. p = Head(pdi) => client'[a] = server[a]
    BY <1>1, <1>2, <1>7, Typed DEF DispatchPdi, SyncStore
  <2>3. Holds(pdi, p) => p = Head(pdi) \/ Holds(pdi', p)
    BY <1>2, <2>1, HoldsTail
  <2> QED
    BY <1>4, <2>1, <2>2, <2>3 DEF Latest
<1>8. ASSUME NEW w \in Pipes, SyncSend(w) PROVE Latest(a)'
  <2>1. /\ raw' = Append(raw, Head(hand["tmcc"])) /\ Head(hand["tmcc"]) \in Packets
        /\ hand["tmcc"] = <<Head(hand["tmcc"])>> /\ UNCHANGED <<tmcc, pdi>>
    <3>1. /\ w = "tmcc" /\ Head(hand["tmcc"]) \in Packets
          /\ hand["tmcc"] = <<Head(hand["tmcc"])>>
      BY <1>8, SendStep
    <3>2. joined
      BY DEF Counted
    <3> QED
      BY <1>8, <3>1, <3>2 DEF SyncSend, Registered, Arrive
  <2>2. Holds(hand["tmcc"], p) => p = Head(hand["tmcc"])
    BY <2>1 DEF Holds
  <2>3. Holds(raw, p) \/ p = Head(hand["tmcc"]) => Holds(raw', p)
    BY <1>2, <2>1, HoldsAppend
  <2> QED
    BY <1>4, <2>1, <2>2, <2>3 DEF Latest
<1>9. CASE SnapshotSend
  <2>1. snap[1] \in Packets
    BY <1>9, InSnap DEF SnapshotSend, SyncTypeOK, SyncAssumption
  <2>2. /\ raw' = raw \/ raw' = Append(raw, snap[1])
        /\ pdi' = pdi \/ pdi' = Append(pdi, snap[1])
        /\ UNCHANGED <<tmcc, hand>>
    BY <1>9 DEF SnapshotSend, Arrive, serverVars
  <2> HIDE DEF p
  <2>3. /\ Holds(raw, p) => Holds(Append(raw, snap[1]), p)
        /\ Holds(pdi, p) => Holds(Append(pdi, snap[1]), p)
    BY <1>2, <2>1, HoldsAppend
  <2> QED
    <3>1. \/ Holds(tmcc', p) \/ Holds(raw', p) \/ Holds(pdi', p) \/ Holds(hand'["tmcc"], p)
      BY <1>4, <2>2, <2>3
    <3> QED
      BY <3>1 DEF Latest, p
<1>10. CASE SyncBegin \/ SyncComplete
  <2>1. PICK m \in {Begin, Complete} : tmcc' = Append(tmcc, m)
    BY <1>10 DEF SyncBegin, SyncComplete, Mark
  <2>2. UNCHANGED <<raw, pdi, hand>> /\ m \in Items
    BY <1>10 DEF SyncBegin, SyncComplete, Mark, serverVars, Items
  <2>3. Holds(tmcc, p) => Holds(tmcc', p)
    BY <1>2, <2>1, <2>2, HoldsAppend
  <2> QED
    BY <1>4, <2>2, <2>3 DEF Latest
<1>11. ASSUME NEW w \in Pipes, NEW b \in Changes[w], Apply(w, b) PROVE Latest(a)'
  <2>1. ~Holds(hand["tmcc"], p) /\ UNCHANGED <<tmcc, raw, pdi>>
    BY <1>11, ApplyStep DEF Holds, queueVars
  <2> QED
    BY <1>4, <2>1 DEF Latest
<1>12. CASE Register \/ \E b \in Components : SnapshotRead(b)
  <2>1. UNCHANGED <<tmcc, raw, pdi, hand>>
    BY <1>12 DEF Register, SnapshotRead, queueVars, serverVars
  <2> QED
    BY <1>4, <2>1 DEF Latest
<1> QED
  BY <1>5, <1>6, <1>7, <1>8, <1>9, <1>10, <1>11, <1>12 DEF SyncNext, ServerStep, ClientStep

LEMMA LoadedBefore ==
  ASSUME SyncAssumption, SyncTypeOK, Counted, SyncNext, NEW a \in Components, Loaded(a)'
  PROVE  \/ Loaded(a)
         \/ SnapshotSend /\ snap[1][1] = a
<1>1. syncs \in Nat /\ \A i \in 1 .. Len(<<>>) : FALSE
  BY DEF SyncTypeOK
<1>2. CASE SyncBegin
  <2>1. syncs > 0
    BY <1>1, <1>2 DEF SyncBegin, Loaded, SyncTypeOK
  <2> QED
    BY <1>2, <2>1 DEF Loaded, SyncBegin
<1>3. CASE SyncComplete
  BY <1>1, <1>3 DEF SyncComplete, Loaded, SyncTypeOK, SyncAssumption, Counted
<1>4. CASE SnapshotSend
  <2>1. Len(snap) = 1
    BY <1>4, InSnap DEF SnapshotSend, SyncTypeOK, SyncAssumption
  <2> QED
    BY <1>4, <2>1 DEF SnapshotSend, Loaded
<1>5. ASSUME NEW b \in Components, SnapshotRead(b) PROVE Loaded(a)
  <2>1. /\ snap = <<>> /\ snap' = <<<<b, server[b]>>>> /\ todo' = todo \ {b}
        /\ syncs' = syncs /\ syncing' = syncing
    BY <1>5 DEF SnapshotRead, SyncTypeOK, SyncAssumption
  <2>2. Len(snap') = 1 /\ snap'[1] = <<b, server[b]>> /\ 1 \in 1 .. Len(snap')
    BY <2>1
  <2> QED
    BY <1>1, <2>1, <2>2 DEF Loaded
<1>6. CASE ClientStep \/ \E w \in Pipes : SyncSend(w) \/ \E b \in Changes[w] : Apply(w, b)
  <2>1. UNCHANGED syncingVars
    BY <1>6 DEF ClientStep, Register, Parse, DispatchTmcc, DispatchPdi, SyncSend, Apply
  <2> QED
    BY <2>1 DEF syncingVars, Loaded
<1> QED
  BY <1>2, <1>3, <1>4, <1>5, <1>6 DEF SyncNext, ServerStep

\* A snapshot that is sent is the newest state, or the newest is in hand.
LEMMA SnapshotIsLatest ==
  ASSUME SyncAssumption, SyncTypeOK, Fresh, SnapshotSend, NEW a, a = snap[1][1]
  PROVE  Latest(a)'
<1> DEFINE p == snap[1]
<1>1. Len(snap) = 1 /\ p \in Packets
  BY InSnap DEF SnapshotSend, SyncTypeOK, SyncAssumption
<1>2. /\ p = <<p[1], p[2]>> /\ SnapshotVia[p[1]] \in Pipes
      /\ raw \in Seq(Packets) /\ pdi \in Seq(Packets)
  BY <1>1, ItemParts, Typed DEF SyncAssumption
<1>3. p[2] = server[p[1]] \/ Holds(hand["tmcc"], <<p[1], server[p[1]]>>)
  BY <1>1 DEF Fresh
<1>4. UNCHANGED <<server, hand>>
  BY DEF SnapshotSend, serverVars
<1>5. CASE Holds(hand["tmcc"], <<p[1], server[p[1]]>>)
  BY <1>4, <1>5 DEF Latest
<1>6. CASE p[2] = server[p[1]]
  <2>1. raw' = Append(raw, p) \/ pdi' = Append(pdi, p)
    BY <1>2 DEF SnapshotSend, Arrive, Pipes
  <2> HIDE DEF p
  <2>2. Holds(Append(raw, p), p) /\ Holds(Append(pdi, p), p)
    BY <1>1, <1>2, HoldsAppend
  <2>3. Holds(raw', p) \/ Holds(pdi', p)
    BY <2>1, <2>2
  <2> QED
    BY <1>2, <1>4, <1>6, <2>3 DEF Latest, p
<1> QED
  BY <1>3, <1>5, <1>6

LEMMA OnItsWayStep ==
  ASSUME SyncAssumption, OnePipe, SyncInvariant, SyncTypeOK', InLine',
         \A b \in Components : client'[b] >= client[b], [SyncNext]_clientSyncVars
  PROVE  OnItsWay'
<1> USE DEF SyncInvariant
<1>1. CASE UNCHANGED clientSyncVars
  BY <1>1 DEF clientSyncVars, serverVars, syncingVars, queueVars, clientVars,
              OnItsWay, Loaded, Latest, Holds
<1>2. CASE SyncNext
  <2> SUFFICES ASSUME NEW a \in Components, Loaded(a)' PROVE Latest(a)'
    BY DEF OnItsWay
  <2>1. CASE SnapshotSend /\ snap[1][1] = a
    BY <2>1, SnapshotIsLatest
  <2>2. CASE Loaded(a)
    <3>1. syncs > 0 /\ Latest(a)
      BY <2>2 DEF Loaded, OnItsWay
    <3>2. CASE server'[a] = server[a]
      BY <1>2, <3>1, <3>2, LatestStays
    <3>3. CASE server'[a] # server[a]
      <4>1. PICK w \in Pipes : \E b \in Changes[w] : Apply(w, b)
        BY <1>2, <3>3 DEF SyncNext, ServerStep, ClientStep, SyncSend, SyncBegin, SnapshotSend,
                          SyncComplete, SnapshotRead, Register, Parse, DispatchTmcc,
                          DispatchPdi, serverVars
      <4>2. PICK b \in Changes[w] : Apply(w, b)
        BY <4>1
      <4>3. b = a /\ hand' = [hand EXCEPT !["tmcc"] = <<<<b, server'[b]>>>>]
        BY <3>3, <4>2, ApplyStep
      <4>4. hand'["tmcc"] = <<<<a, server'[a]>>>>
        BY <4>3 DEF SyncTypeOK, Pipes
      <4>5. Holds(hand'["tmcc"], <<a, server'[a]>>)
        BY <4>4 DEF Holds
      <4> QED
        BY <4>5 DEF Latest
    <3> QED
      BY <3>2, <3>3
  <2> QED
    BY <1>2, <2>1, <2>2, LoadedBefore
<1> QED
  BY <1>1, <1>2

-----------------------------------------------------------------------------
(* The theorems                                                             *)

LEMMA SyncInvariantInit == SyncAssumption /\ SyncInit => SyncInvariant
<1> SUFFICES ASSUME SyncAssumption, SyncInit PROVE SyncInvariant
  OBVIOUS
<1>1. SyncTypeOK
  <2>1. <<>> \in Seq(Packets) /\ <<>> \in Seq(Packets \union {Begin, Complete}) /\ Len(<<>>) = 0
    OBVIOUS
  <2>2. 0 \in States /\ 1 \in States /\ 0 \in 0 .. MaxUpdates /\ 0 \in 0 .. MaxSyncs
    BY DEF SyncAssumption, States
  <2>3. server \in [Components -> States] /\ client \in [Components -> States]
    BY <2>2 DEF SyncInit
  <2>4. hand \in [Pipes -> Seq(Packets)] /\ \A w \in Pipes : Len(hand[w]) <= 1
    BY <2>1 DEF SyncInit
  <2>5. /\ updates = 0 /\ syncs = 0 /\ joined = FALSE /\ syncing = FALSE /\ clientSynced = FALSE
        /\ clientLock = NoSender /\ snap = <<>> /\ todo = {}
        /\ raw = <<>> /\ pdi = <<>> /\ tmcc = <<>>
    BY DEF SyncInit
  <2>6. joined \in BOOLEAN /\ syncing \in BOOLEAN /\ clientSynced \in BOOLEAN
    BY <2>5
  <2>7. /\ updates \in 0 .. MaxUpdates /\ syncs \in 0 .. MaxSyncs
        /\ clientLock = IF snap = <<>> THEN NoSender ELSE Syncer
    BY <2>2, <2>5
  <2>8. /\ snap \in Seq(Packets) /\ Len(snap) <= 1 /\ todo \subseteq Components
        /\ raw \in Seq(Packets) /\ pdi \in Seq(Packets)
        /\ tmcc \in Seq(Packets \union {Begin, Complete})
    BY <2>1, <2>5
  <2> QED
    BY <2>3, <2>4, <2>6, <2>7, <2>8 DEF SyncTypeOK
<1>2. Counted
  BY DEF SyncInit, Counted
<1>3. Fresh /\ Still
  BY DEF SyncInit, Fresh, Still, Pipes
<1>4. InLine
  BY EmptyLine DEF SyncInit, InLine
<1>5. OnItsWay
  BY DEF SyncInit, OnItsWay, Loaded
<1> QED
  BY <1>1, <1>2, <1>3, <1>4, <1>5 DEF SyncInvariant

LEMMA SyncInvariantStep ==
  ASSUME SyncAssumption, OnePipe, SyncInvariant, [SyncNext]_clientSyncVars
  PROVE  SyncInvariant' /\ \A a \in Components : client'[a] >= client[a]
<1> USE DEF SyncInvariant
<1>1. SyncTypeOK' /\ Counted'
  BY SyncTypeStep
<1>2. Fresh' /\ Still'
  BY FreshStep, StillStep
<1>3. InLine' /\ \A a \in Components : client'[a] >= client[a]
  BY <1>1, InLineStep
<1>4. OnItsWay'
  BY <1>1, <1>3, OnItsWayStep
<1> QED
  BY <1>1, <1>2, <1>3, <1>4

LEMMA SyncInvariantHolds ==
  ASSUME OnePipe
  PROVE  SyncSpec => []SyncInvariant
<1>1. SyncInit => SyncInvariant
  BY SyncInvariantInit, SyncAssumption
<1>2. SyncInvariant /\ [SyncNext]_clientSyncVars => SyncInvariant'
  BY SyncInvariantStep, SyncAssumption
<1> QED
  BY <1>1, <1>2, PTL DEF SyncSpec

\* The fields of the two pipelines, of the snapshot and of the client keep their types.
THEOREM SyncTypeCorrect == SyncSpec => []SyncTypeOK
<1>1. SyncInit => SyncTypeOK /\ Counted
  BY SyncInvariantInit, SyncAssumption DEF SyncInvariant
<1>2. SyncTypeOK /\ Counted /\ [SyncNext]_clientSyncVars => (SyncTypeOK /\ Counted)'
  BY SyncTypeStep, SyncAssumption
<1> QED
  BY <1>1, <1>2, PTL DEF SyncSpec

\* While the server lives, a client that has loaded and has nothing on its way has the
\* server's state, for any components and changes, if one pipeline carries all that is
\* said of a component (ComponentStateStore and CommandDispatcher._client_lock).
THEOREM ClientsConverge ==
  ASSUME OnePipe
  PROVE  SyncSpec => []ClientConverges
<1>1. SyncInvariant => ClientConverges
  <2> SUFFICES ASSUME SyncInvariant, SyncQuiet PROVE client = server
    BY DEF ClientConverges
  <2>1. ASSUME NEW a \in Components PROVE client[a] = server[a]
    <3>1. Loaded(a)
      BY DEF SyncQuiet, Loaded
    <3>2. \A p : ~Holds(<<>>, p)
      BY DEF Holds
    <3> QED
      BY <3>1, <3>2 DEF SyncInvariant, OnItsWay, Latest, SyncQuiet, Pipes
  <2> QED
    BY <2>1 DEF SyncInvariant, SyncTypeOK
<1> QED
  BY <1>1, SyncInvariantHolds, PTL

\* Under the same condition a client never replaces a state by an older one: neither an
\* update by a snapshot read before it, nor the reverse (send_current_state).
THEOREM ClientsNeverGoBack ==
  ASSUME OnePipe
  PROVE  SyncSpec => ClientNeverGoesBack
<1>1. SyncInvariant /\ [SyncNext]_clientSyncVars
        => [\A a \in Components : client'[a] >= client[a]]_clientSyncVars
  BY SyncInvariantStep, SyncAssumption
<1> QED
  BY <1>1, SyncInvariantHolds, PTL DEF SyncSpec, ClientNeverGoesBack

-----------------------------------------------------------------------------
(* The server: the synchronization with the Base (StartupState)              *)

USE DEF threadVars, callbackVars, syncVars, limits

LEMMA OpeningType == Opening \in Seq(Requests) /\ Opening # <<>>
<1> DEFINE counts == IF NoD4 THEN <<>> ELSE <<Count("D4_ENGINE"), Count("D4_TRAIN")>>
           firsts == [i \in 1 .. Len(Rosters) |-> Memory(Rosters[i], 1)]
<1>1. counts \in Seq(Requests)
  <2>1. Count("D4_ENGINE") \in Requests /\ Count("D4_TRAIN") \in Requests
    BY DEF Requests, Kinds, Count
  <2>2. <<Count("D4_ENGINE"), Count("D4_TRAIN")>> \in Seq(Requests)
    BY <2>1
  <2>3. <<>> \in Seq(Requests)
    OBVIOUS
  <2> QED
    BY <2>2, <2>3
<1>2. Len(Rosters) \in Nat /\ Len(Rosters) > 0
  BY StartupAssumption DEF Scopes
<1>3. \A i \in 1 .. Len(Rosters) : Memory(Rosters[i], 1) \in Requests
  BY StartupAssumption DEF Requests, Scopes, Memory
<1>4. firsts \in Seq(Requests) /\ Len(firsts) = Len(Rosters)
  BY <1>2, <1>3
<1>5. Opening = counts \o firsts
  BY DEF Opening
<1> HIDE DEF counts, firsts
<1>6. Len(counts \o firsts) = Len(counts) + Len(firsts) /\ Len(counts) \in Nat
  BY <1>1, <1>4
<1> QED
  BY <1>1, <1>2, <1>4, <1>5, <1>6

\* What a packet makes the callback ask for are requests.
LEMMA FollowType ==
  ASSUME NEW r \in Requests \union {Stray}
  PROVE  Follow(r) \subseteq Requests
<1> USE StartupAssumption
<1>1. r.action = "memory" /\ r.no < LastNo => Memory(r.of, r.no + 1) \in Requests
  BY DEF Requests, Memory, Stray
<1>2. r.action = "count" => FirstRec(r.of) \in Requests
  BY DEF Requests, FirstRec, Stray
<1>3. r.action \in {"first", "next"} => Onward(r.of, r.no) \subseteq Requests
  <2>1. r.action \in {"first", "next"} => r.of \in Kinds /\ r.no \in Nat
    BY DEF Requests, Stray
  <2>2. \A k \in Kinds, n \in Nat : Query(k, n + 1) \in Requests /\ NextRec(k, n + 1) \in Requests
    BY DEF Requests, Query, NextRec
  <2> QED
    BY <2>1, <2>2 DEF Onward
<1>4. FirstRec("D4_TRAIN") \in Requests
  BY DEF Requests, FirstRec, Kinds
<1> QED
  BY <1>1, <1>2, <1>3, <1>4 DEF Follow

LEMMA TypeInit == Init => TypeOK
<1> SUFFICES ASSUME Init PROVE TypeOK
  OBVIOUS
<1>1. unasked \in Seq(Requests) /\ unasked # <<>>
  BY OpeningType DEF Init
<1>2. offered \in Seq({"SYNCHRONIZING", "SYNCHRONIZED"})
  BY DEF Init
<1>3. strays \in 0 .. MaxStrays /\ lost \in 0 .. MaxLost
  BY StartupAssumption DEF Init
<1> QED
  BY <1>1, <1>2, <1>3 DEF Init, TypeOK

LEMMA TypeStep == TypeOK /\ [Next]_vars => TypeOK'
<1> SUFFICES ASSUME TypeOK, [Next]_vars PROVE TypeOK'
  OBVIOUS
<1> USE StartupAssumption DEF TypeOK
<1>1. CASE Subscribe
  BY <1>1 DEF Subscribe
<1>2. CASE Ask
  <2>1. /\ Head(unasked) \in Requests /\ Tail(unasked) \in Seq(Requests)
        /\ Len(unasked) # 1 => Tail(unasked) # <<>>
    <3>1. unasked \in Seq(Requests) /\ unasked # <<>>
      BY <1>2 DEF Ask
    <3>2. Head(unasked) \in Requests /\ Tail(unasked) \in Seq(Requests)
      BY <3>1
    <3>3. Len(Tail(unasked)) = Len(unasked) - 1 /\ Len(unasked) \in Nat \ {0}
      BY <3>1
    <3>4. Len(unasked) # 1 => Len(Tail(unasked)) # 0
      BY <3>3
    <3>5. ASSUME NEW q, q = <<>> PROVE Len(q) = 0
      BY <3>5
    <3> QED
      BY <3>2, <3>4, <3>5
  <2> QED
    BY <1>2, <2>1 DEF Ask
<1>3. CASE Poll
  BY <1>3 DEF Poll
<1>4. CASE ForceComplete
  <2>1. offered' \in Seq({"SYNCHRONIZING", "SYNCHRONIZED"})
    BY <1>4 DEF ForceComplete
  <2> QED
    BY <1>4, <2>1 DEF ForceComplete
<1>5. CASE Timeout
  BY <1>5 DEF Timeout
<1>6. CASE Unsubscribe
  BY <1>6 DEF Unsubscribe
<1>7. ASSUME NEW r \in asked, Receive(r) PROVE TypeOK'
  BY <1>7 DEF Receive, Idle
<1>8. ASSUME NEW r \in asked, Lose(r) PROVE TypeOK'
  BY <1>8 DEF Lose
<1>9. ASSUME NEW r \in handling, React(r) PROVE TypeOK'
  <2>1. r \in Requests \union {Stray}
    OBVIOUS
  <2>2. Follow(r) \subseteq Requests
    BY <2>1, FollowType
  <2>3. DeferAfter(r) \in BOOLEAN /\ Completes(r) \in BOOLEAN
    BY DEF DeferAfter, Completes
  <2>4. offered' \in Seq({"SYNCHRONIZING", "SYNCHRONIZED"})
    BY <1>9 DEF React
  <2> QED
    BY <1>9, <2>1, <2>2, <2>3, <2>4 DEF React, Expected
<1>10. CASE Store
  BY <1>10 DEF Store
<1>11. CASE ReceiveStray
  BY <1>11 DEF ReceiveStray, Idle
<1>12. CASE Publish
  BY <1>12 DEF Publish
<1>13. CASE Return
  BY <1>13 DEF Return
<1>14. CASE UNCHANGED vars
  BY <1>14 DEF vars
<1> QED
  BY <1>1, <1>2, <1>3, <1>4, <1>5, <1>6, <1>7, <1>8, <1>9, <1>10, <1>11, <1>12, <1>13, <1>14 DEF Next
\* Types, for any rosters and options, and one packet at a time in the callback.
THEOREM TypeCorrect == Spec => []TypeOK
<1>1. Init => TypeOK
  BY TypeInit
<1>2. TypeOK /\ [Next]_vars => TypeOK'
  BY TypeStep
<1> QED
  BY <1>1, <1>2, PTL DEF Spec

\* A request on its way to the Base, or lost, is in _waiting_for: every request is
\* entered there before it is sent and leaves it when it is answered.
THEOREM RequestsAreExpected == Spec => []OutstandingIsExpected
<1>1. Init => OutstandingIsExpected
  BY DEF Init, OutstandingIsExpected
<1>2. OutstandingIsExpected /\ [Next]_vars => OutstandingIsExpected'
  <2> SUFFICES ASSUME OutstandingIsExpected, [Next]_vars PROVE OutstandingIsExpected'
    OBVIOUS
  <2> USE DEF OutstandingIsExpected
  <2>1. CASE Ask
    BY <2>1 DEF Ask
  <2>2. ASSUME NEW r \in asked, Receive(r) PROVE OutstandingIsExpected'
    BY <2>2 DEF Receive
  <2>3. ASSUME NEW r \in asked, Lose(r) PROVE OutstandingIsExpected'
    BY <2>3 DEF Lose
  <2>4. ASSUME NEW r \in handling, React(r) PROVE OutstandingIsExpected'
    BY <2>4 DEF React, Expected
  <2>5. CASE Subscribe \/ Poll \/ ForceComplete \/ Timeout \/ Unsubscribe
    BY <2>5 DEF Subscribe, Poll, ForceComplete, Timeout, Unsubscribe
  <2>6. CASE Store \/ ReceiveStray \/ Publish \/ Return \/ UNCHANGED vars
    BY <2>6 DEF Store, ReceiveStray, Publish, Return, vars
  <2> QED
    BY <2>1, <2>2, <2>3, <2>4, <2>5, <2>6 DEF Next
<1> QED
  BY <1>1, <1>2, PTL DEF Spec

-----------------------------------------------------------------------------
(* The caller returns with the trains                                       *)

\* The rosters are read one record after the other: a record is asked for when the
\* ones before it have been answered, and handled when they have been stored.
AskedInOrder ==
  \A s \in Scopes, n \in 1 .. LastNo : Memory(s, n) \in asked =>
    \A m \in 1 .. n - 1 : Memory(s, m) \in storing \union stored

StoredInOrder ==
  \A s \in Scopes, n \in 1 .. LastNo : Memory(s, n) \in Known =>
    \A m \in 1 .. n - 1 : Memory(s, m) \in stored

OpeningIsFirst ==
  \A i \in 1 .. Len(unasked) : unasked[i].action = "memory" => unasked[i].no = 1

\* The synchronization is complete when it was forced or the last train has been
\* handled, and nothing tells the caller so before.
CompleteMeansTrains ==
  complete /\ showElapsed => Memory(TrainScope, LastNo) \in storing \union stored

ToldMeansComplete ==
  /\ \A i \in 1 .. Len(offered) : offered[i] = "SYNCHRONIZED" => complete
  /\ synced \/ caller = "returned" => complete

Inv ==
  TypeOK /\ AskedInOrder /\ StoredInOrder /\ OpeningIsFirst
    /\ CompleteMeansTrains /\ ToldMeansComplete

LEMMA InvImpliesProperty == Inv => ReturnsWithTrains
<1> SUFFICES ASSUME Inv, caller = "returned", showElapsed
             PROVE  /\ \A n \in 1 .. LastNo - 1 : Memory(TrainScope, n) \in stored
                    /\ Memory(TrainScope, LastNo) \in storing \union stored
  BY DEF ReturnsWithTrains
<1>1. Memory(TrainScope, LastNo) \in storing \union stored
  BY DEF Inv, ToldMeansComplete, CompleteMeansTrains
<1>2. LastNo \in 1 .. LastNo /\ TrainScope \in Scopes
  BY StartupAssumption
<1> QED
  BY <1>1, <1>2 DEF Inv, StoredInOrder, Known

LEMMA InvInit == Init => Inv
<1> SUFFICES ASSUME Init PROVE Inv
  OBVIOUS
<1>1. TypeOK
  BY TypeInit
<1>2. OpeningIsFirst
  <2> DEFINE counts == IF NoD4 THEN <<>> ELSE <<Count("D4_ENGINE"), Count("D4_TRAIN")>>
             firsts == [i \in 1 .. Len(Rosters) |-> Memory(Rosters[i], 1)]
             Opens(r) == r.action = "memory" => r.no = 1
  <2>1. counts \in Seq(Requests) /\ firsts \in Seq(Requests)
    <3>1. Count("D4_ENGINE") \in Requests /\ Count("D4_TRAIN") \in Requests
      BY DEF Requests, Kinds, Count
    <3>2. <<Count("D4_ENGINE"), Count("D4_TRAIN")>> \in Seq(Requests) /\ <<>> \in Seq(Requests)
      BY <3>1
    <3>3. \A i \in 1 .. Len(Rosters) : Memory(Rosters[i], 1) \in Requests
      BY StartupAssumption DEF Requests, Scopes, Memory
    <3>4. Len(Rosters) \in Nat
      BY StartupAssumption
    <3> QED
      BY <3>2, <3>3, <3>4
  <2>2. \A i \in 1 .. Len(counts) : Opens(counts[i])
    BY DEF Count
  <2>3. \A i \in 1 .. Len(firsts) : Opens(firsts[i])
    BY StartupAssumption DEF Memory
  <2> HIDE DEF counts, firsts, Opens
  <2>4. \A i \in 1 .. Len(counts \o firsts) : Opens((counts \o firsts)[i])
    BY <2>1, <2>2, <2>3
  <2>5. unasked = counts \o firsts
    BY DEF Init, Opening, counts, firsts
  <2> QED
    BY <2>4, <2>5 DEF OpeningIsFirst, Opens
<1>3. ToldMeansComplete
  BY DEF Init, ToldMeansComplete
<1> QED
  BY <1>1, <1>2, <1>3 DEF Init, Inv, AskedInOrder, StoredInOrder, Known, CompleteMeansTrains

LEMMA InvStep == Inv /\ [Next]_vars => Inv'
<1> SUFFICES ASSUME Inv, [Next]_vars PROVE Inv'
  OBVIOUS
<1> USE DEF Inv, Known
<1>1. TypeOK'
  BY TypeStep
<1>2. AskedInOrder'
  <2> SUFFICES ASSUME NEW s \in Scopes, NEW n \in 1 .. LastNo, Memory(s, n) \in asked',
                      NEW m \in 1 .. n - 1
               PROVE  Memory(s, m) \in storing' \union stored'
    BY DEF AskedInOrder
  <2>1. storing \union stored \subseteq storing' \union stored'
    <3>1. ASSUME NEW r \in handling, React(r) PROVE storing = {}
      BY DEF TypeOK
    <3>2. ASSUME NEW r \in asked, Receive(r) PROVE storing = {}
      BY <3>2 DEF Receive, Idle
    <3> QED
      BY <3>1, <3>2 DEF Next, vars, Subscribe, Ask, Poll, ForceComplete, Timeout, Unsubscribe,
         Receive, Lose, React, Store, ReceiveStray, Publish, Return
  <2>2. CASE Memory(s, n) \in asked
    BY <2>1, <2>2 DEF AskedInOrder
  <2>3. CASE Ask /\ Memory(s, n) = Head(unasked)
    <3>1. unasked[1] = Memory(s, n) /\ 1 \in 1 .. Len(unasked)
      <4>1. unasked # <<>> /\ unasked \in Seq(Requests)
        BY <2>3 DEF Ask, TypeOK
      <4> QED
        BY <2>3, <4>1
    <3>2. n = 1
      BY <3>1 DEF OpeningIsFirst, Memory
    <3> QED
      BY <3>2
  <2>4. ASSUME NEW r \in handling, React(r), Memory(s, n) \in Follow(r)
        PROVE  Memory(s, m) \in storing' \union stored'
    <3>1. r \in Requests \union {Stray}
      BY DEF TypeOK
    <3>2. r.action = "memory" /\ s = r.of /\ n = r.no + 1
      BY <2>4 DEF Follow, Onward, Memory, FirstRec, Query, NextRec
    <3>3. r = Memory(s, n - 1) /\ n - 1 \in 1 .. LastNo
      BY <3>1, <3>2, StartupAssumption DEF Requests, Memory, Stray
    <3>4. \A l \in 1 .. n - 2 : Memory(s, l) \in stored
      BY <2>4, <3>3, StartupAssumption DEF StoredInOrder
    <3>5. m = n - 1 \/ m \in 1 .. n - 2
      BY StartupAssumption
    <3> QED
      BY <2>4, <3>3, <3>4, <3>5 DEF React
  <2>5. \/ Memory(s, n) \in asked
        \/ Ask /\ Memory(s, n) = Head(unasked)
        \/ \E r \in handling : React(r) /\ Memory(s, n) \in Follow(r)
    BY DEF Next, vars, Subscribe, Ask, Poll, ForceComplete, Timeout, Unsubscribe,
       Receive, Lose, React, Store, ReceiveStray, Publish, Return
  <2> QED
    BY <2>2, <2>3, <2>4, <2>5
<1>3. StoredInOrder'
  <2> SUFFICES ASSUME NEW s \in Scopes, NEW n \in 1 .. LastNo, Memory(s, n) \in Known',
                      NEW m \in 1 .. n - 1
               PROVE  Memory(s, m) \in stored'
    BY DEF StoredInOrder
  <2>1. stored \subseteq stored'
    BY DEF Next, vars, Subscribe, Ask, Poll, ForceComplete, Timeout, Unsubscribe,
       Receive, Lose, React, Store, ReceiveStray, Publish, Return
  <2>2. CASE Memory(s, n) \in Known
    BY <2>1, <2>2 DEF StoredInOrder
  <2>3. ASSUME NEW r \in asked, Receive(r), Memory(s, n) = r
        PROVE  Memory(s, m) \in stored'
    <3>1. Memory(s, m) \in storing \union stored
      BY <2>3 DEF AskedInOrder
    <3> QED
      BY <2>1, <2>3, <3>1 DEF Receive, Idle
  <2>4. Memory(s, n) # Stray
    BY DEF Memory, Stray
  <2>5. \/ Memory(s, n) \in Known
        \/ \E r \in asked : Receive(r) /\ Memory(s, n) = r
    BY <2>4 DEF Next, vars, Subscribe, Ask, Poll, ForceComplete, Timeout, Unsubscribe,
       Receive, Lose, React, Store, ReceiveStray, Publish, Return
  <2> QED
    BY <2>2, <2>3, <2>5
<1>4. OpeningIsFirst'
  <2>1. CASE Ask
    <3>1. unasked # <<>> /\ unasked \in Seq(Requests)
      BY <2>1 DEF Ask, TypeOK
    <3>2. \A i \in 1 .. Len(Tail(unasked)) :
            Tail(unasked)[i] = unasked[i + 1] /\ i + 1 \in 1 .. Len(unasked)
      BY <3>1
    <3> QED
      BY <2>1, <3>2 DEF OpeningIsFirst, Ask
  <2>2. CASE UNCHANGED unasked
    BY <2>2 DEF OpeningIsFirst
  <2> QED
    BY <2>1, <2>2 DEF Next, vars, Subscribe, Poll, ForceComplete, Timeout, Unsubscribe,
       Receive, Lose, React, Store, ReceiveStray, Publish, Return
<1>5. CompleteMeansTrains'
  <2>1. ASSUME NEW r \in handling, React(r) PROVE CompleteMeansTrains'
    <3>1. storing = {} /\ r \in Requests \union {Stray}
      BY DEF TypeOK
    <3>2. Completes(r) => r = Memory(TrainScope, LastNo)
      BY <3>1 DEF Completes, Requests, Memory, Stray
    <3> QED
      BY <2>1, <3>1, <3>2 DEF CompleteMeansTrains, React
  <2>2. ASSUME NEW r \in asked, Receive(r) PROVE CompleteMeansTrains'
    BY <2>2 DEF CompleteMeansTrains, Receive, Idle
  <2>3. CASE Store
    BY <2>3 DEF CompleteMeansTrains, Store
  <2>4. CASE ForceComplete
    BY <2>4 DEF CompleteMeansTrains, ForceComplete
  <2>5. CASE UNCHANGED <<complete, showElapsed, storing, stored>>
    BY <2>5 DEF CompleteMeansTrains
  <2> QED
    BY <2>1, <2>2, <2>3, <2>4, <2>5 DEF Next, vars, Subscribe, Ask, Poll, Timeout, Unsubscribe,
       Lose, ReceiveStray, Publish, Return
<1>6. ToldMeansComplete'
  <2>1. ASSUME NEW r \in handling, React(r) PROVE ToldMeansComplete'
    BY <2>1 DEF ToldMeansComplete, React, TypeOK
  <2>2. CASE ForceComplete
    BY <2>2 DEF ToldMeansComplete, ForceComplete
  <2>3. CASE Publish
    <3>1. /\ offered[1] = Head(offered) /\ 1 \in 1 .. Len(offered)
          /\ \A i \in 1 .. Len(Tail(offered)) :
               Tail(offered)[i] = offered[i + 1] /\ i + 1 \in 1 .. Len(offered)
      <4>1. offered # <<>> /\ offered \in Seq({"SYNCHRONIZING", "SYNCHRONIZED"})
        BY <2>3 DEF Publish, TypeOK
      <4> QED
        BY <4>1
    <3> QED
      BY <2>3, <3>1 DEF ToldMeansComplete, Publish
  <2>4. CASE Return
    BY <2>4 DEF ToldMeansComplete, Return
  <2>5. CASE UNCHANGED <<offered, synced, caller, complete>>
    BY <2>5 DEF ToldMeansComplete
  <2> QED
    BY <2>1, <2>2, <2>3, <2>4, <2>5 DEF Next, vars, Subscribe, Ask, Poll, Timeout, Unsubscribe,
       Receive, Lose, Store, ReceiveStray
<1> QED
  BY <1>1, <1>2, <1>3, <1>4, <1>5, <1>6

\* When the wait for the roster returns without being forced, every train the Base
\* has is stored, but perhaps the last, which is being published: for any rosters,
\* any number of records, stray packets and lost requests.
THEOREM CallerReturnsWithTrains == Spec => []ReturnsWithTrains
<1>1. Inv /\ [Next]_vars => Inv'
  BY InvStep
<1> QED
  BY InvInit, <1>1, InvImpliesProperty, PTL DEF Spec

-----------------------------------------------------------------------------
(* The 4-digit trains follow the 4-digit engines                            *)

Sent == asked \union Known        \* every request made so far, but the lost ones
Met(n) == Query("D4_ENGINE", n) \in waiting \union Known

\* The record after another is asked for together with the query of what it names.
EnginesInOrder ==
  \A n \in Nat : NextRec("D4_ENGINE", n) \in Sent => \A m \in 1 .. n : Met(m)

\* Nothing but its first record leads to the others of the trains' chain.
TrainsBeginWithFirst ==
  \A n \in Nat : NextRec("D4_TRAIN", n) \in Sent => FirstRec("D4_TRAIN") \in Known

\* The thread itself starts no chain.
OpeningStartsNone ==
  \A i \in 1 .. Len(unasked) : unasked[i].action \notin {"first", "next"}

ChainInv ==
  TypeOK /\ EnginesInOrder /\ TrainsBeginWithFirst /\ OpeningStartsNone /\ TrainsFollowEngines

LEMMA ChainInit == Init => ChainInv
<1> SUFFICES ASSUME Init PROVE ChainInv
  OBVIOUS
<1>1. TypeOK
  BY TypeInit
<1>2. OpeningStartsNone
  <2> DEFINE counts == IF NoD4 THEN <<>> ELSE <<Count("D4_ENGINE"), Count("D4_TRAIN")>>
             firsts == [i \in 1 .. Len(Rosters) |-> Memory(Rosters[i], 1)]
             Opens(r) == r.action \notin {"first", "next"}
  <2>1. counts \in Seq(Requests) /\ firsts \in Seq(Requests)
    <3>1. Count("D4_ENGINE") \in Requests /\ Count("D4_TRAIN") \in Requests
      BY DEF Requests, Kinds, Count
    <3>2. <<Count("D4_ENGINE"), Count("D4_TRAIN")>> \in Seq(Requests) /\ <<>> \in Seq(Requests)
      BY <3>1
    <3>3. \A i \in 1 .. Len(Rosters) : Memory(Rosters[i], 1) \in Requests
      BY StartupAssumption DEF Requests, Scopes, Memory
    <3>4. Len(Rosters) \in Nat
      BY StartupAssumption
    <3> QED
      BY <3>2, <3>3, <3>4
  <2>2. \A i \in 1 .. Len(counts) : Opens(counts[i])
    BY DEF Count
  <2>3. \A i \in 1 .. Len(firsts) : Opens(firsts[i])
    BY StartupAssumption DEF Memory
  <2> HIDE DEF counts, firsts, Opens
  <2>4. \A i \in 1 .. Len(counts \o firsts) : Opens((counts \o firsts)[i])
    BY <2>1, <2>2, <2>3
  <2>5. unasked = counts \o firsts
    BY DEF Init, Opening, counts, firsts
  <2> QED
    BY <2>4, <2>5 DEF OpeningStartsNone, Opens
<1> QED
  BY <1>1, <1>2 DEF Init, ChainInv, EnginesInOrder, TrainsBeginWithFirst, TrainsFollowEngines, Sent, Known

\* What is waited for or answered stays so; of what is sent, a request may be new.
LEMMA ChainFrame ==
  ASSUME TypeOK, OpeningStartsNone, [Next]_vars
  PROVE  /\ waiting \union Known \subseteq (waiting \union Known)'
         /\ Known \subseteq Known'
         /\ \A q \in Sent' : \/ q \in Sent
                             \/ q.action \notin {"first", "next"}
                             \/ \E r \in handling : React(r) /\ q \in Follow(r)
<1> USE DEF Known, Sent, TypeOK
<1>1. CASE Ask
  <2>1. unasked # <<>> /\ unasked \in Seq(Requests)
    BY <1>1 DEF Ask
  <2>2. Head(unasked) = unasked[1] /\ 1 \in 1 .. Len(unasked)
    BY <2>1
  <2>3. Head(unasked).action \notin {"first", "next"}
    BY <2>2 DEF OpeningStartsNone
  <2> QED
    BY <1>1, <2>3 DEF Ask
<1>2. ASSUME NEW r \in asked, Receive(r)
      PROVE  /\ waiting \union Known \subseteq (waiting \union Known)'
             /\ Known \subseteq Known' /\ Sent' \subseteq Sent
  <2>1. CASE Subscribed
    BY <1>2, <2>1 DEF Receive, Idle
  <2>2. CASE ~Subscribed
    BY <1>2, <2>2 DEF Receive, Idle
  <2> QED
    BY <2>1, <2>2
<1>3. ASSUME NEW r \in asked, Lose(r)
      PROVE  /\ waiting \union Known \subseteq (waiting \union Known)'
             /\ Known \subseteq Known' /\ Sent' \subseteq Sent
  BY <1>3 DEF Lose
<1>4. ASSUME NEW r \in handling, React(r)
      PROVE  /\ waiting \union Known \subseteq (waiting \union Known)'
             /\ Known \subseteq Known' /\ Sent' \subseteq Sent \union Follow(r)
  <2>1. handling = {r} /\ storing = {}
    OBVIOUS
  <2> QED
    BY <1>4, <2>1 DEF React
<1>5. CASE Store
  BY <1>5 DEF Store
<1>6. CASE ReceiveStray
  BY <1>6 DEF ReceiveStray, Idle, Stray
<1>7. CASE \/ Subscribe \/ Poll \/ ForceComplete \/ Timeout \/ Unsubscribe
           \/ Publish \/ Return \/ UNCHANGED vars
  BY <1>7 DEF Subscribe, Poll, ForceComplete, Timeout, Unsubscribe, Publish, Return, vars
<1> QED
  BY <1>1, <1>2, <1>3, <1>4, <1>5, <1>6, <1>7 DEF Next

\* What the callback may ask for that continues a chain or begins the trains'.
LEMMA FollowChain ==
  ASSUME NEW r \in Requests \union {Stray}, NEW q \in Follow(r)
  PROVE  /\ \A n \in Nat, k \in Kinds : q = NextRec(k, n) =>
              /\ r.action \in {"first", "next"} /\ r.of = k /\ n = r.no + 1
              /\ Query(k, n) \in Follow(r)
         /\ q = FirstRec("D4_TRAIN") => EndOfD4(r)
<1> USE StartupAssumption
<1>1. ASSUME NEW n \in Nat, NEW k \in Kinds, q = NextRec(k, n)
      PROVE  /\ r.action \in {"first", "next"} /\ r.of = k /\ n = r.no + 1
             /\ Query(k, n) \in Follow(r)
  <2>1. r.action \in {"first", "next"} /\ q \in Onward(r.of, r.no)
    BY <1>1 DEF Follow, Memory, FirstRec, NextRec
  <2>2. r.no \in Nat
    BY <2>1 DEF Requests, Stray
  <2>3. r.no < Records(r.of) /\ q = NextRec(r.of, r.no + 1)
    BY <1>1, <2>1 DEF Onward, Query, NextRec
  <2>4. r.of = k /\ n = r.no + 1
    BY <1>1, <2>2, <2>3 DEF NextRec
  <2>5. Query(k, n) \in Onward(r.of, r.no)
    BY <2>3, <2>4 DEF Onward
  <2> QED
    BY <2>1, <2>4, <2>5 DEF Follow
<1>2. q = FirstRec("D4_TRAIN") => EndOfD4(r)
  <2> SUFFICES ASSUME q = FirstRec("D4_TRAIN") PROVE EndOfD4(r)
    OBVIOUS
  <2>1. q \notin Onward(r.of, r.no) /\ \A s \in Scopes, n \in Nat : q # Memory(s, n)
    BY DEF Onward, Query, NextRec, FirstRec, Memory
  <2>2. r.action = "memory" /\ r.no < LastNo => q # Memory(r.of, r.no + 1)
    BY DEF FirstRec, Memory
  <2>3. ~(r.action = "count" /\ Records(r.of) > 0 /\ ~Defers(r) /\ q = FirstRec(r.of))
    BY DEF Defers, Records, FirstRec
  <2> QED
    BY <2>1, <2>2, <2>3 DEF Follow
<1> QED
  BY <1>1, <1>2

LEMMA ChainStep == ChainInv /\ [Next]_vars => ChainInv'
<1> SUFFICES ASSUME ChainInv, [Next]_vars PROVE ChainInv'
  OBVIOUS
<1> USE DEF ChainInv
<1>1. TypeOK'
  BY TypeStep
<1>2. /\ \A n : Met(n) => Met(n)'
      /\ Known \subseteq Known'
  BY ChainFrame DEF Met
<1>3. \A q \in Sent' : \/ q \in Sent
                       \/ q.action \notin {"first", "next"}
                       \/ \E r \in handling : React(r) /\ q \in Follow(r)
  BY ChainFrame
<1>4. ASSUME NEW r \in handling, React(r)
      PROVE  /\ r \in Requests \union {Stray} /\ r \in Sent /\ r \in Known'
             /\ Follow(r) \subseteq waiting'
  BY <1>4 DEF TypeOK, Sent, Known, React, Expected
<1>5. EnginesInOrder'
  <2> SUFFICES ASSUME NEW n \in Nat, NextRec("D4_ENGINE", n) \in Sent', NEW m \in 1 .. n
               PROVE  Met(m)'
    BY DEF EnginesInOrder
  <2>1. CASE NextRec("D4_ENGINE", n) \in Sent
    BY <2>1, <1>2 DEF EnginesInOrder
  <2>2. ASSUME NEW r \in handling, React(r), NextRec("D4_ENGINE", n) \in Follow(r)
        PROVE  Met(m)'
    <3>1. /\ r.action \in {"first", "next"} /\ r.of = "D4_ENGINE" /\ n = r.no + 1
          /\ Query("D4_ENGINE", n) \in Follow(r)
      BY <2>2, <1>4, FollowChain DEF Kinds
    <3>2. CASE m = n
      BY <2>2, <3>1, <3>2, <1>4 DEF Met
    <3>3. CASE m # n
      <4>1. r.no \in Nat /\ (r.action = "first" => r.no = 0)
        BY <2>2, <3>1, <1>4 DEF Requests, Stray
      <4>2. r.action = "next" /\ m \in 1 .. r.no
        BY <3>1, <3>3, <4>1
      <4>3. r = NextRec("D4_ENGINE", r.no)
        BY <2>2, <3>1, <4>2, <1>4 DEF Requests, Stray, NextRec
      <4> QED
        BY <2>2, <4>1, <4>2, <4>3, <1>2, <1>4 DEF EnginesInOrder
    <3> QED
      BY <3>2, <3>3
  <2> QED
    BY <2>1, <2>2, <1>3 DEF NextRec
<1>6. TrainsBeginWithFirst'
  <2> SUFFICES ASSUME NEW n \in Nat, NextRec("D4_TRAIN", n) \in Sent'
               PROVE  FirstRec("D4_TRAIN") \in Known'
    BY DEF TrainsBeginWithFirst
  <2>1. CASE NextRec("D4_TRAIN", n) \in Sent
    BY <2>1, <1>2 DEF TrainsBeginWithFirst
  <2>2. ASSUME NEW r \in handling, React(r), NextRec("D4_TRAIN", n) \in Follow(r)
        PROVE  FirstRec("D4_TRAIN") \in Known'
    <3>1. r.action \in {"first", "next"} /\ r.of = "D4_TRAIN"
      BY <2>2, <1>4, FollowChain DEF Kinds
    <3>2. r.no \in Nat /\ (r = FirstRec("D4_TRAIN") \/ r = NextRec("D4_TRAIN", r.no))
      BY <2>2, <3>1, <1>4 DEF Requests, Stray, FirstRec, NextRec
    <3> QED
      BY <2>2, <3>2, <1>2, <1>4 DEF TrainsBeginWithFirst
  <2> QED
    BY <2>1, <2>2, <1>3 DEF NextRec
<1>7. OpeningStartsNone'
  <2>1. CASE Ask
    <3>1. unasked # <<>> /\ unasked \in Seq(Requests)
      BY <2>1 DEF Ask, TypeOK
    <3>2. \A i \in 1 .. Len(Tail(unasked)) :
            Tail(unasked)[i] = unasked[i + 1] /\ i + 1 \in 1 .. Len(unasked)
      BY <3>1
    <3> QED
      BY <2>1, <3>2 DEF OpeningStartsNone, Ask
  <2>2. CASE UNCHANGED unasked
    BY <2>2 DEF OpeningStartsNone
  <2> QED
    BY <2>1, <2>2 DEF Next, vars, Subscribe, Poll, ForceComplete, Timeout, Unsubscribe,
       Receive, Lose, React, Store, ReceiveStray, Publish, Return
<1>8. TrainsFollowEngines'
  <2> SUFFICES ASSUME FirstRec("D4_TRAIN") \in Sent', NEW n \in 1 .. D4Engines
               PROVE  Met(n)'
    BY DEF TrainsFollowEngines, Sent, Met
  <2>1. CASE FirstRec("D4_TRAIN") \in Sent
    BY <2>1, <1>2 DEF TrainsFollowEngines, Sent, Met
  <2>2. ASSUME NEW r \in handling, React(r), FirstRec("D4_TRAIN") \in Follow(r)
        PROVE  Met(n)'
    <3>1. EndOfD4(r)
      BY <2>2, <1>4, FollowChain
    <3>2. r.of \in Kinds /\ r.no \in Nat /\ (r = FirstRec(r.of) \/ r = NextRec(r.of, r.no))
          /\ (r.action = "first" => r.no = 0)
      BY <2>2, <3>1, <1>4 DEF EndOfD4, Requests, Stray, FirstRec, NextRec
    <3>3. CASE r.of = "D4_ENGINE"
      <4>1. r.no >= D4Engines
        <5>1. ~(r.no < Records(r.of))
          BY <3>1 DEF EndOfD4, Onward
        <5> QED
          BY <5>1, <3>2, <3>3, StartupAssumption DEF Records
      <4>2. n \in 1 .. r.no
        BY <4>1, <3>2, StartupAssumption
      <4>3. r = NextRec("D4_ENGINE", r.no)
        BY <4>2, <3>2, <3>3 DEF FirstRec
      <4> QED
        BY <2>2, <4>2, <4>3, <3>2, <1>2, <1>4 DEF EnginesInOrder
    <3>4. CASE r.of = "D4_TRAIN"
      <4>1. FirstRec("D4_TRAIN") \in Sent
        BY <2>2, <3>2, <3>4, <1>4 DEF TrainsBeginWithFirst, Sent
      <4> QED
        BY <4>1, <1>2 DEF TrainsFollowEngines, Sent, Met
    <3> QED
      BY <3>2, <3>3, <3>4 DEF Kinds
  <2> QED
    BY <2>1, <2>2, <1>3 DEF FirstRec
<1> QED
  BY <1>1, <1>5, <1>6, <1>7, <1>8

\* The chain of the 4-digit trains starts when every 4-digit engine has been asked
\* for, whatever the order of the answers, strays and losses.
THEOREM EnginesComeFirst == Spec => []TrainsFollowEngines
<1>1. ChainInv /\ [Next]_vars => ChainInv'
  BY ChainStep
<1>2. ChainInv => TrainsFollowEngines
  BY DEF ChainInv
<1> QED
  BY ChainInit, <1>1, <1>2, PTL DEF Spec

\* The synchronization knows what it waits for, and returns with the trains.
THEOREM LoadingIsSafe == Spec => []LoadSafety
<1>1. OutstandingIsExpected /\ ReturnsWithTrains => LoadSafety
  BY DEF LoadSafety
<1> QED
  BY RequestsAreExpected, CallerReturnsWithTrains, <1>1, PTL

-----------------------------------------------------------------------------
(* Nothing is asked for twice                                               *)

Opens(q) == q.action = "count" \/ (q.action = "memory" /\ q.no = 1)

\* The packet whose answer makes the callback ask for q.  For the first of the 4-digit
\* trains, what has to be answered before: their number, which was put off.
Cause(q) ==
  IF q.action = "memory" THEN Memory(q.of, q.no - 1)
  ELSE IF q.action = "first" THEN Count(q.of)
  ELSE IF q.no = 1 THEN FirstRec(q.of) ELSE NextRec(q.of, q.no - 1)

Made == asked \union Known           \* requests made and not lost
Reacted == storing \union stored     \* packets the callback has done with

Caused == \A q \in Made \ {Stray} : ~Opens(q) => Cause(q) \in Reacted

AskedOnce == asked \intersect Known = {} /\ handling \intersect Reacted \subseteq {Stray}

OpeningLeft ==
  /\ \A i \in 1 .. Len(unasked) : Opens(unasked[i]) /\ unasked[i] \notin Made
  /\ \A i, j \in 1 .. Len(unasked) : unasked[i] = unasked[j] => i = j

DeferredOnce == defer => FirstRec("D4_TRAIN") \notin Made /\ Count("D4_TRAIN") \in Reacted

OnceInv == TypeOK /\ Caused /\ AskedOnce /\ OpeningLeft /\ DeferredOnce

LEMMA StrayIsNoRequest == Stray \notin Requests
BY DEF Stray, Requests

\* What the callback asks for has that packet as its cause, but for the trains put off.
LEMMA FollowCause ==
  ASSUME NEW r \in Requests \union {Stray}, NEW q \in Follow(r)
  PROVE  /\ q \in Requests /\ ~Opens(q) /\ r # Stray
         /\ \/ Cause(q) = r
            \/ q = FirstRec("D4_TRAIN") /\ Cause(q) = Count("D4_TRAIN") /\ EndOfD4(r) /\ defer
<1> USE StartupAssumption
<1>1. q \in Requests
  BY FollowType
<1>2. CASE r.action = "memory" /\ r.no < LastNo /\ q = Memory(r.of, r.no + 1)
  <2>1. r = Memory(r.of, r.no) /\ r.no \in 1 .. LastNo
    BY <1>2 DEF Requests, Stray, Memory
  <2>2. q.action = "memory" /\ q.of = r.of /\ q.no = r.no + 1
    BY <1>2 DEF Memory
  <2> QED
    BY <1>1, <1>2, <2>1, <2>2 DEF Opens, Cause, Stray
<1>3. CASE /\ r.action = "count" /\ Records(r.of) > 0 /\ ~Defers(r)
           /\ q = FirstRec(r.of)
  <2>1. r = Count(r.of)
    BY <1>3 DEF Requests, Stray, Count
  <2>2. q.action = "first" /\ q.of = r.of
    BY <1>3 DEF FirstRec
  <2> QED
    BY <1>1, <1>3, <2>1, <2>2 DEF Opens, Cause, Stray
<1>4. CASE r.action \in {"first", "next"} /\ q \in Onward(r.of, r.no)
  <2>1. /\ r.no \in Nat /\ r.of \in Kinds /\ r # Stray
        /\ r.action = "first" => r.no = 0 /\ r = FirstRec(r.of)
        /\ r.action = "next" => r.no # 0 /\ r = NextRec(r.of, r.no)
    BY <1>4 DEF Requests, Stray, FirstRec, NextRec
  <2>2. q.action \in {"query", "next"} /\ q.of = r.of /\ q.no = r.no + 1
    BY <1>4 DEF Onward, Query, NextRec
  <2>3. ~Opens(q)
    BY <2>2 DEF Opens
  <2>4. Cause(q) = r
    BY <1>4, <2>1, <2>2 DEF Cause
  <2> QED
    BY <1>1, <2>1, <2>3, <2>4
<1>5. CASE EndOfD4(r) /\ defer /\ q = FirstRec("D4_TRAIN")
  <2>1. q.action = "first" /\ q.of = "D4_TRAIN"
    BY <1>5 DEF FirstRec
  <2>2. r # Stray
    BY <1>5 DEF EndOfD4, Stray
  <2> QED
    BY <1>1, <1>5, <2>1, <2>2 DEF Opens, Cause
<1> QED
  BY <1>2, <1>3, <1>4, <1>5 DEF Follow

NoRepeat(s) == \A i, j \in 1 .. Len(s) : s[i] = s[j] => i = j

LEMMA NoRepeatJoined ==
  ASSUME NEW S, NEW s \in Seq(S), NEW t \in Seq(S), NoRepeat(s), NoRepeat(t),
         \A i \in 1 .. Len(s), j \in 1 .. Len(t) : s[i] # t[j]
  PROVE  /\ NoRepeat(s \o t)
         /\ \A i \in 1 .. Len(s \o t) :
              (\E j \in 1 .. Len(s) : (s \o t)[i] = s[j]) \/ (\E j \in 1 .. Len(t) : (s \o t)[i] = t[j])
<1>1. /\ Len(s \o t) = Len(s) + Len(t) /\ Len(s) \in Nat /\ Len(t) \in Nat
      /\ \A i \in 1 .. Len(s) : (s \o t)[i] = s[i]
      /\ \A i \in Len(s) + 1 .. Len(s) + Len(t) :
            (s \o t)[i] = t[i - Len(s)] /\ i - Len(s) \in 1 .. Len(t)
  OBVIOUS
<1>2. \A i \in 1 .. Len(s \o t) : i \in 1 .. Len(s) \/ i \in Len(s) + 1 .. Len(s) + Len(t)
  BY <1>1
<1>3. \A i, j \in Len(s) + 1 .. Len(s) + Len(t) : i - Len(s) = j - Len(s) => i = j
  BY <1>1
<1> QED
  BY SMTT(60), <1>1, <1>2, <1>3 DEF NoRepeat

LEMMA OpeningOnce ==
  /\ \A i \in 1 .. Len(Opening) : Opens(Opening[i])
  /\ \A i, j \in 1 .. Len(Opening) : Opening[i] = Opening[j] => i = j
<1> USE StartupAssumption
<1> DEFINE counts == <<Count("D4_ENGINE"), Count("D4_TRAIN")>>
           firsts == [i \in 1 .. Len(Rosters) |-> Memory(Rosters[i], 1)]
<1>1. /\ \A i \in 1 .. Len(Rosters) : Opens(Memory(Rosters[i], 1))
      /\ \A i, j \in 1 .. Len(Rosters) : Memory(Rosters[i], 1) = Memory(Rosters[j], 1) => i = j
  BY DEF Opens, Memory
<1>2. Len(Rosters) \in Nat /\ \A i \in 1 .. Len(Rosters) : Memory(Rosters[i], 1) \in Requests
  BY DEF Requests, Scopes, Memory
<1>3. firsts \in Seq(Requests) /\ Len(firsts) = Len(Rosters)
      /\ \A i \in 1 .. Len(Rosters) : firsts[i] = Memory(Rosters[i], 1)
  BY <1>2
<1>4. /\ Opens(Count("D4_ENGINE")) /\ Opens(Count("D4_TRAIN"))
      /\ Count("D4_ENGINE") # Count("D4_TRAIN")
      /\ \A s : Memory(s, 1) # Count("D4_ENGINE") /\ Memory(s, 1) # Count("D4_TRAIN")
  BY DEF Opens, Count, Memory
<1>5. Count("D4_ENGINE") \in Requests /\ Count("D4_TRAIN") \in Requests
  BY DEF Requests, Kinds, Count
<1>6. CASE NoD4
  <2>1. Opening = firsts
    BY <1>3, <1>6 DEF Opening
  <2> QED
    BY <1>1, <1>3, <2>1
<1>7. CASE ~NoD4
  <2>1. Opening = counts \o firsts
    BY <1>7 DEF Opening
  <2>2. counts \in Seq(Requests) /\ Len(counts) = 2
        /\ counts[1] = Count("D4_ENGINE") /\ counts[2] = Count("D4_TRAIN")
    BY <1>5
  <2>3. /\ NoRepeat(counts) /\ \A i \in 1 .. Len(counts) : Opens(counts[i])
        /\ NoRepeat(firsts) /\ \A i \in 1 .. Len(firsts) : Opens(firsts[i])
    <3>1. \A i \in 1 .. Len(counts) : i = 1 \/ i = 2
      BY <2>2
    <3> HIDE DEF counts, firsts
    <3>2. NoRepeat(counts) /\ \A i \in 1 .. Len(counts) : Opens(counts[i])
      BY <1>4, <2>2, <3>1 DEF NoRepeat
    <3>3. NoRepeat(firsts) /\ \A i \in 1 .. Len(firsts) : Opens(firsts[i])
      BY <1>1, <1>3 DEF NoRepeat
    <3> QED
      BY <3>2, <3>3
  <2>4. \A i \in 1 .. Len(counts), j \in 1 .. Len(firsts) : counts[i] # firsts[j]
    BY <1>3, <1>4, <2>2
  <2>5. counts \in Seq(Requests) /\ firsts \in Seq(Requests)
    BY <1>3, <2>2
  <2> HIDE DEF counts, firsts
  <2>7. /\ NoRepeat(counts \o firsts)
        /\ \A i \in 1 .. Len(counts \o firsts) :
             \/ \E j \in 1 .. Len(counts) : (counts \o firsts)[i] = counts[j]
             \/ \E j \in 1 .. Len(firsts) : (counts \o firsts)[i] = firsts[j]
    BY <2>3, <2>4, <2>5, NoRepeatJoined
  <2>8. \A i \in 1 .. Len(Opening) : Opens(Opening[i])
    BY <2>1, <2>3, <2>7
  <2>9. NoRepeat(Opening)
    BY <2>1, <2>7
  <2> QED
    BY <2>8, <2>9 DEF NoRepeat
<1> QED
  BY <1>6, <1>7

LEMMA OnceInit == Init => OnceInv
<1> SUFFICES ASSUME Init PROVE OnceInv
  OBVIOUS
<1>1. Made = {} /\ Reacted = {}
  BY DEF Init, Made, Reacted, Known
<1>2. OpeningLeft
  BY <1>1, OpeningOnce DEF Init, OpeningLeft
<1> QED
  BY <1>1, <1>2, TypeInit DEF Init, OnceInv, Caused, AskedOnce, DeferredOnce, Made

\* A step after which no more has been made, and no less has been done with.
LEMMA OnceFrame ==
  ASSUME OnceInv, TypeOK', Made' \subseteq Made, Reacted \subseteq Reacted',
         AskedOnce', UNCHANGED <<unasked, defer>>
  PROVE  OnceInv'
BY DEF OnceInv, Caused, OpeningLeft, DeferredOnce

LEMMA OnceStep ==
  OnceInv /\ [Next]_vars => OnceInv' /\ \A r \in asked' \ asked : r \notin Known'
<1> SUFFICES ASSUME OnceInv, [Next]_vars
             PROVE  OnceInv' /\ \A r \in asked' \ asked : r \notin Known'
  OBVIOUS
<1> USE StrayIsNoRequest
<1>1. TypeOK'
  BY TypeStep DEF OnceInv
<1>2. CASE Ask
  <2> DEFINE q == Head(unasked)
  <2>1. /\ unasked # <<>> /\ unasked \in Seq(Requests)
        /\ asked' = asked \union {q} /\ unasked' = Tail(unasked)
        /\ UNCHANGED <<handling, storing, stored, defer>>
    BY <1>2 DEF Ask, OnceInv, TypeOK
  <2>2. q = unasked[1] /\ q \in Requests /\ 1 \in 1 .. Len(unasked)
    BY <2>1
  <2>3. /\ \A i \in 1 .. Len(unasked') : unasked'[i] = unasked[i + 1] /\ i + 1 \in 2 .. Len(unasked)
        /\ Len(unasked') \in Nat
    BY <2>1
  <2> HIDE DEF q
  <2>4. Opens(q) /\ q \notin Made /\ \A i \in 2 .. Len(unasked) : unasked[i] # q
    BY <2>2 DEF OnceInv, OpeningLeft
  <2>5. Made' = Made \union {q} /\ Reacted' = Reacted /\ Known' = Known
    BY <2>1 DEF Made, Reacted, Known
  <2>6. AskedOnce' /\ Caused'
    BY <2>1, <2>4, <2>5 DEF OnceInv, AskedOnce, Caused, Made
  <2>7. OpeningLeft'
    <3>1. \A i \in 1 .. Len(unasked') : i + 1 \in 1 .. Len(unasked)
      BY <2>3
    <3>2. \A i \in 1 .. Len(unasked') : Opens(unasked'[i]) /\ unasked'[i] \notin Made'
      BY <2>3, <2>4, <2>5, <3>1 DEF OnceInv, OpeningLeft
    <3>3. \A i, j \in 1 .. Len(unasked') : unasked'[i] = unasked'[j] => i + 1 = j + 1
      BY <2>3, <3>1 DEF OnceInv, OpeningLeft
    <3>4. \A i, j \in 1 .. Len(unasked') : i + 1 = j + 1 => i = j
      OBVIOUS
    <3> QED
      BY <3>2, <3>3, <3>4 DEF OpeningLeft
  <2>8. DeferredOnce'
    BY <2>1, <2>4, <2>5 DEF OnceInv, DeferredOnce, Opens, FirstRec
  <2> QED
    BY <1>1, <2>1, <2>4, <2>5, <2>6, <2>7, <2>8 DEF OnceInv, Made
<1>3. ASSUME NEW r \in asked, Receive(r) PROVE OnceInv' /\ asked' \subseteq asked
  <2>1. /\ asked' = asked \ {r} /\ handling = {} /\ storing = {} /\ UNCHANGED <<stored, unasked, defer>>
        /\ (handling' = {r} /\ storing' = {}) \/ (storing' = {r} /\ handling' = {})
    BY <1>3 DEF Receive, Idle, OnceInv, TypeOK
  <2>2. Made' = Made /\ Known' = Known \union {r} /\ Reacted \subseteq Reacted'
    BY <2>1 DEF Made, Known, Reacted
  <2>3. AskedOnce'
    BY <2>1, <2>2 DEF OnceInv, AskedOnce, Reacted, Known
  <2> QED
    BY <1>1, <2>1, <2>2, <2>3, OnceFrame
<1>4. ASSUME NEW r \in asked, Lose(r) PROVE OnceInv' /\ asked' \subseteq asked
  <2>1. asked' = asked \ {r} /\ UNCHANGED <<handling, storing, stored, unasked, defer>>
    BY <1>4 DEF Lose
  <2>2. Made' \subseteq Made /\ Known' = Known /\ Reacted' = Reacted
    BY <2>1 DEF Made, Known, Reacted
  <2>3. AskedOnce'
    BY <2>1, <2>2 DEF OnceInv, AskedOnce
  <2> QED
    BY <1>1, <2>1, <2>2, <2>3, OnceFrame
<1>5. ASSUME NEW r \in handling, React(r)
      PROVE  OnceInv' /\ \A q \in asked' \ asked : q \notin Known'
  <2>1. /\ handling = {r} /\ storing = {} /\ handling' = {} /\ storing' = {r}
        /\ asked' = asked \union Follow(r) /\ defer' = DeferAfter(r)
        /\ UNCHANGED <<stored, unasked>>
    BY <1>5 DEF React, OnceInv, TypeOK
  <2>2. r \in Requests \union {Stray}
    BY <1>5 DEF OnceInv, TypeOK
  <2>3. /\ Known' = Known /\ Made' = Made \union Follow(r) /\ Reacted' = Reacted \union {r}
        /\ r \in Made
    BY <2>1 DEF Made, Known, Reacted
  <2>4. r # Stray => r \notin Reacted
    BY <2>1 DEF OnceInv, AskedOnce
  <2>5. ASSUME NEW q \in Follow(r)
        PROVE  /\ q \in Requests /\ ~Opens(q) /\ q \notin Made /\ Cause(q) \in Reacted'
               /\ q = FirstRec("D4_TRAIN") => EndOfD4(r) \/ r = Count("D4_TRAIN")
    <3>1. /\ q \in Requests /\ ~Opens(q) /\ r # Stray
          /\ \/ Cause(q) = r
             \/ q = FirstRec("D4_TRAIN") /\ Cause(q) = Count("D4_TRAIN") /\ EndOfD4(r) /\ defer
      BY <2>2, FollowCause
    <3>2. CASE Cause(q) = r
      <4>1. q \notin Made
        BY <2>4, <3>1, <3>2 DEF OnceInv, Caused
      <4>2. q = FirstRec("D4_TRAIN") => Cause(q) = Count("D4_TRAIN")
        BY DEF Cause, FirstRec
      <4> QED
        BY <2>3, <3>1, <3>2, <4>1, <4>2
    <3>3. CASE q = FirstRec("D4_TRAIN") /\ Cause(q) = Count("D4_TRAIN") /\ EndOfD4(r) /\ defer
      BY <2>3, <3>1, <3>3 DEF OnceInv, DeferredOnce
    <3> QED
      BY <3>1, <3>2, <3>3
  <2>6. Caused'
    BY <2>3, <2>5 DEF OnceInv, Caused
  <2>7. AskedOnce'
    BY <2>1, <2>3, <2>5 DEF OnceInv, AskedOnce, Made
  <2>8. OpeningLeft'
    BY <2>1, <2>3, <2>5 DEF OnceInv, OpeningLeft
  <2>9. DeferredOnce'
    <3> SUFFICES ASSUME defer'
                 PROVE  FirstRec("D4_TRAIN") \notin Made' /\ Count("D4_TRAIN") \in Reacted'
      BY DEF DeferredOnce
    <3>1. (defer \/ Defers(r)) /\ ~EndOfD4(r)
      BY <2>1 DEF DeferAfter
    <3>2. CASE Defers(r)
      <4>1. r = Count("D4_TRAIN") /\ D4Trains > 0
        BY <2>2, <3>2 DEF Defers, Requests, Stray, Count
      <4>2. Cause(FirstRec("D4_TRAIN")) = r /\ ~Opens(FirstRec("D4_TRAIN"))
            /\ FirstRec("D4_TRAIN") # Stray
        BY <4>1 DEF Cause, FirstRec, Opens, Stray
      <4>3. FirstRec("D4_TRAIN") \notin Made
        BY <2>2, <2>4, <4>1, <4>2 DEF OnceInv, Caused, Stray, Count
      <4>4. FirstRec("D4_TRAIN") \notin Follow(r)
        BY <2>2, <3>1, FollowChain
      <4> QED
        BY <2>3, <4>1, <4>3, <4>4
    <3>3. CASE defer
      <4>1. FirstRec("D4_TRAIN") \notin Follow(r)
        BY <2>2, <3>1, FollowChain
      <4> QED
        BY <2>3, <3>3, <4>1 DEF OnceInv, DeferredOnce
    <3> QED
      BY <3>1, <3>2, <3>3
  <2>10. \A q \in asked' \ asked : q \notin Known'
    BY <2>1, <2>3, <2>5 DEF Made
  <2> QED
    BY <1>1, <2>6, <2>7, <2>8, <2>9, <2>10 DEF OnceInv
<1>6. CASE Store
  <2>1. /\ storing' = {} /\ stored' = stored \union storing
        /\ UNCHANGED <<asked, handling, unasked, defer>>
    BY <1>6 DEF Store
  <2>2. Made' = Made /\ Known' = Known /\ Reacted' = Reacted
    BY <2>1 DEF Made, Known, Reacted
  <2>3. AskedOnce'
    BY <2>1, <2>2 DEF OnceInv, AskedOnce
  <2> QED
    BY <1>1, <2>1, <2>2, <2>3, OnceFrame
<1>7. CASE ReceiveStray
  <2>1. /\ handling' = {Stray} /\ handling = {} /\ UNCHANGED <<asked, storing, stored, unasked, defer>>
    BY <1>7 DEF ReceiveStray, Idle
  <2>2. Made' = Made \union {Stray} /\ Known' = Known \union {Stray} /\ Reacted' = Reacted
    BY <2>1 DEF Made, Known, Reacted
  <2>3. Stray \notin asked /\ \A i \in 1 .. Len(unasked) : unasked[i] # Stray
    BY DEF OnceInv, TypeOK
  <2>4. AskedOnce' /\ Caused'
    BY <2>1, <2>2, <2>3 DEF OnceInv, AskedOnce, Caused
  <2>5. OpeningLeft'
    BY <2>1, <2>2, <2>3 DEF OnceInv, OpeningLeft
  <2>6. DeferredOnce'
    BY <2>1, <2>2 DEF OnceInv, DeferredOnce, FirstRec, Stray
  <2> QED
    BY <1>1, <2>1, <2>4, <2>5, <2>6 DEF OnceInv
<1>8. CASE \/ Subscribe \/ Poll \/ ForceComplete \/ Timeout \/ Unsubscribe \/ Publish \/ Return
           \/ UNCHANGED vars
  <2>1. UNCHANGED <<asked, handling, storing, stored, unasked, defer>>
    BY <1>8 DEF Subscribe, Poll, ForceComplete, Timeout, Unsubscribe, Publish, Return, vars
  <2>2. Made' = Made /\ Known' = Known /\ Reacted' = Reacted
    BY <2>1 DEF Made, Known, Reacted
  <2>3. AskedOnce'
    BY <2>1, <2>2 DEF OnceInv, AskedOnce
  <2> QED
    BY <1>1, <2>1, <2>2, <2>3, OnceFrame
<1> QED
  BY <1>2, <1>3, <1>4, <1>5, <1>6, <1>7, <1>8 DEF Next

\* However the Base orders or loses its answers, the chains of requests do not
\* fork and the trains put off are begun once (StartupState.__call__).
THEOREM EveryRequestIsNew == Spec => NothingAskedTwice
<1>1. OnceInv /\ [Next]_vars => OnceInv'
  BY OnceStep
<1>2. OnceInv /\ [Next]_vars => [\A r \in asked' \ asked : r \notin Known']_vars
  BY OnceStep
<1> QED
  BY OnceInit, <1>1, <1>2, PTL DEF Spec, NothingAskedTwice

=============================================================================
