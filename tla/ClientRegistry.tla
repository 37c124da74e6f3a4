---------------------------- MODULE ClientRegistry ----------------------------
(***************************************************************************)
(* The server's registry of clients (comm/enqueue_proxy_requests.py) and   *)
(* the life of one client node at one address and port                     *)
(* (comm/comm_buffer.py CommBufferProxy and ClientHeartBeat,               *)
(* db/client_state_listener.py, cli/pytrain.py): it registers, asks for    *)
(* the state, sends keep-alives, disconnects, or crashes; each new process *)
(* is a new session.  The server handles every request in a thread of its  *)
(* own, after it has acknowledged it, so requests overtake each other;     *)
(* the client repeats a request whose acknowledgement it does not receive. *)
(***************************************************************************)
EXTENDS Naturals, FiniteSets

CONSTANTS RegSessions,  \* bound: processes of the client, one after the other
          RegRetries,   \* bound: requests sent again although the server has them
          RegRestarts   \* bound: restarts of the server

ASSUME RegistryConstants == RegSessions \in Nat \ {0} /\ {RegRetries, RegRestarts} \subseteq Nat

VARIABLES
  gClients,  \* the sessions in _clients (all have the same address and port)
  gWire,     \* acknowledged requests that wait for their handler: <<kind, session>>
  gUp,       \* the server runs
  gSession,  \* the client's session_id
  gPhase,    \* the client: "register", "sync", "running", "disconnect", "down"
  gHeart,    \* its heart beat thread: "off", "wait", "send", "dead"
  gRetried,  \* requests repeated so far
  gRestarts  \* server restarts so far

registryVars == << gClients, gWire, gUp, gSession, gPhase, gHeart, gRetried, gRestarts >>

Sessions == 1 .. RegSessions
Requests == {"register", "sync", "alive", "disconnect"} \X Sessions

RegistryTypeOK ==
  /\ gClients \subseteq Sessions /\ gWire \subseteq Requests /\ gUp \in BOOLEAN
  /\ gSession \in Sessions
  /\ gPhase \in {"register", "sync", "running", "disconnect", "down"}
  /\ gHeart \in {"off", "wait", "send", "dead"}
  /\ gRetried \in 0 .. RegRetries /\ gRestarts \in 0 .. RegRestarts

RegistryInit ==
  /\ gClients = {} /\ gWire = {} /\ gUp = TRUE
  /\ gSession = 1 /\ gPhase = "register" /\ gHeart = "off"
  /\ gRetried = 0 /\ gRestarts = 0

-----------------------------------------------------------------------------
\* The client.  enqueue_command returns when the server has acknowledged the bytes
Deliver(kind) == gUp /\ gWire' = gWire \cup {<< kind, gSession >>}

\* recv fails after the server has the bytes: the loop sends them again
SendAgain(kind) ==
  /\ gRetried < RegRetries /\ gRetried' = gRetried + 1 /\ Deliver(kind)
  /\ UNCHANGED << gClients, gUp, gSession, gPhase, gHeart, gRestarts >>

Register ==
  /\ gPhase = "register"
  /\ \/ SendAgain("register")
     \/ /\ Deliver("register") /\ gPhase' = "sync"
        /\ UNCHANGED << gClients, gUp, gSession, gHeart, gRetried, gRestarts >>

\* sync_state, then start_heart_beat
SyncState ==
  /\ gPhase = "sync"
  /\ Deliver("sync") /\ gPhase' = "running" /\ gHeart' = "wait"
  /\ UNCHANGED << gClients, gUp, gSession, gRetried, gRestarts >>

\* the pulse has passed and the thread has not been told to stop
HeartBeats ==
  /\ gHeart = "wait" /\ gPhase = "running" /\ gHeart' = "send"
  /\ UNCHANGED << gClients, gWire, gUp, gSession, gPhase, gRetried, gRestarts >>

\* a keep-alive that was about to be sent when the client disconnects still goes out
SendAlive ==
  /\ gHeart = "send"
  /\ \/ SendAgain("alive")
     \/ /\ Deliver("alive") /\ gHeart' = IF gPhase = "running" THEN "wait" ELSE "off"
        /\ UNCHANGED << gClients, gUp, gSession, gPhase, gRetried, gRestarts >>

\* after 90 retries the OSError ends the heart beat thread
HeartGivesUp ==
  /\ gHeart = "send" /\ ~gUp /\ gHeart' = "dead"
  /\ UNCHANGED << gClients, gWire, gUp, gSession, gPhase, gRetried, gRestarts >>

\* PyTrain.shutdown, after a command of the user or an admin request: the heart beat
\* is told to stop, then the client disconnects
LeaveLayout ==
  /\ gPhase = "running"
  /\ gPhase' = "disconnect" /\ gHeart' = IF gHeart = "wait" THEN "off" ELSE gHeart
  /\ UNCHANGED << gClients, gWire, gUp, gSession, gRetried, gRestarts >>

Disconnect ==
  /\ gPhase = "disconnect"
  /\ \/ SendAgain("disconnect")
     \/ /\ Deliver("disconnect") /\ gPhase' = "down"
        /\ UNCHANGED << gClients, gUp, gSession, gHeart, gRetried, gRestarts >>

\* the process is killed, or gives up on a server that is away
Crash ==
  /\ gPhase # "down" /\ gPhase' = "down" /\ gHeart' = "off"
  /\ UNCHANGED << gClients, gWire, gUp, gSession, gRetried, gRestarts >>

\* restart, or somebody starts the client again: a new uuid
Relaunch ==
  /\ gPhase = "down" /\ gSession < RegSessions
  /\ gSession' = gSession + 1 /\ gPhase' = "register" /\ gHeart' = "off"
  /\ UNCHANGED << gClients, gWire, gUp, gRetried, gRestarts >>

-----------------------------------------------------------------------------
\* The server.  A handler thread takes the request it has read
Handle(kind, s) == gUp /\ << kind, s >> \in gWire /\ gWire' = gWire \ {<< kind, s >>}

\* as if the sessions that the new one replaces were kept
MutPurged(s) == {}

\* client_connect: other sessions at this address and port are gone
Purged(s) == {t \in gClients : t # s}

Connected(s) ==
  /\ Handle("register", s)
  /\ gClients' = (gClients \ Purged(s)) \cup {s}
  /\ UNCHANGED << gUp, gSession, gPhase, gHeart, gRetried, gRestarts >>

\* client_disconnect: only the entry of this session
Disconnected(s) ==
  /\ Handle("disconnect", s)
  /\ gClients' = gClients \ {s}
  /\ UNCHANGED << gUp, gSession, gPhase, gHeart, gRetried, gRestarts >>

\* send_current_state leaves the registry alone
Synced(s) ==
  /\ Handle("sync", s)
  /\ UNCHANGED << gClients, gUp, gSession, gPhase, gHeart, gRetried, gRestarts >>

\* as if a client that is not registered were only logged
MutMustRestart(s) == FALSE

\* client_alive: nobody is registered at the address and the port of the keep-alive
MustRestart(s) == gClients = {}

\* signal_clients(RESTART): whatever process listens at that port leaves the layout;
\* when none does, the connection is refused and that is all
Alive(s) ==
  /\ Handle("alive", s)
  /\ IF MustRestart(s) /\ gPhase = "running"
       THEN gPhase' = "disconnect" /\ gHeart' = IF gHeart = "wait" THEN "off" ELSE gHeart
       ELSE UNCHANGED << gPhase, gHeart >>
  /\ UNCHANGED << gClients, gUp, gSession, gRetried, gRestarts >>

\* the server goes down with its registry and its handlers
ServerStops ==
  /\ gUp /\ gRestarts < RegRestarts
  /\ gUp' = FALSE /\ gClients' = {} /\ gWire' = {} /\ gRestarts' = gRestarts + 1
  /\ UNCHANGED << gSession, gPhase, gHeart, gRetried >>

ServerStarts ==
  /\ ~gUp /\ gUp' = TRUE
  /\ UNCHANGED << gClients, gWire, gSession, gPhase, gHeart, gRetried, gRestarts >>

-----------------------------------------------------------------------------
Handler == \E s \in Sessions : Connected(s) \/ Disconnected(s) \/ Synced(s) \/ Alive(s)
ClientSends == Register \/ SyncState \/ Disconnect
Heart == HeartBeats \/ SendAlive

RegistryNext == \/ ClientSends \/ Heart \/ HeartGivesUp \/ LeaveLayout \/ Crash \/ Relaunch
                \/ Handler \/ ServerStops \/ ServerStarts

\* the client's threads run, a server that stopped comes back, and a keep-alive that
\* can be sent, or handled, again and again is sent, or handled, in the end
RegistrySpec ==
  /\ RegistryInit /\ [][RegistryNext]_registryVars
  /\ WF_registryVars(ClientSends) /\ SF_registryVars(Heart) /\ WF_registryVars(ServerStarts)
  /\ SF_registryVars(\E s \in Sessions : Alive(s))

-----------------------------------------------------------------------------
\* properties

\* The server sends each update once to an address and port: at most one session of
\* them is registered, also when the requests of an old process arrive late or twice.
OneSessionPerPort == Cardinality(gClients) <= 1

\* A late disconnect of an old session does not take the new one out of the registry.
OnlyOwnDisconnectRemoves ==
  [][gClients # {} /\ gClients' = {} /\ gUp' =>
       \E s \in gClients : << "disconnect", s >> \in gWire]_registryVars

\* A running client that the server has forgotten (it was restarted, or it handled the
\* client's requests out of order) does not stay so: it is told to restart, unless its
\* heart beat has ended.
ForgottenClientIsTold ==
  gPhase = "running" /\ gClients = {} ~> gClients # {} \/ gPhase # "running" \/ gHeart = "dead"

\* What ForgottenClientIsTold rests on: the heart beat of a running client was started and
\* is on, or has given up on a server that is down; one that waits is a running client's.
RunningClientsBeat ==
  /\ gPhase = "running" => gHeart # "off"
  /\ gHeart = "wait" => gPhase = "running"

\* A running client stays in the registry: late requests of an old session do not
\* remove it (client_disconnect), and a server that forgets it tells it (client_alive).
ClientsStayKnown == OnlyOwnDisconnectRemoves /\ ForgottenClientIsTold
=============================================================================
