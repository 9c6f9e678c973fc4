----------------------------- MODULE RfbClients -----------------------------
(***************************************************************************)
(* The client list of libvncserver as the application drives it: one       *)
(* worker thread that calls rfbProcessEvents again and again, and the main *)
(* thread, which calls rfbShutdownServer once the worker is joined.  There *)
(* is no background loop, so the reference counts of the records are       *)
(* written and never read; they are left out.                              *)
(*                                                                         *)
(* A record (rfbClientRec) is named by the client it was allocated for.    *)
(* Its memory may be used again for a later connection.  The clients       *)
(* themselves, and the network, do what they like at any time.             *)
(***************************************************************************)
EXTENDS Integers, FiniteSets, FiniteSetsExt

CONSTANTS Clients,  \* the client records
          Fds,      \* bound: the file descriptors there are
          Listeners, \* listenSock (4) and, in a build with IPv6, listen6Sock (6)
          Nil       \* the null pointer

ASSUME FdsAssumption == IsFiniteSet(Fds) /\ Fds \subseteq Nat \ {0}
ASSUME NilAssumption == Nil \notin Clients
ASSUME ListenersAssumption == Listeners \in {{4}, {4, 6}}

VARIABLES
  \* rfbScreenInfo
  clientHead, pointerClient,
  allFds, maxFd,      \* the descriptors select() watches
  listenSock,         \* listenSock, listen6Sock: -1 if not there
  \* rfbClientRec
  mem,                \* "unused", "live", "freed" or "leaked"
  sock, next, prev,
  \* the threads
  pc,                 \* where the server is
  fds,                \* the result of select() that is being worked on
  cur,                \* the record an iterator stands on
  mTerminated,
  \* the application
  hooked,             \* calls of newClientHook less calls of clientGoneHook
  \* the network
  backlog,            \* connections nobody has accepted yet
  wire                \* what a read would find: "idle", "data" or "eof"

listVars == <<clientHead, mem, next, prev, hooked, pointerClient>>
socketVars == <<allFds, maxFd, listenSock, sock>>
netVars == <<backlog, wire>>
threadVars == <<pc, fds, cur, mTerminated>>
vars == <<listVars, socketVars, netVars, threadVars>>

Live == {c \in Clients : mem[c] = "live"}
Open == {c \in Live : sock[c] # -1}

\* Type invariant.
TypeOK ==
  /\ clientHead \in Clients \cup {Nil} /\ pointerClient \in Clients \cup {Nil}
  /\ allFds \subseteq Fds /\ maxFd \in Fds \cup {0}
  /\ listenSock \in [Listeners -> Fds \cup {-1}]
  /\ mem \in [Clients -> {"unused", "live", "freed", "leaked"}]
  /\ sock \in [Clients -> Fds \cup {-1}]
  /\ next \in [Clients -> Clients \cup {Nil}]
  /\ prev \in [Clients -> Clients \cup {Nil}]
  /\ pc \in {"off", "loop", "select", "accept", "accept6", "read", "update",
             "exited", "shutdown", "freed", "crashed"}
  /\ fds \subseteq Fds
  /\ cur \in Clients \cup {Nil}
  /\ mTerminated \in BOOLEAN
  /\ hooked \in [Clients -> {0, 1}]
  /\ backlog \in [Listeners -> SUBSET Clients]
  /\ wire \in [Clients -> {"idle", "data", "eof"}]

Init ==
  /\ clientHead = Nil /\ pointerClient = Nil
  /\ allFds = {} /\ maxFd = 0 /\ listenSock = [l \in Listeners |-> -1]
  /\ mem = [c \in Clients |-> "unused"]
  /\ sock = [c \in Clients |-> -1]
  /\ next = [c \in Clients |-> Nil] /\ prev = [c \in Clients |-> Nil]
  /\ pc = "off" /\ fds = {} /\ cur = Nil /\ mTerminated = FALSE
  /\ hooked = [c \in Clients |-> 0]
  /\ backlog = [l \in Listeners |-> {}]
  /\ wire = [c \in Clients |-> "idle"]

-----------------------------------------------------------------------------
(***************************************************************************)
(* The network and the clients                                             *)
(***************************************************************************)
Waiting == UNION {backlog[l] : l \in Listeners}

Connect(c, l) ==
  /\ mem[c] \in {"unused", "freed"} /\ c \notin Waiting
  /\ listenSock[l] # -1
  /\ backlog' = [backlog EXCEPT ![l] = @ \cup {c}]
  /\ wire' = [wire EXCEPT ![c] = "idle"]
  /\ UNCHANGED <<listVars, socketVars, threadVars>>

Speak(c) ==
  /\ c \in Open \cup Waiting /\ wire[c] = "idle"
  /\ wire' = [wire EXCEPT ![c] = "data"]
  /\ UNCHANGED <<listVars, socketVars, threadVars, backlog>>

\* The client leaves; a connection nobody has accepted stays in the backlog.
HangUp(c) ==
  /\ c \in Open \cup Waiting /\ wire[c] # "eof"
  /\ wire' = [wire EXCEPT ![c] = "eof"]
  /\ UNCHANGED <<listVars, socketVars, threadVars, backlog>>

Network == \E c \in Clients : Speak(c) \/ HangUp(c) \/ \E l \in Listeners : Connect(c, l)

-----------------------------------------------------------------------------
(***************************************************************************)
(* The client list                                                         *)
(***************************************************************************)
UnusedFds == Fds \ (allFds \cup {listenSock[l] : l \in Listeners})

rfbCloseClientForgetsFds(c) ==
  /\ sock' = [sock EXCEPT ![c] = -1]
  /\ UNCHANGED <<allFds, maxFd, listenSock>>

\* rfbCloseClient: the record stays in the list.
rfbCloseClient(c) ==
  LET rest == allFds \ {sock[c]} IN
  /\ sock' = [sock EXCEPT ![c] = -1]
  /\ allFds' = rest
  /\ maxFd' = IF sock[c] = maxFd THEN Max(rest \cup {0}) ELSE maxFd
  /\ UNCHANGED listenSock

\* The backward pointer of the successor is not mended.
rfbClientConnectionGoneSingly(c) ==
  /\ clientHead' = IF prev[c] = Nil THEN next[c] ELSE clientHead
  /\ next' = [d \in Clients |-> IF d = prev[c] THEN next[c] ELSE next[d]]
  /\ hooked' = [hooked EXCEPT ![c] = @ - 1]
  /\ pointerClient' = IF pointerClient = c THEN Nil ELSE pointerClient
  /\ mem' = [mem EXCEPT ![c] = "freed"]
  /\ UNCHANGED prev

\* rfbClientConnectionGone: unlink, report, forget the pointer grab, free.
rfbClientConnectionGone(c) ==
  /\ clientHead' = IF prev[c] = Nil THEN next[c] ELSE clientHead
  /\ next' = [d \in Clients |-> IF d = prev[c] THEN next[c] ELSE next[d]]
  /\ prev' = [d \in Clients |-> IF d = next[c] THEN prev[c] ELSE prev[d]]
  /\ hooked' = [hooked EXCEPT ![c] = @ - 1]
  /\ pointerClient' = IF pointerClient = c THEN Nil ELSE pointerClient
  /\ mem' = [mem EXCEPT ![c] = "freed"]

\* The rest of rfbNewTCPOrUDPClient when all goes well: the record becomes the
\* head of the list and newClientHook, which always accepts, is told.
LinkClient(c, fd) ==
  /\ mem' = [mem EXCEPT ![c] = "live"]
  /\ sock' = [sock EXCEPT ![c] = fd]
  /\ allFds' = allFds \cup {fd} /\ maxFd' = Max({fd, maxFd})
  /\ next' = [next EXCEPT ![c] = clientHead]
  /\ prev' = [d \in Clients |-> CASE d = c -> Nil
                                  [] d = clientHead -> c
                                  [] OTHER -> prev[d]]
  /\ clientHead' = c
  /\ hooked' = [hooked EXCEPT ![c] = @ + 1]
  /\ UNCHANGED <<pointerClient, listenSock>>

\* rfbSetNonBlocking or setsockopt fails: the socket is closed and the record
\* forgotten without being freed.
LeakClient(c) ==
  /\ mem' = [mem EXCEPT ![c] = "leaked"]
  /\ UNCHANGED <<clientHead, next, prev, hooked, pointerClient, socketVars>>

\* The version message cannot be written: the record is linked, closed and
\* freed again.  clientGoneHook is not the application's yet.
DropClient(c) ==
  /\ mem' = [mem EXCEPT ![c] = "freed"]
  /\ UNCHANGED <<clientHead, next, prev, hooked, pointerClient, socketVars>>

-----------------------------------------------------------------------------
(***************************************************************************)
(* startServer and the worker: rfbProcessEvents                            *)
(***************************************************************************)

\* rfbInitSockets on a new screen: IPv6 is tried only if IPv4 succeeded, and
\* no failure is reported.
StartServer ==
  /\ pc = "off"
  /\ \E l4, l6 \in UnusedFds \cup {-1} :
       /\ l4 = -1 \/ 6 \notin Listeners => l6 = -1
       /\ l4 = l6 => l4 = -1
       /\ listenSock' = [l \in Listeners |-> IF l = 4 THEN l4 ELSE l6]
       /\ allFds' = {l4, l6} \ {-1}
       /\ maxFd' = Max({l4, l6, 0})
  /\ clientHead' = Nil /\ pointerClient' = Nil
  /\ backlog' = [l \in Listeners |-> {}]
  /\ pc' = "loop" /\ mTerminated' = FALSE
  /\ UNCHANGED <<fds, cur, mem, next, prev, hooked, sock, wire>>

\* The worker does not look at mTerminated.
WorkerLoopForever ==
  /\ pc = "loop" /\ pc' = "select"
  /\ UNCHANGED <<listVars, socketVars, netVars, fds, cur, mTerminated>>

\* One turn of the worker's loop.
WorkerLoop ==
  /\ pc = "loop"
  /\ pc' = IF mTerminated THEN "exited" ELSE "select"
  /\ UNCHANGED <<listVars, socketVars, netVars, fds, cur, mTerminated>>

Readable ==
  {listenSock[l] : l \in {l \in Listeners : backlog[l] # {}}}
  \cup {sock[c] : c \in {c \in Live : wire[c] # "idle"}}
Ready == {fd \in allFds : fd <= maxFd /\ fd \in Readable}

\* The second half of rfbProcessEvents starts, with rfbClientIteratorHead.
ToUpdate == pc' = "update" /\ cur' = clientHead' /\ fds' = {}

\* select() times out, or is interrupted.
SelectTimeout ==
  /\ pc = "select" /\ Ready = {}
  /\ UNCHANGED <<listVars, socketVars, netVars, mTerminated>>
  /\ ToUpdate

SelectReady ==
  /\ pc = "select" /\ Ready # {}
  /\ pc' = "accept" /\ fds' = Ready
  /\ UNCHANGED <<listVars, socketVars, netVars, cur, mTerminated>>

AcceptStage == [l \in Listeners |-> IF l = 4 THEN "accept" ELSE "accept6"]

\* After the check of listener l, with the descriptors that are left: on to
\* the other listener, or to the scan over the open clients.
AfterAccept(l, rest) ==
  /\ fds' = rest
  /\ IF l = 4 /\ 6 \in Listeners
     THEN pc' = "accept6" /\ UNCHANGED cur
     ELSE pc' = "read" /\ cur' = clientHead'

NothingToAccept(l) ==
  /\ pc = AcceptStage[l] /\ listenSock[l] \notin fds
  /\ UNCHANGED <<listVars, socketVars, netVars, mTerminated>>
  /\ AfterAccept(l, fds)

\* rfbProcessNewConnection finds out for itself, with a select() that has no
\* timeout, which listener has a connection; it prefers IPv6.
Chosen == IF 6 \in Listeners /\ backlog[6] # {} THEN 6 ELSE 4

rfbProcessNewConnection(l) ==
  /\ pc = AcceptStage[l] /\ listenSock[l] \in fds
  /\ \E c \in backlog[Chosen] :
       /\ backlog' = [backlog EXCEPT ![Chosen] = @ \ {c}]
       /\ \/ \* accept, or setting up the socket, fails
             UNCHANGED <<listVars, socketVars>> /\ ToUpdate
          \/ /\ \/ LeakClient(c)
                \/ DropClient(c)
                \/ \E fd \in UnusedFds : LinkClient(c, fd)
             /\ IF fds = {listenSock[l]} THEN ToUpdate
                ELSE AfterAccept(l, fds \ {listenSock[l]})
  /\ UNCHANGED <<wire, mTerminated>>

\* The scan of rfbCheckFds: a client that is not ready is passed over.
ReadNothing ==
  /\ pc = "read" /\ cur # Nil /\ sock[cur] # -1 /\ sock[cur] \notin fds
  /\ cur' = next[cur]
  /\ UNCHANGED <<listVars, socketVars, netVars, pc, fds, mTerminated>>

\* A pointer event with and without a button down: while one client holds the
\* pointer the events of the others are ignored.
PointerEvent(c) ==
  IF pointerClient \in {Nil, c} THEN pointerClient' \in {Nil, c}
                                ELSE UNCHANGED pointerClient

\* rfbProcessClientMessage reads one message.  It closes the connection when
\* the client has left or the message cannot be read or answered.
rfbProcessClientMessage ==
  /\ pc = "read" /\ cur # Nil /\ sock[cur] \in fds /\ wire[cur] # "idle"
  /\ cur' = next[cur]
  /\ \/ /\ wire[cur] = "data"
        /\ wire' \in {wire, [wire EXCEPT ![cur] = "idle"]}
        /\ PointerEvent(cur) \/ UNCHANGED pointerClient
        /\ UNCHANGED socketVars
     \/ rfbCloseClient(cur) /\ UNCHANGED <<wire, pointerClient>>
  /\ UNCHANGED <<clientHead, mem, next, prev, hooked, backlog, pc, fds, mTerminated>>

\* rfbClientIteratorNext leaves out the clients that are closed.
SkipClosed ==
  /\ pc \in {"read", "shutdown"} /\ cur # Nil /\ sock[cur] = -1
  /\ cur' = next[cur]
  /\ UNCHANGED <<listVars, socketVars, netVars, pc, fds, mTerminated>>

\* The same descriptors are worked on once more.
ReadDoneStale ==
  /\ pc = "read" /\ cur = Nil
  /\ IF fds = {} THEN pc' = "select" ELSE pc' = "accept"
  /\ UNCHANGED <<listVars, socketVars, netVars, fds, cur, mTerminated>>

\* handleEventsEagerly: back to select().
ReadDone ==
  /\ pc = "read" /\ cur = Nil
  /\ pc' = "select" /\ fds' = {}
  /\ UNCHANGED <<listVars, socketVars, netVars, cur, mTerminated>>

\* The client is freed before the iterator moves on.
UpdateClientGoneFirst ==
  /\ pc = "update" /\ cur # Nil
  /\ \/ sock[cur] # -1 /\ UNCHANGED <<listVars, socketVars>> /\ cur' = next[cur]
     \/ /\ IF sock[cur] = -1 THEN UNCHANGED socketVars ELSE rfbCloseClient(cur)
        /\ rfbClientConnectionGone(cur) /\ UNCHANGED cur
  /\ UNCHANGED <<netVars, pc, fds, mTerminated>>

\* The closed client is left in the list.
UpdateClientForgetsClosed ==
  /\ pc = "update" /\ cur # Nil
  /\ cur' = next[cur]
  /\ \/ UNCHANGED <<listVars, socketVars>>
     \/ sock[cur] # -1 /\ rfbCloseClient(cur) /\ rfbClientConnectionGone(cur)
  /\ UNCHANGED <<netVars, pc, fds, mTerminated>>

\* rfbUpdateClient, which may find that the connection is broken, the step of
\* the iterator and the burial of a client that is closed.
UpdateClient ==
  /\ pc = "update" /\ cur # Nil
  /\ cur' = next[cur]
  /\ \/ sock[cur] # -1 /\ UNCHANGED <<listVars, socketVars>>
     \/ /\ IF sock[cur] = -1 THEN UNCHANGED socketVars ELSE rfbCloseClient(cur)
        /\ rfbClientConnectionGone(cur)
  /\ UNCHANGED <<netVars, pc, fds, mTerminated>>

UpdateDone ==
  /\ pc = "update" /\ cur = Nil /\ pc' = "loop"
  /\ UNCHANGED <<listVars, socketVars, netVars, fds, cur, mTerminated>>

Worker ==
  \/ WorkerLoop \/ SelectTimeout \/ SelectReady
  \/ \E l \in Listeners : NothingToAccept(l) \/ rfbProcessNewConnection(l)
  \/ ReadNothing \/ rfbProcessClientMessage \/ SkipClosed \/ ReadDone
  \/ UpdateClient \/ UpdateDone

-----------------------------------------------------------------------------
(***************************************************************************)
(* cleanup() on the main thread                                            *)
(***************************************************************************)
StopServer ==
  /\ pc \notin {"off", "exited", "shutdown", "freed", "crashed"} /\ ~mTerminated
  /\ mTerminated' = TRUE
  /\ UNCHANGED <<listVars, socketVars, netVars, pc, fds, cur>>

\* Only the sockets are shut down, the clients are not told.
ShutdownBeginsAtSockets ==
  /\ pc = "exited" /\ pc' = "shutdown" /\ cur' = Nil
  /\ UNCHANGED <<listVars, socketVars, netVars, fds, mTerminated>>

\* The join returns and rfbShutdownServer begins.
ShutdownBegins ==
  /\ pc = "exited" /\ pc' = "shutdown" /\ cur' = clientHead
  /\ UNCHANGED <<listVars, socketVars, netVars, fds, mTerminated>>

\* Close and free a client inside the iteration.
ShutdownClient ==
  /\ pc = "shutdown" /\ cur # Nil /\ sock[cur] # -1
  /\ rfbCloseClient(cur) /\ rfbClientConnectionGone(cur)
  /\ pc' = "freed"
  /\ UNCHANGED <<netVars, fds, cur, mTerminated>>

\* rfbClientIteratorNext reads the successor from the freed record: usually
\* the memory is as it was, otherwise the process crashes.
NextOfFreed ==
  /\ pc = "freed"
  /\ \/ pc' = "shutdown" /\ cur' = next[cur]
     \/ pc' = "crashed" /\ UNCHANGED cur
  /\ UNCHANGED <<listVars, socketVars, netVars, fds, mTerminated>>

\* rfbShutdownSockets.
ShutdownSockets ==
  /\ pc = "shutdown" /\ cur = Nil
  /\ listenSock' = [l \in Listeners |-> -1]
  /\ allFds' = allFds \ {listenSock[l] : l \in Listeners}
  /\ backlog' = [l \in Listeners |-> {}]
  /\ pc' = "off"
  /\ UNCHANGED <<listVars, maxFd, sock, wire, fds, cur, mTerminated>>

Shutdown ==
  ShutdownBegins \/ ShutdownClient \/ NextOfFreed \/ ShutdownSockets

Next == Network \/ StartServer \/ Worker \/ StopServer \/ Shutdown

\* The worker runs, and the main thread finishes what it began.  select() times
\* out when time and again there is nothing for it to report.
Fairness == WF_vars(Worker) /\ SF_vars(SelectTimeout) /\ WF_vars(Shutdown)

Spec == Init /\ [][Next]_vars /\ Fairness

-----------------------------------------------------------------------------
(***************************************************************************)
(* Properties                                                              *)
(***************************************************************************)

\* The client list is doubly linked between its live records: links and back
\* links agree, none leads to a record that was freed, and the record without
\* a predecessor is the one clientHead points to.
ListWellFormed ==
  /\ clientHead = Nil <=> Live = {}
  /\ clientHead \in Live \cup {Nil}
  /\ \A c \in Live :
       /\ next[c] # Nil => next[c] \in Live /\ prev[next[c]] = c
       /\ prev[c] # Nil => prev[c] \in Live /\ next[prev[c]] = c
       /\ prev[c] = Nil <=> clientHead = c

\* The worker never stands on a freed record: rfbProcessEvents frees a client
\* only after its iterator has moved on, rfbCheckFds only closes them.
WorkerOnLiveRecord == pc \in {"read", "update"} => cur \in Live \cup {Nil}

\* The client that holds the pointer is in the list; a grab that survived its
\* client would shut all later clients out.
PointerHolderLives == pointerClient \in Live \cup {Nil}

\* select() watches every open client, within maxFd, and no descriptor that
\* has been closed, which would make it fail for ever.
SelectWatches ==
  pc \notin {"off", "crashed"} =>
    /\ \A c \in Open : sock[c] \in allFds /\ sock[c] <= maxFd
    /\ \A c, d \in Open : sock[c] = sock[d] => c = d
    /\ allFds = {sock[c] : c \in Open} \cup ({listenSock[l] : l \in Listeners} \ {-1})

\* Between two calls of rfbProcessEvents no client is closed and still in the
\* list.  rfbShutdownServer relies on it: its iterator leaves closed clients
\* out, and one that is left out is neither reported gone nor freed.
ClosedAreCollected == pc \in {"loop", "exited", "shutdown"} => Live = Open

\* The worker does not block in a call: it reads only from a client that has
\* sent something or left, and looks for a new connection, without a timeout,
\* only when there is one.
NeverBlocks ==
  /\ \A l \in Listeners :
       pc = AcceptStage[l] /\ listenSock[l] \in fds => backlog[Chosen] # {}
  /\ pc = "read" /\ cur # Nil /\ sock[cur] \in fds => wire[cur] # "idle"

\* The hooks of the application are called in turn for each client, and all
\* clients have been reported gone when the shutdown ends.
Events == INSTANCE ClientEvents WITH serving <- pc # "off",
                                     connected <- {c \in Clients : hooked[c] # 0}
EventsSpec == Events!Spec

\* The clients do not send, and do not connect, without a pause for ever.
ClientsPause == []<>(pc = "select") => []<>(pc = "select" /\ Ready = {})

\* If the clients pause, one that leaves is reported gone, unless the process
\* crashes: the end of its connection, found by a read that is followed by an
\* eager select() or by a write that fails, is collected by rfbProcessEvents.
LeaverReported ==
  ClientsPause =>
    \A c \in Clients :
      (c \in Live /\ wire[c] = "eof") ~> (c \notin Live \/ pc = "crashed")

\* If the clients pause, stopServer comes to an end once it is called: the
\* worker leaves its loop and the shutdown finds its way through the list.
ShutdownEnds == ClientsPause => (mTerminated ~> pc \in {"off", "crashed"})

\* An iterator keeps its record from being freed.
IteratorHoldsRecord ==
  pc \in {"read", "update", "shutdown", "freed"} => cur \in Live \cup {Nil}
=============================================================================
