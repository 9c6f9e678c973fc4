--------------------------- MODULE FramePipeline ---------------------------
(***************************************************************************)
(* The path of a picture from the renderer to the VNC clients.  Two        *)
(* threads share it:                                                       *)
(*   - the main thread binds and destroys the service (startServer,        *)
(*     stopServer), starts and stops the projection and, for each picture  *)
(*     of the virtual display, draws it (TextureRender.drawFrame), swaps   *)
(*     its buffer for the clean one and raises mFrameAvailable;            *)
(*   - the worker (VncServer::worker) alternates rfbProcessEvents, which   *)
(*     reads the served frame buffer, with taking the clean buffer when    *)
(*     mFrameAvailable is up, and marks the clients' regions as modified.  *)
(* A step is one critical section, one call into the graphics stack, or a  *)
(* stretch of code that touches nothing the other thread touches.          *)
(*                                                                         *)
(* Pictures are the numbers 1, 2, ... in the order they are drawn after a  *)
(* server start; Blank is the content of a fresh buffer, Torn that of a    *)
(* buffer the GPU is still drawing into.  A client's modifiedRegion and    *)
(* requestedRegion are the booleans "not empty": which pixels compare()    *)
(* puts into the region is the subject of module DirtyRect.                *)
(***************************************************************************)
EXTENDS BufferManager, FiniteSets

CONSTANTS Clients,     \* the VNC clients that may connect
          MaxFrames,   \* bound on the pictures drawn after a server start
          NULL         \* nullptr

ASSUME MaxFramesAssumption == MaxFrames \in Nat
ASSUME NULLAssumption == NULL \notin Buffers

VARIABLES
  \* class VncServer
  mVncBuffer, mCmpBuffer, mGlBuffer,
  mFrameAvailable, mFrameAvailableLock, mTerminated,
  frameBuffer,         \* mRfbScreenInfoPtr->frameBuffer: the buffer it maps
  wpc,                 \* where the worker is; "none": mWorkerThread not joinable
  \* VncGraphicBuffer
  content,             \* the picture in each buffer
  locked,              \* the buffers locked for the CPU
  \* VncProjectionService and TextureRender
  mBound,              \* the service is bound: startServer was called
  projecting,          \* mSurface # null: the renderer is up
  mpc,                 \* where the main thread is
  \* the rfb clients
  clients, modifiedRegion, requestedRegion,
  shown,               \* the picture each client has
  \* history, read by the properties only
  drawn,               \* pictures drawn since the server start
  published,           \* newest picture swapped in since the projection start
  fresh                \* no take since published was swapped in

serverVars  == <<mVncBuffer, mCmpBuffer, mFrameAvailable, mFrameAvailableLock,
                 mTerminated, frameBuffer, locked>>
rendererVars == <<mGlBuffer, content, mBound, projecting, mpc, drawn>>
clientVars  == <<clients, modifiedRegion, requestedRegion, shown>>
historyVars == <<published, fresh>>
vars == <<bmVars, serverVars, rendererVars, clientVars, historyVars, wpc>>

Blank == 0
Torn == -1
Pictures == {Torn} \cup 0..MaxFrames

WorkerPC == {"none", "loop", "fds", "update", "check", "unlock", "get", "lock",
             "mark", "cmpLock", "compare", "exited"}
MainPC == {"idle", "start", "draw", "swap", "notify", "join"}

\* Type invariant of VncServer, the buffers, the threads and the clients; it
\* includes that every role is an index of an existing mBuffers slot.
TypeOK ==
  /\ BMTypeOK
  /\ mVncBuffer \in Buffers \cup {NULL} /\ mCmpBuffer \in Buffers \cup {NULL}
  /\ mGlBuffer \in Buffers \cup {NULL} /\ frameBuffer \in Buffers \cup {NULL}
  /\ mFrameAvailable \in BOOLEAN /\ mTerminated \in BOOLEAN
  /\ mFrameAvailableLock \in {"free", "worker"}
  /\ wpc \in WorkerPC /\ mpc \in MainPC
  /\ content \in [Buffers -> Pictures]
  /\ locked \in SUBSET Buffers
  /\ mBound \in BOOLEAN /\ projecting \in BOOLEAN
  /\ clients \in SUBSET Clients
  /\ modifiedRegion \in [Clients -> BOOLEAN]
  /\ requestedRegion \in [Clients -> BOOLEAN]
  /\ shown \in [Clients -> Pictures]
  /\ drawn \in 0..MaxFrames /\ published \in 0..MaxFrames
  /\ fresh \in BOOLEAN

Init ==
  /\ BMInit
  /\ mVncBuffer = NULL /\ mCmpBuffer = NULL /\ mGlBuffer = NULL
  /\ mFrameAvailable = FALSE /\ mFrameAvailableLock = "free"
  /\ mTerminated = TRUE
  /\ frameBuffer = NULL
  /\ wpc = "none" /\ mpc = "idle"
  /\ content = [b \in Buffers |-> Blank]
  /\ locked = {}
  /\ mBound = FALSE /\ projecting = FALSE
  /\ clients = {}
  /\ modifiedRegion = [c \in Clients |-> FALSE]
  /\ requestedRegion = [c \in Clients |-> FALSE]
  /\ shown = [c \in Clients |-> Blank]
  /\ drawn = 0 /\ published = 0 /\ fresh = FALSE

-----------------------------------------------------------------------------
(***************************************************************************)
(* The main thread                                                         *)
(***************************************************************************)

\* onBind, the first time, up to allocateBuffers.  A failed allocation makes
\* startServer return early, which onBind ignores.
StartServer(mode, bufs) ==
  /\ mpc = "idle" /\ ~mBound
  /\ Allocate(mode, bufs)
  /\ mBound' = TRUE
  /\ mpc' = IF bufs = BuffersOf(mode) THEN "start" ELSE "idle"
  /\ UNCHANGED <<serverVars, mGlBuffer, content, projecting, drawn, clientVars,
                 historyVars, wpc>>

\* Mutant: the clean buffer is handed out as the compare buffer.
TakeConsumerWrongCompare ==
  /\ GetConsumer
  /\ mVncBuffer' = mConsumer'
  /\ mCmpBuffer' = IF mMode = "WITH_COMPARE" THEN mClean' ELSE NULL

\* The call of getConsumer in setVncFramebuffer.
TakeConsumer ==
  /\ GetConsumer
  /\ mVncBuffer' = mConsumer'
  /\ mCmpBuffer' = IF mMode = "WITH_COMPARE" THEN mCompare' ELSE NULL

\* The rest of startServer: setVncFramebuffer (mVncBuffer is null, nothing is
\* unlocked), rfbInitServer, the worker thread.  No other thread runs yet.
RunServer ==
  /\ mpc = "start"
  /\ TakeConsumer
  /\ locked' = {mVncBuffer'}
  /\ frameBuffer' = mVncBuffer'
  /\ mTerminated' = FALSE
  /\ wpc' = "loop"
  /\ mpc' = "idle"
  /\ UNCHANGED <<mFrameAvailable, mFrameAvailableLock, mGlBuffer, content,
                 mBound, projecting, drawn, clientVars, historyVars>>

\* Swap the producer's buffer for the clean one and attach it to the render
\* texture: what is drawn next goes into it.
BindNextProducerBuffer ==
  /\ GetProducer
  /\ mGlBuffer' = mProducer'

\* TextureRender.start: initGL swaps buffers although nothing was drawn, and
\* does not raise mFrameAvailable.
InitGL == BindNextProducerBuffer

\* A CLIENT_CONNECTED event when the renderer is not up.
StartProjection ==
  /\ mpc = "idle" /\ ~projecting /\ wpc # "none"
  /\ projecting' = TRUE
  /\ InitGL
  /\ published' = 0 /\ fresh' = FALSE
  /\ UNCHANGED <<serverVars, content, mBound, mpc, drawn, clientVars, wpc>>

\* A CLIENT_DISCONNECTED event.
StopProjection ==
  /\ mpc = "idle" /\ projecting
  /\ projecting' = FALSE
  /\ UNCHANGED <<bmVars, serverVars, mGlBuffer, content, mBound, mpc, drawn,
                 clientVars, historyVars, wpc>>

\* onFrameAvailable: updateTexImage, then draw() hands the GPU its commands.
BeginDraw ==
  /\ mpc = "idle" /\ projecting
  /\ drawn < MaxFrames
  /\ content' = [content EXCEPT ![mGlBuffer] = Torn]
  /\ mpc' = "draw"
  /\ UNCHANGED <<bmVars, serverVars, mGlBuffer, mBound, projecting, drawn,
                 clientVars, historyVars, wpc>>

\* glFinish at the end of draw(): the picture is complete.
FinishDraw ==
  /\ mpc = "draw"
  /\ drawn' = drawn + 1
  /\ content' = [content EXCEPT ![mGlBuffer] = drawn']
  /\ mpc' = "swap"
  /\ UNCHANGED <<bmVars, serverVars, mGlBuffer, mBound, projecting, clientVars,
                 historyVars, wpc>>

\* Mutant: drawFrame announces the picture without swapping buffers.
SwapBuffersNoSwap ==
  /\ mpc = "swap"
  /\ mpc' = "notify"
  /\ published' = drawn /\ fresh' = TRUE
  /\ UNCHANGED <<bmVars, serverVars, mGlBuffer, content, mBound, projecting,
                 drawn, clientVars, wpc>>

SwapBuffers ==
  /\ mpc = "swap"
  /\ BindNextProducerBuffer
  /\ mpc' = "notify"
  /\ published' = drawn /\ fresh' = TRUE
  /\ UNCHANGED <<serverVars, content, mBound, projecting, drawn, clientVars, wpc>>

FrameAvailable ==
  /\ mpc = "notify"
  /\ mFrameAvailableLock = "free"
  /\ mFrameAvailable' = TRUE
  /\ mpc' = "idle"
  /\ UNCHANGED <<bmVars, mVncBuffer, mCmpBuffer, mFrameAvailableLock,
                 mTerminated, frameBuffer, locked, mGlBuffer, content, mBound,
                 projecting, drawn, clientVars, historyVars, wpc>>

\* onDestroy: stopProjection, then cleanup() up to the join.
StopServer ==
  /\ mpc = "idle" /\ mBound
  /\ projecting' = FALSE
  /\ mTerminated' = TRUE
  /\ mpc' = "join"
  /\ UNCHANGED <<bmVars, mVncBuffer, mCmpBuffer, mFrameAvailable,
                 mFrameAvailableLock, frameBuffer, locked, mGlBuffer, content,
                 mBound, drawn, clientVars, historyVars, wpc>>

\* cleanup() after the join: rfbShutdownServer closes every client and
\* releaseBuffers frees the buffers, the locked one included.
Cleanup ==
  /\ mpc = "join" /\ wpc \in {"none", "exited"}
  /\ wpc' = "none"
  /\ clients' = {}
  /\ modifiedRegion' = [c \in Clients |-> FALSE]
  /\ requestedRegion' = [c \in Clients |-> FALSE]
  /\ shown' = [c \in Clients |-> Blank]
  /\ frameBuffer' = NULL
  /\ Release
  /\ locked' = {}
  /\ mVncBuffer' = NULL /\ mGlBuffer' = NULL /\ mCmpBuffer' = NULL
  /\ mFrameAvailable' = FALSE
  /\ mBound' = FALSE
  /\ mpc' = "idle"
  /\ published' = 0 /\ fresh' = FALSE
  /\ content' = [b \in Buffers |-> Blank]
  /\ drawn' = 0
  /\ UNCHANGED <<mFrameAvailableLock, mTerminated, projecting>>

-----------------------------------------------------------------------------
(***************************************************************************)
(* The worker                                                              *)
(***************************************************************************)

WorkerGoes(from, to) == wpc = from /\ wpc' = to

\* Mutant: the loop condition does not look at mTerminated.
WorkerLoopForever ==
  /\ WorkerGoes("loop", "fds")
  /\ UNCHANGED <<bmVars, serverVars, rendererVars, clientVars, historyVars>>

\* The loop condition.  rfbIsActive holds until rfbShutdownServer, which runs
\* after the join.
WorkerLoop ==
  /\ WorkerGoes("loop", IF mTerminated THEN "exited" ELSE "fds")
  /\ UNCHANGED <<bmVars, serverVars, rendererVars, clientVars, historyVars>>

\* rfbCheckFds: a connection.  A new client lacks the whole screen.
NewClient(c) ==
  /\ wpc = "fds" /\ c \notin clients
  /\ clients' = clients \cup {c}
  /\ modifiedRegion' = [modifiedRegion EXCEPT ![c] = TRUE]
  /\ requestedRegion' = [requestedRegion EXCEPT ![c] = FALSE]
  /\ shown' = [shown EXCEPT ![c] = Blank]
  /\ UNCHANGED <<bmVars, serverVars, rendererVars, historyVars, wpc>>

\* rfbCheckFds: a FramebufferUpdateRequest.
UpdateRequest(c, incremental) ==
  /\ wpc = "fds" /\ c \in clients
  /\ requestedRegion' = [requestedRegion EXCEPT ![c] = TRUE]
  /\ modifiedRegion' = [modifiedRegion EXCEPT ![c] = @ \/ ~incremental]
  /\ UNCHANGED <<bmVars, serverVars, rendererVars, clients, shown, historyVars,
                 wpc>>

\* rfbCheckFds returns: select found nothing for 5 ms.
FdsIdle ==
  /\ WorkerGoes("fds", "update")
  /\ UNCHANGED <<bmVars, serverVars, rendererVars, clientVars, historyVars>>

\* The second half of rfbProcessEvents: rfbUpdateClient sends the served
\* picture to the clients that lack and want some of it; clients whose
\* connection broke are dropped.
UpdateClients(gone) ==
  LET served == {c \in clients : modifiedRegion[c] /\ requestedRegion[c]} IN
  /\ WorkerGoes("update", "check")
  /\ clients' = clients \ gone
  /\ shown' = [c \in Clients |-> IF c \notin clients' THEN Blank
                                 ELSE IF c \in served THEN content[frameBuffer]
                                 ELSE shown[c]]
  /\ modifiedRegion' = [c \in Clients |-> c \in clients' \ served /\ modifiedRegion[c]]
  /\ requestedRegion' = [c \in Clients |-> c \in clients' \ served /\ requestedRegion[c]]
  /\ UNCHANGED <<bmVars, serverVars, rendererVars, historyVars>>

\* worker takes mFrameAvailableLock; it keeps it while it takes a new frame.
NoFrame ==
  /\ mFrameAvailableLock = "free" /\ ~mFrameAvailable
  /\ WorkerGoes("check", "loop")
  /\ UNCHANGED <<bmVars, serverVars, rendererVars, clientVars, historyVars>>

\* Mutant: mFrameAvailable is not cleared.
FrameFoundNotCleared ==
  /\ mFrameAvailableLock = "free" /\ mFrameAvailable
  /\ WorkerGoes("check", "unlock")
  /\ mFrameAvailableLock' = "worker"
  /\ UNCHANGED <<bmVars, mFrameAvailable, mVncBuffer, mCmpBuffer, mTerminated,
                 frameBuffer, locked, rendererVars, clientVars, historyVars>>

FrameFound ==
  /\ mFrameAvailableLock = "free" /\ mFrameAvailable
  /\ WorkerGoes("check", "unlock")
  /\ mFrameAvailable' = FALSE
  /\ mFrameAvailableLock' = "worker"
  /\ UNCHANGED <<bmVars, mVncBuffer, mCmpBuffer, mTerminated, frameBuffer,
                 locked, rendererVars, clientVars, historyVars>>

\* Mutant: setVncFramebuffer does not unlock the old buffer.
UnlockBufferForgotten ==
  /\ WorkerGoes("unlock", "get")
  /\ UNCHANGED <<bmVars, serverVars, rendererVars, clientVars, historyVars>>

\* setVncFramebuffer in three steps: unlock, getConsumer, lock.
UnlockBuffer ==
  /\ WorkerGoes("unlock", "get")
  /\ locked' = locked \ {mVncBuffer}
  /\ UNCHANGED <<bmVars, mVncBuffer, mCmpBuffer, mFrameAvailable,
                 mFrameAvailableLock, mTerminated, frameBuffer, rendererVars,
                 clientVars, historyVars>>

TakeFrame ==
  /\ WorkerGoes("get", "lock")
  /\ TakeConsumer
  /\ fresh' = FALSE
  /\ UNCHANGED <<mFrameAvailable, mFrameAvailableLock, mTerminated,
                 frameBuffer, locked, rendererVars, clientVars, published>>

LockBuffer ==
  /\ WorkerGoes("lock", IF mCmpBuffer = NULL THEN "mark" ELSE "cmpLock")
  /\ locked' = locked \cup {mVncBuffer}
  /\ frameBuffer' = mVncBuffer
  /\ mFrameAvailableLock' = "free"
  /\ UNCHANGED <<bmVars, mVncBuffer, mCmpBuffer, mFrameAvailable, mTerminated,
                 rendererVars, clientVars, historyVars>>

\* rfbMarkRectAsModified: every client of the list lacks the region.
Mark == modifiedRegion' = [c \in Clients |-> modifiedRegion[c] \/ c \in clients]

\* Mutant: without a compare buffer nothing is marked.
MarkScreenForgotten ==
  /\ WorkerGoes("mark", "loop")
  /\ UNCHANGED <<bmVars, serverVars, rendererVars, clientVars, historyVars>>

MarkScreen ==
  /\ WorkerGoes("mark", "loop")
  /\ Mark
  /\ UNCHANGED <<bmVars, serverVars, rendererVars, clients, requestedRegion,
                 shown, historyVars>>

LockCmpBuffer ==
  /\ WorkerGoes("cmpLock", "compare")
  /\ locked' = locked \cup {mCmpBuffer}
  /\ UNCHANGED <<bmVars, mVncBuffer, mCmpBuffer, mFrameAvailable,
                 mFrameAvailableLock, mTerminated, frameBuffer, rendererVars,
                 clientVars, historyVars>>

\* compare() marks a rectangle when the two buffers differ; then unlock.
Compare ==
  /\ WorkerGoes("compare", "loop")
  /\ IF content[mCmpBuffer] # content[frameBuffer]
       THEN Mark ELSE UNCHANGED modifiedRegion
  /\ locked' = locked \ {mCmpBuffer}
  /\ UNCHANGED <<bmVars, mVncBuffer, mCmpBuffer, mFrameAvailable,
                 mFrameAvailableLock, mTerminated, frameBuffer, rendererVars,
                 clients, requestedRegion, shown, historyVars>>

-----------------------------------------------------------------------------
Main ==
  \/ \E mode \in MODE, n \in 0..4 : StartServer(mode, 0..(n - 1))
  \/ RunServer
  \/ StartProjection \/ StopProjection
  \/ BeginDraw \/ FinishDraw \/ SwapBuffers \/ FrameAvailable
  \/ StopServer \/ Cleanup

Worker ==
  \/ WorkerLoop \/ FdsIdle
  \/ \E gone \in SUBSET Clients : UpdateClients(gone)
  \/ NoFrame \/ FrameFound
  \/ UnlockBuffer \/ TakeFrame \/ LockBuffer
  \/ MarkScreen \/ LockCmpBuffer \/ Compare

ClientInput ==
  \E c \in Clients : \/ NewClient(c)
                     \/ \E incremental \in BOOLEAN : UpdateRequest(c, incremental)

Next == Main \/ Worker \/ ClientInput

\* The main thread finishes a handler it has begun; nobody is obliged to start
\* one.  The worker keeps running: in particular its select() times out now
\* and then, that is, the clients do not send without a pause for ever.
Fairness ==
  /\ WF_vars(Worker)
  /\ WF_vars(RunServer \/ FinishDraw \/ SwapBuffers \/ FrameAvailable \/ Cleanup)

Spec == Init /\ [][Next]_vars /\ Fairness

-----------------------------------------------------------------------------
(***************************************************************************)
(* Properties                                                              *)
(***************************************************************************)

\* The buffer the GPU draws into (between the first command of draw() and the
\* return of glFinish()) is neither mapped for the CPU nor one of those the
\* worker serves from or compares with.
NoTearing ==
  mpc = "draw" => mGlBuffer \notin locked \cup {mVncBuffer, mCmpBuffer}

\* AHardwareBuffer_lock and _unlock are paired: at every point of the worker's
\* loop exactly the buffers it is about to read are locked, none twice, and
\* none is unlocked that was not locked; frameBuffer points into a locked
\* buffer whenever rfbProcessEvents or compare() uses it.
LockDiscipline ==
  /\ wpc \in {"none", "get", "lock"} => locked = {}
  /\ wpc = "compare" => locked = {mVncBuffer, mCmpBuffer} /\ mCmpBuffer # mVncBuffer
  /\ wpc \notin {"none", "get", "lock", "compare"} => locked = {mVncBuffer}
  /\ wpc \notin {"none", "lock"} => frameBuffer = mVncBuffer

\* The newest picture swapped in since the projection started is not lost: it
\* stays in the clean, the served or the compare buffer, out of the renderer's
\* reach, until a newer one is swapped in, whatever the worker does meanwhile.
NewestKept ==
  published # 0 =>
    \E b \in ({mClean, mConsumer, mCompare} \cap mBuffers) \ {mProducer} :
      content[b] = published

\* A client whose modifiedRegion is empty already has the picture the server
\* serves: every exchange of frameBuffer that changes the picture is followed
\* by a mark before clients are looked at again.  This rests on the compare
\* buffer still holding the picture that was served before the exchange.
ClientsUpToDate ==
  wpc \in {"loop", "fds", "update", "check", "unlock", "get", "exited"} =>
    \A c \in clients : modifiedRegion[c] \/ shown[c] = content[frameBuffer]

\* Every raised mFrameAvailable is consumed, by a take or by a server stop.
FrameConsumed == mFrameAvailable ~> ~mFrameAvailable

\* stopServer returns: the worker leaves its loop and the join succeeds.
StopReturns == mpc = "join" ~> mpc = "idle"

\* A client that asked for an update and does not have the served picture gets
\* it, or disconnects.
UpdateDelivered ==
  \A c \in Clients :
    (c \in clients /\ requestedRegion[c] /\ shown[c] # content[frameBuffer])
      ~> (c \notin clients \/ shown[c] = content[frameBuffer])

\* The pipeline implements the one-slot mailbox of FrameMailbox: the served
\* picture changes in takes only (never because the renderer draws into the
\* served buffer), a take serves the newest untaken picture, an older one only
\* when the slot is empty, and never an incomplete one; each swap is worth at
\* most one take.
outstandingNow == (IF mFrameAvailable \/ wpc \in {"unlock", "get"} THEN 1 ELSE 0)
                  + (IF mpc = "notify" THEN 1 ELSE 0)
servedNow == IF mVncBuffer = NULL THEN Blank ELSE content[mVncBuffer]

Mailbox == INSTANCE FrameMailbox WITH outstanding <- outstandingNow,
                                      served <- servedNow
MailboxSpec == Mailbox!Spec
=============================================================================
