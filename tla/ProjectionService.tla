------------------------- MODULE ProjectionService -------------------------
(***************************************************************************)
(* VncProjectionService between Android, which creates and destroys it,    *)
(* and the VNC server, whose worker thread tells it through VncJni that    *)
(* clients came and went.  Everything the service does it does on the main *)
(* thread, one message of the main looper after another; the worker runs   *)
(* beside it and only appends to the looper's queue.                       *)
(*                                                                         *)
(* The messages are the life-cycle calls "CREATE", "BIND" and "DESTROY"    *)
(* and the service's own "CONNECTED" and "DISCONNECTED" (CLIENT_CONNECTED, *)
(* CLIENT_DISCONNECTED); the other events are only logged and left out.    *)
(* A handler survives its service: what is in the queue when onDestroy     *)
(* runs is still handled afterwards, by the old instance.                  *)
(***************************************************************************)
EXTENDS Integers, Sequences, FiniteSets

CONSTANTS Clients,    \* the VNC clients that may connect
          SettingNames, \* the system settings changed: brightness, orientation
          MaxQueue    \* bound: no client connects behind a longer queue

ASSUME MaxQueueAssumption == MaxQueue \in Nat

VARIABLES
  queue,              \* the main looper's message queue
  mpc,                \* "idle" between messages, "join" in stopServer, "dead"
  \* Android
  requested,          \* the activity wants the service
  canWrite,           \* Settings.System.canWrite
  system,             \* the system settings the service changes
  \* VncProjectionService
  mBound,
  mWanted,            \* mDimBrightness, mRotateToLandscape
  mSaved,             \* mBrightness, mScreenOrientation
  mSurface,           \* not null, and with it mTextureRender, mVirtualDisplay
  mMediaProjection,   \* not null
  unstopped,          \* MediaProjections obtained and not stopped
  \* VncJni and VncServer
  mListener,          \* the service is registered
  mBufferManager,     \* not null
  worker,             \* mWorkerThread: "none", "running" or "exited"
  connected           \* the clients of the rfb screen

androidVars == <<requested, canWrite>>
optionVars == <<mBound, mWanted>>
projectionVars == <<mSurface, mMediaProjection, unstopped>>
settingVars == <<mSaved, system>>
serverVars == <<mListener, mBufferManager, worker, connected>>
vars == <<queue, mpc, androidVars, optionVars, projectionVars, settingVars,
          serverVars>>

\* "user": what the user has chosen; "server": dimmed, landscape; "unset": the
\* initial value of the service's field
SettingValues == {"user", "server", "unset"}
Messages == {"CREATE", "BIND", "DESTROY", "CONNECTED", "DISCONNECTED"}

\* Type invariant; that unstopped is a natural number says that stop() is never
\* called on a MediaProjection that is not there.
TypeOK ==
  /\ queue \in Seq(Messages)
  /\ mpc \in {"idle", "join", "dead"}
  /\ requested \in BOOLEAN /\ canWrite \in BOOLEAN
  /\ system \in [SettingNames -> SettingValues]
  /\ mBound \in BOOLEAN /\ mWanted \in [SettingNames -> BOOLEAN]
  /\ mSaved \in [SettingNames -> SettingValues]
  /\ mSurface \in BOOLEAN /\ mMediaProjection \in BOOLEAN /\ unstopped \in Nat
  /\ mListener \in BOOLEAN /\ mBufferManager \in BOOLEAN
  /\ worker \in {"none", "running", "exited"}
  /\ connected \in SUBSET Clients

Init ==
  /\ queue = <<>> /\ mpc = "idle" /\ requested = FALSE
  /\ mBound = FALSE /\ mWanted = [s \in SettingNames |-> FALSE]
  /\ mSaved = [s \in SettingNames |-> "unset"]
  /\ mSurface = FALSE /\ mMediaProjection = FALSE /\ unstopped = 0
  /\ mListener = FALSE /\ mBufferManager = FALSE
  /\ worker = "none" /\ connected = {}
  /\ canWrite \in BOOLEAN
  /\ system = [s \in SettingNames |-> "user"]

-----------------------------------------------------------------------------
(***************************************************************************)
(* Android and the user                                                    *)
(***************************************************************************)

Queued(m) == \E k \in 1..Len(queue) : queue[k] = m

\* bindService, after the user has agreed to share the screen.  That dialogue
\* takes longer than a pending onDestroy.
RequestBind ==
  /\ mpc = "idle" /\ ~requested /\ ~Queued("DESTROY")
  /\ requested' = TRUE
  /\ queue' = queue \o <<"CREATE", "BIND">>
  /\ UNCHANGED <<mpc, canWrite, optionVars, projectionVars, settingVars,
                 serverVars>>

\* unbindService and stopService.
RequestStop ==
  /\ mpc = "idle" /\ requested
  /\ requested' = FALSE
  /\ queue' = Append(queue, "DESTROY")
  /\ UNCHANGED <<mpc, canWrite, optionVars, projectionVars, settingVars,
                 serverVars>>

\* The user permits the app to change system settings.
GrantWrite ==
  /\ ~canWrite
  /\ canWrite' = TRUE
  /\ UNCHANGED <<queue, mpc, requested, optionVars, projectionVars, settingVars,
                 serverVars>>

\* The app is started again after its process died.
Relaunch ==
  /\ mpc = "dead"
  /\ mpc' = "idle"
  /\ UNCHANGED <<queue, androidVars, optionVars, projectionVars, settingVars,
                 serverVars>>

-----------------------------------------------------------------------------
(***************************************************************************)
(* The worker, in rfbProcessEvents                                         *)
(***************************************************************************)

\* VncServer::postEventToUI, VncJni.onNotification, Handler.sendMessage
postEventToUI(what) == queue' = IF mListener THEN Append(queue, what) ELSE queue

clientHook(c) ==
  /\ worker = "running" /\ c \notin connected /\ Len(queue) < MaxQueue
  /\ connected' = connected \cup {c}
  /\ postEventToUI("CONNECTED")
  /\ UNCHANGED <<mpc, androidVars, optionVars, projectionVars, settingVars,
                 mListener, mBufferManager, worker>>

clientGone(c) ==
  /\ worker = "running" /\ c \in connected
  /\ connected' = connected \ {c}
  /\ postEventToUI("DISCONNECTED")
  /\ UNCHANGED <<mpc, androidVars, optionVars, projectionVars, settingVars,
                 mListener, mBufferManager, worker>>

\* The worker sees mTerminated, which cleanup() sets before the join.
WorkerExits ==
  /\ worker = "running" /\ mpc = "join"
  /\ worker' = "exited"
  /\ UNCHANGED <<queue, mpc, androidVars, optionVars, projectionVars,
                 settingVars, mListener, mBufferManager, connected>>

-----------------------------------------------------------------------------
(***************************************************************************)
(* The main thread                                                         *)
(***************************************************************************)

Handles(m) == mpc = "idle" /\ queue # <<>> /\ Head(queue) = m

\* Mutant: the service does not register with VncJni.
onCreateUnheard ==
  /\ Handles("CREATE")
  /\ queue' = Tail(queue)
  /\ mBound' = FALSE /\ mWanted' = [s \in SettingNames |-> FALSE]
  /\ mSaved' = [s \in SettingNames |-> "unset"]
  /\ mSurface' = FALSE /\ mMediaProjection' = FALSE
  /\ UNCHANGED <<mpc, androidVars, unstopped, system, serverVars>>

\* A new instance of the service: its fields have their initial values.
onCreate ==
  /\ Handles("CREATE")
  /\ queue' = Tail(queue)
  /\ mListener' = TRUE
  /\ mBound' = FALSE /\ mWanted' = [s \in SettingNames |-> FALSE]
  /\ mSaved' = [s \in SettingNames |-> "unset"]
  /\ mSurface' = FALSE /\ mMediaProjection' = FALSE
  /\ UNCHANGED <<mpc, androidVars, unstopped, system, mBufferManager, worker,
                 connected>>

\* Mutant: the worker is started although the buffers are not there.
onBindNoCheck(wanted, allocated) ==
  /\ Handles("BIND") /\ ~mBound
  /\ queue' = Tail(queue)
  /\ mWanted' = wanted
  /\ mBound' = TRUE
  /\ mBufferManager' = allocated
  /\ worker' = "running"
  /\ UNCHANGED <<mpc, androidVars, projectionVars, settingVars, mListener,
                 connected>>

\* onBind reads the options and starts the server.  When a buffer cannot be
\* allocated there is a BufferManager but no worker, and the result of
\* startServer is ignored.
onBind(wanted, allocated) ==
  /\ Handles("BIND") /\ ~mBound
  /\ queue' = Tail(queue)
  /\ mWanted' = wanted
  /\ mBound' = TRUE
  /\ mBufferManager' = TRUE
  /\ worker' = IF allocated THEN "running" ELSE "none"
  /\ UNCHANGED <<mpc, androidVars, projectionVars, settingVars, mListener,
                 connected>>

\* A second MediaProjection replaces the first; the rest is created once.
startProjection ==
  /\ mMediaProjection' = TRUE
  /\ unstopped' = unstopped + 1
  /\ mSurface' = TRUE

stopProjection ==
  /\ mMediaProjection' = FALSE
  /\ unstopped' = IF mMediaProjection THEN unstopped - 1 ELSE unstopped
  /\ mSurface' = FALSE

\* setBrightness, setOrientation
set(values) == system' = [s \in SettingNames |->
                            IF mWanted[s] /\ canWrite THEN values[s] ELSE system[s]]

\* The rest of the CLIENT_CONNECTED case.
dimAndRotate ==
  /\ mSaved' = [s \in SettingNames |->
                  IF mWanted[s] THEN system[s] ELSE mSaved[s]]
  /\ set([s \in SettingNames |-> "server"])

\* TextureRender.start calls bindNextProducerBuffer, which dereferences
\* mBufferManager.
needsBuffers == ~mSurface

handleConnected ==
  /\ Handles("CONNECTED") /\ (needsBuffers => mBufferManager)
  /\ queue' = Tail(queue)
  /\ startProjection
  /\ dimAndRotate
  /\ UNCHANGED <<mpc, androidVars, optionVars, serverVars>>

\* The same without a BufferManager: the process dies, and everything with it
\* but the system settings.
crashConnected ==
  /\ Handles("CONNECTED") /\ needsBuffers /\ ~mBufferManager
  /\ mpc' = "dead"
  /\ queue' = <<>> /\ requested' = FALSE
  /\ mBound' = FALSE /\ mWanted' = [s \in SettingNames |-> FALSE]
  /\ mSaved' = [s \in SettingNames |-> "unset"]
  /\ mSurface' = FALSE /\ mMediaProjection' = FALSE /\ unstopped' = 0
  /\ mListener' = FALSE /\ mBufferManager' = FALSE
  /\ worker' = "none" /\ connected' = {}
  /\ UNCHANGED <<canWrite, system>>

\* Mutant: the projection is not stopped.
handleDisconnectedKeepsProjection ==
  /\ Handles("DISCONNECTED")
  /\ queue' = Tail(queue)
  /\ set(mSaved)
  /\ UNCHANGED <<mpc, androidVars, optionVars, projectionVars, mSaved, serverVars>>

handleDisconnected ==
  /\ Handles("DISCONNECTED")
  /\ queue' = Tail(queue)
  /\ stopProjection
  /\ set(mSaved)
  /\ UNCHANGED <<mpc, androidVars, optionVars, mSaved, serverVars>>

\* Mutant: the projection outlives the server.
onDestroyKeepsProjection ==
  /\ Handles("DESTROY")
  /\ queue' = Tail(queue)
  /\ mpc' = "join"
  /\ UNCHANGED <<androidVars, optionVars, projectionVars, settingVars, serverVars>>

\* onDestroy up to the join in stopServer.
onDestroy ==
  /\ Handles("DESTROY")
  /\ queue' = Tail(queue)
  /\ stopProjection
  /\ mpc' = "join"
  /\ UNCHANGED <<androidVars, optionVars, settingVars, serverVars>>

\* Mutant: the listeners are removed before the server is stopped.
stopServerUnheard ==
  /\ mpc = "join" /\ worker # "running"
  /\ mpc' = "idle"
  /\ worker' = "none"
  /\ connected' = {}
  /\ mBufferManager' = FALSE
  /\ mListener' = FALSE
  /\ UNCHANGED <<queue, androidVars, optionVars, projectionVars, settingVars>>

\* The rest of onDestroy: rfbShutdownServer takes leave of every client, the
\* buffers are released and the service stops listening.
stopServer ==
  /\ mpc = "join" /\ worker # "running"
  /\ mpc' = "idle"
  /\ worker' = "none"
  /\ queue' = IF mListener
                THEN queue \o [k \in 1..Cardinality(connected) |-> "DISCONNECTED"]
                ELSE queue
  /\ connected' = {}
  /\ mBufferManager' = FALSE
  /\ mListener' = FALSE
  /\ UNCHANGED <<androidVars, optionVars, projectionVars, settingVars>>

-----------------------------------------------------------------------------
Main ==
  \/ onCreate
  \/ \E wanted \in [SettingNames -> BOOLEAN], allocated \in BOOLEAN :
       onBind(wanted, allocated)
  \/ handleConnected \/ crashConnected \/ handleDisconnected
  \/ onDestroy \/ stopServer

Worker == WorkerExits \/ \E c \in Clients : clientHook(c) \/ clientGone(c)

Android == RequestBind \/ RequestStop \/ GrantWrite \/ Relaunch

Next == Main \/ Worker \/ Android

\* The main looper goes on handling messages and the worker looks at
\* mTerminated again and again.
Spec == Init /\ [][Next]_vars /\ WF_vars(Main) /\ WF_vars(WorkerExits)

-----------------------------------------------------------------------------
(***************************************************************************)
(* Properties.  They hold as long as the clients come one after the other; *)
(* with two at a time they do not, since every CLIENT_CONNECTED overwrites *)
(* what the one before saved and every CLIENT_DISCONNECTED stops the       *)
(* projection.                                                             *)
(***************************************************************************)

\* When startProjection, stopProjection and onDestroy have caught up with the
\* events, the screen is projected exactly if there is a client to see it.
ProjectingWhileConnected ==
  queue = <<>> /\ mpc = "idle" => (mSurface <=> connected # {})

\* Once the last client is gone and the handler has caught up, the brightness
\* and the orientation are the user's again: whether the client left, the
\* service was destroyed under it (the farewell of rfbShutdownServer reaches a
\* handler whose service is already destroyed) or the process died.
SettingsRestored ==
  queue = <<>> /\ mpc # "join" /\ connected = {} =>
    \A s \in SettingNames : system[s] = "user"

\* Whoever draws has buffers to draw into: the renderer is up only while the
\* server it swaps buffers with is.
RendererHasBuffers == mSurface => mBufferManager /\ worker # "none"

\* Every MediaProjection obtained is stopped, except the current one.
NothingLeaked == unstopped = IF mMediaProjection THEN 1 ELSE 0

\* bindNextProducerBuffer meets a missing BufferManager only in one way: a
\* CLIENT_CONNECTED that was in the queue when onDestroy ran is handled by the
\* destroyed service.  A failed startServer, in particular, does not lead there.
CrashOnlyAfterDestroy == [][mpc' = "dead" => ~mListener]_vars

\* A client that stays connected ends up seeing the screen, for good.
ViewerIsServed == <>[](connected # {}) => <>[]mSurface
=============================================================================
