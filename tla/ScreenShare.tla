---------------------------- MODULE ScreenShare ----------------------------
(***************************************************************************)
(* MainActivity, the button that shares the screen, together with the      *)
(* service of ProjectionService and the rules by which Android creates and *)
(* destroys that service: it lives as long as it is started or bound.  The *)
(* service starts itself in onCreate; the activity binds it when the user  *)
(* has granted the permission and, when the button is switched off,        *)
(* unbinds it if it has heard of it and stops it.                          *)
(*                                                                         *)
(* The activity lives on the main looper too: the result of the permission *)
(* dialogue ("GRANTED"), onServiceConnected ("BOUND"), a configuration     *)
(* change ("CONFIG") and the end of the activity ("FINISH", "RECREATE")    *)
(* are messages in the queue of ProjectionService.  A click is handled     *)
(* between two messages, and only while the activity is on top.            *)
(***************************************************************************)
EXTENDS ProjectionService

CONSTANTS Rotations,  \* Display.getRotation(): some of ROTATION_0 .. ROTATION_270
          MaxAsked    \* bound on the permission requests under way

ASSUME RotationsAssumption == Rotations \subseteq 0..3 /\ 0 \in Rotations
ASSUME MaxAskedAssumption == MaxAsked \in Nat \ {0}

VARIABLES
  \* MainActivity
  alive,                  \* there is an instance
  visible,                \* it is not behind another application
  isChecked,              \* mToggleButton
  asked,                  \* unanswered startActivityForResult calls
  shown,                  \* the permission dialogue is on top
  mVncProjectionService,  \* not null
  mCurrentRotation,
  config,                 \* the orientation it was last configured for
  \* Android
  rotation,               \* of the display
  bound, started,         \* what keeps the service alive
  inFlight,               \* mVncConnection is about to be told of the binder
  \* VncProjectionService and TextureRender
  serviceRotation,        \* VncProjectionService.mCurrentRotation
  heightOffset            \* the scaling set with setHeightOffset

dialogVars == <<isChecked, asked, shown>>
activityVars == <<alive, visible, dialogVars, mVncProjectionService,
                  mCurrentRotation, config>>
bindingVars == <<bound, started, inFlight>>
rotationVars == <<serviceRotation, heightOffset>>
shareVars == <<activityVars, rotation, bindingVars, rotationVars>>
serviceVars == <<optionVars, projectionVars, settingVars, serverVars, canWrite>>

ActivityMessages == {"GRANTED", "BOUND", "CONFIG", "FINISH", "RECREATE"}
Orientations == {"portrait", "landscape"}
Orientation(r) == IF r \in {0, 2} THEN "portrait" ELSE "landscape"

\* Type invariant of the activity, of Android's bookkeeping and of the rotation.
ShareTypeOK ==
  /\ queue \in Seq(Messages \cup ActivityMessages)
  /\ alive \in BOOLEAN /\ visible \in BOOLEAN /\ isChecked \in BOOLEAN
  /\ asked \in 0..MaxAsked /\ shown \in BOOLEAN
  /\ mVncProjectionService \in BOOLEAN
  /\ mCurrentRotation \in Rotations /\ config \in Orientations
  /\ rotation \in Rotations
  /\ bound \in BOOLEAN /\ started \in BOOLEAN /\ inFlight \in BOOLEAN
  /\ serviceRotation \in Rotations /\ heightOffset \in Orientations

ShareInit ==
  /\ Init
  /\ alive = TRUE /\ visible = TRUE /\ isChecked = FALSE
  /\ asked = 0 /\ shown = FALSE
  /\ mVncProjectionService = FALSE /\ mCurrentRotation = 0
  /\ rotation \in Rotations /\ config = Orientation(rotation)
  /\ bound = FALSE /\ started = FALSE /\ inFlight = FALSE
  /\ serviceRotation = 0 /\ heightOffset = "portrait"

-----------------------------------------------------------------------------
(***************************************************************************)
(* Android and the user                                                    *)
(***************************************************************************)

Leaving == Queued("FINISH") \/ Queued("RECREATE")

\* A service that is neither bound nor started any more is destroyed.
BringDownIfUnneeded(q) ==
  IF requested /\ ~bound' /\ ~started'
    THEN requested' = FALSE /\ queue' = Append(q, "DESTROY")
    ELSE UNCHANGED requested /\ queue' = q

\* The permission activity covers the button.
ShowDialog ==
  /\ alive /\ visible /\ asked > 0 /\ ~shown
  /\ shown' = TRUE
  /\ UNCHANGED <<vars, alive, visible, isChecked, asked, mVncProjectionService,
                 mCurrentRotation, config, rotation, bindingVars, rotationVars>>

\* The user answers, not while the activity is being recreated; onActivityResult
\* returns at once when the answer is no.
Answer(granted) ==
  /\ shown /\ ~Leaving
  /\ shown' = FALSE /\ asked' = asked - 1
  /\ queue' = IF granted THEN Append(queue, "GRANTED") ELSE queue
  /\ UNCHANGED <<mpc, requested, serviceVars, alive, visible, isChecked,
                 mVncProjectionService, mCurrentRotation, config, rotation,
                 bindingVars, rotationVars>>

\* onServiceConnected is on its way.
ServiceConnected ==
  /\ inFlight
  /\ inFlight' = FALSE
  /\ queue' = Append(queue, "BOUND")
  /\ UNCHANGED <<mpc, requested, serviceVars, activityVars, rotation, bound,
                 started, rotationVars>>

\* The activity hears of a rotation only when it changes the orientation, and
\* while it is not visible only when it becomes so again.
Configure(v, r) ==
  LET o == Orientation(r)
      told == alive /\ v /\ o # config
  IN  /\ config' = IF told THEN o ELSE config
      /\ queue' = IF told THEN Append(queue, "CONFIG") ELSE queue

Rotate(r) ==
  /\ mpc # "dead" /\ r # rotation /\ Len(queue) < MaxQueue
  /\ rotation' = r
  /\ Configure(visible, r)
  /\ UNCHANGED <<mpc, requested, serviceVars, alive, visible, dialogVars,
                 mVncProjectionService, mCurrentRotation, bindingVars,
                 rotationVars>>

\* The user goes to another application, or comes back.
Switch ==
  /\ alive /\ ~shown /\ ~Leaving /\ Len(queue) < MaxQueue
  /\ visible' = ~visible
  /\ Configure(~visible, rotation)
  /\ UNCHANGED <<mpc, requested, serviceVars, alive, dialogVars,
                 mVncProjectionService, mCurrentRotation, rotation,
                 bindingVars, rotationVars>>

\* The user leaves the activity with the back key, or Android has to recreate
\* it; neither happens between the answer and onActivityResult.
Leave(how) ==
  /\ alive /\ visible /\ ~Leaving /\ ~Queued("GRANTED")
  /\ how = "FINISH" => ~shown
  /\ queue' = Append(queue, how)
  /\ UNCHANGED <<mpc, requested, serviceVars, shareVars>>

-----------------------------------------------------------------------------
(***************************************************************************)
(* The main thread: MainActivity                                           *)
(***************************************************************************)

CanClick == mpc = "idle" /\ alive /\ visible /\ ~shown /\ ~Leaving
            /\ ~Queued("GRANTED")

\* onToggleScreenShare, switched on
ToggleOn ==
  /\ CanClick /\ ~isChecked /\ asked < MaxAsked
  /\ isChecked' = TRUE
  /\ asked' = asked + 1
  /\ UNCHANGED <<vars, alive, visible, shown, mVncProjectionService,
                 mCurrentRotation, config, rotation, bindingVars, rotationVars>>

\* Mutant: the service is stopped and never unbound.
ToggleOffNoUnbind ==
  /\ CanClick /\ isChecked
  /\ isChecked' = FALSE
  /\ started' = FALSE
  /\ mVncProjectionService' = FALSE
  /\ UNCHANGED bound
  /\ BringDownIfUnneeded(queue)
  /\ UNCHANGED <<mpc, serviceVars, alive, visible, asked, shown,
                 mCurrentRotation, config, rotation, inFlight, rotationVars>>

\* Mutant: the activity keeps its reference to the service.
ToggleOffKeepsReference ==
  /\ CanClick /\ isChecked
  /\ isChecked' = FALSE
  /\ bound' = (bound /\ ~mVncProjectionService)
  /\ started' = FALSE
  /\ BringDownIfUnneeded(queue)
  /\ UNCHANGED <<mpc, serviceVars, alive, visible, asked, shown,
                 mVncProjectionService, mCurrentRotation, config, rotation,
                 inFlight, rotationVars>>

\* onToggleScreenShare, switched off: a service the activity has not heard of
\* yet stays bound.
ToggleOff ==
  /\ CanClick /\ isChecked
  /\ isChecked' = FALSE
  /\ bound' = (bound /\ ~mVncProjectionService)
  /\ started' = FALSE
  /\ mVncProjectionService' = FALSE
  /\ BringDownIfUnneeded(queue)
  /\ UNCHANGED <<mpc, serviceVars, alive, visible, asked, shown,
                 mCurrentRotation, config, rotation, inFlight, rotationVars>>

\* Mutant: the service is created anew whether or not it is running.
onActivityResultAlwaysCreates ==
  /\ Handles("GRANTED")
  /\ bound' = TRUE
  /\ requested' = TRUE
  /\ queue' = Tail(queue) \o <<"CREATE", "BIND">>
  /\ UNCHANGED <<mpc, serviceVars, activityVars, rotation, started, inFlight,
                 rotationVars>>

\* onActivityResult, RESULT_OK.  bindService creates the service unless it is
\* running; a running one is not bound a second time, and its binder is sent
\* only to an activity that does not have it.
onActivityResult ==
  /\ Handles("GRANTED")
  /\ bound' = TRUE
  /\ requested' = TRUE
  /\ queue' = Tail(queue) \o IF requested THEN <<>> ELSE <<"CREATE", "BIND">>
  /\ inFlight' = (inFlight \/ (requested /\ ~bound))
  /\ UNCHANGED <<mpc, serviceVars, activityVars, rotation, started, rotationVars>>

\* VncProjectionService.handleRotationChange
ServiceRotates(r) ==
  /\ serviceRotation' = r
  /\ heightOffset' = IF mSurface THEN Orientation(r) ELSE heightOffset

\* mCurrentRotation is set to -1, so that handleRotationChange passes the
\* rotation on in any case.
onServiceConnected ==
  /\ Handles("BOUND")
  /\ queue' = Tail(queue)
  /\ mVncProjectionService' = TRUE
  /\ mCurrentRotation' = rotation
  /\ ServiceRotates(rotation)
  /\ UNCHANGED <<mpc, requested, serviceVars, alive, visible, dialogVars, config,
                 rotation, bindingVars>>

\* handleRotationChange
onConfigurationChanged ==
  /\ Handles("CONFIG")
  /\ queue' = Tail(queue)
  /\ mCurrentRotation' = rotation
  /\ IF mVncProjectionService /\ rotation # mCurrentRotation
       THEN ServiceRotates(rotation)
       ELSE UNCHANGED rotationVars
  /\ UNCHANGED <<mpc, requested, serviceVars, alive, visible, dialogVars, config,
                 mVncProjectionService, rotation, bindingVars>>

\* What a new MainActivity starts with; the button's state survives only a
\* recreation.
NewActivity(checked) ==
  /\ isChecked' = checked
  /\ mVncProjectionService' = FALSE /\ mCurrentRotation' = 0
  /\ config' = Orientation(rotation)

\* The messages for the service that are in a queue.
ServiceMessages[q \in Seq(Messages \cup ActivityMessages)] ==
  IF q = <<>> THEN <<>>
  ELSE (IF Head(q) \in Messages THEN <<Head(q)>> ELSE <<>>) \o ServiceMessages[Tail(q)]

\* MainActivity.onDestroy does not unbind: Android does, and withdraws what the
\* activity has not yet been told.
DestroyActivity(how) ==
  /\ Handles(how)
  /\ alive' = (how = "RECREATE")
  /\ NewActivity(how = "RECREATE" /\ isChecked)
  /\ asked' = IF how = "FINISH" THEN 0 ELSE asked
  /\ shown' = (shown /\ how = "RECREATE")
  /\ bound' = FALSE /\ inFlight' = FALSE /\ UNCHANGED started
  /\ BringDownIfUnneeded(ServiceMessages[Tail(queue)])
  /\ UNCHANGED <<mpc, serviceVars, visible, rotation, rotationVars>>

\* The application is opened again: after its process died, or while the
\* service of an earlier activity is still running.
LaunchActivity ==
  /\ ~alive
  /\ \/ Relaunch
     \/ mpc = "idle" /\ UNCHANGED vars
  /\ alive' = TRUE /\ visible' = TRUE
  /\ NewActivity(FALSE)
  /\ UNCHANGED <<asked, shown, rotation, bindingVars, rotationVars>>

-----------------------------------------------------------------------------
(***************************************************************************)
(* The main thread: the service                                            *)
(***************************************************************************)

\* setupAndStartForegroundService starts the service.
CreateService ==
  /\ onCreate
  /\ started' = TRUE
  /\ serviceRotation' = 0
  /\ UNCHANGED <<activityVars, rotation, bound, inFlight, heightOffset>>

BindService(wanted, allocated) ==
  /\ onBind(wanted, allocated)
  /\ inFlight' = bound
  /\ UNCHANGED <<activityVars, rotation, bound, started, rotationVars>>

\* Mutant: a new renderer starts unscaled.
ClientConnectedUnscaled ==
  /\ handleConnected
  /\ heightOffset' = IF mSurface THEN heightOffset ELSE "portrait"
  /\ UNCHANGED <<activityVars, rotation, bindingVars, serviceRotation>>

\* startProjection hands the rotation to a new renderer.
ClientConnected ==
  /\ handleConnected
  /\ heightOffset' = IF mSurface THEN heightOffset ELSE Orientation(serviceRotation)
  /\ UNCHANGED <<activityVars, rotation, bindingVars, serviceRotation>>

ProcessDies ==
  /\ crashConnected
  /\ alive' = FALSE /\ visible' = FALSE
  /\ isChecked' = FALSE /\ asked' = 0 /\ shown' = FALSE
  /\ mVncProjectionService' = FALSE /\ mCurrentRotation' = 0
  /\ bound' = FALSE /\ started' = FALSE /\ inFlight' = FALSE
  /\ serviceRotation' = 0 /\ heightOffset' = "portrait"
  /\ UNCHANGED <<config, rotation>>

DestroyService == onDestroy /\ UNCHANGED shareVars

-----------------------------------------------------------------------------
MainActivity ==
  \/ onActivityResult \/ onServiceConnected \/ onConfigurationChanged
  \/ \E how \in {"FINISH", "RECREATE"} : DestroyActivity(how)

MainService ==
  \/ CreateService
  \/ \E wanted \in [SettingNames -> BOOLEAN], allocated \in BOOLEAN :
       BindService(wanted, allocated)
  \/ ClientConnected \/ ProcessDies \/ DestroyService
  \/ (handleDisconnected \/ stopServer) /\ UNCHANGED shareVars

User ==
  \/ ToggleOn \/ ToggleOff \/ LaunchActivity \/ Switch
  \/ \E granted \in BOOLEAN : Answer(granted)
  \/ \E r \in Rotations : Rotate(r)
  \/ \E how \in {"FINISH", "RECREATE"} : Leave(how)

ShareNext ==
  \/ MainActivity \/ MainService \/ User
  \/ ShowDialog \/ ServiceConnected
  \/ (Worker \/ GrantWrite) /\ UNCHANGED shareVars

allVars == <<vars, shareVars>>

\* The looper handles its messages, Android delivers what is in flight and the
\* worker looks at mTerminated again and again; the user need not do anything.
ShareSpec ==
  /\ ShareInit /\ [][ShareNext]_allVars
  /\ WF_allVars(MainActivity \/ MainService)
  /\ WF_allVars(ServiceConnected)
  /\ WF_allVars(WorkerExits /\ UNCHANGED shareVars)

-----------------------------------------------------------------------------
(***************************************************************************)
(* Properties                                                              *)
(***************************************************************************)

Settled == queue = <<>> /\ mpc = "idle" /\ ~inFlight

\* Whenever nothing is under way, the next time the button is switched off the
\* service is destroyed: it is not bound behind the activity's back.  In
\* particular after a switch-off that came too early, before onServiceConnected,
\* and left the service running with the button off.
OffWillStop == Settled /\ requested => (bound => mVncProjectionService)

\* The activity never calls a service that has been destroyed or that has not
\* been bound: what mVncProjectionService refers to is alive.
NoStaleService == mVncProjectionService => alive /\ bound /\ requested /\ mBound

\* When nothing is under way, the service and its renderer have the rotation the
\* activity has last read, whichever came first: the client, the binding or the
\* rotation.
RotationPassedOn ==
  Settled /\ mVncProjectionService =>
    /\ serviceRotation = mCurrentRotation
    /\ mSurface => heightOffset = Orientation(mCurrentRotation)

\* calcHeightOffsetLandscape: "in portrait mode we do not want any scaling, but in
\* landscape only".  When nothing is under way and the activity is visible and
\* connected, the picture is scaled for the orientation the display has.
PictureFitsRotation ==
  Settled /\ visible /\ mVncProjectionService /\ mSurface =>
    heightOffset = Orientation(rotation)

\* The activity and Android drive the service as ProjectionService assumes:
\* one onCreate and one onBind for each instance, onDestroy after them, and no
\* new instance before the old one has handled its onDestroy.
Service == INSTANCE ProjectionService
             WITH queue <- ServiceMessages[queue]
ServiceSpec == Service!Init /\ [][Service!Next]_(Service!vars)

\* A service that is no longer wanted ends, and its server with it.
UnwantedServerEnds == ~requested ~> (worker = "none" \/ requested)
=============================================================================
