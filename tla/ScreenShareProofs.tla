------------------------- MODULE ScreenShareProofs -------------------------
(***************************************************************************)
(* Proofs about the service, and about the activity and the service        *)
(* together, for any number of clients, settings, rotations and permission *)
(* requests and any length of the queue.                                   *)
(*                                                                         *)
(* Part 1, the service: the renderer is up only while there is a server to *)
(* draw for, and a missing BufferManager is met only by a service that has *)
(* been destroyed.  And, with clients that come one after the other: the   *)
(* screen is projected while one is there, no projection is leaked, and    *)
(* the settings are restored.  All of them depend on what can be in the    *)
(* queue, and in which order, at each point of the service's life; the     *)
(* invariants say so.                                                      *)
(*                                                                         *)
(* Part 2, both: the activity's reference is never stale, switching off    *)
(* ends the service once nothing is under way, the rotation read reaches   *)
(* the renderer, and the service is driven as ProjectionService assumes:   *)
(* first what ServiceMessages does to a queue, by induction; then which    *)
(* messages are in the queue, and which behind which; then the steps.      *)
(***************************************************************************)
EXTENDS ScreenShare, NaturalsInduction, WellFoundedInduction, FiniteSetTheorems,
        TLAPS

-----------------------------------------------------------------------------
(***************************************************************************)
(* Part 1: the service                                                     *)
(***************************************************************************)
At == 1..Len(queue)
Event(m) == m \in {"CONNECTED", "DISCONNECTED"}

\* The life of the service: it is not there, onCreate has run, onBind has run.
ServiceGone == ~mListener
ServiceCreated == mListener /\ ~mBufferManager
Bound == mListener /\ mBufferManager

\* CREATE and BIND come together, to a service that is not there, and only a
\* DESTROY can follow them; events stand before and after that.
Together ==
  /\ \A k \in At : queue[k] = "CREATE" => ServiceGone /\ k + 1 \in At /\ queue[k + 1] = "BIND"
  /\ \A k \in At : queue[k] = "BIND" =>
       IF k = 1 THEN ServiceCreated ELSE queue[k - 1] = "CREATE"
  /\ ServiceCreated => Len(queue) > 0 /\ queue[1] = "BIND"
ServiceInOrder ==
  \A j, k \in At : j < k =>
    /\ queue[j] = "CREATE" => queue[k] \in {"BIND", "DESTROY"}
    /\ queue[j] = "BIND" => queue[k] = "DESTROY"
    /\ queue[j] = "DESTROY" => Event(queue[k])

\* What the activity wants is what it has asked for last.
Asked ==
  /\ \A k \in At : queue[k] = "DESTROY" =>
       ~requested /\ (ServiceGone => \E j \in At : j < k /\ queue[j] = "BIND")
  /\ requested => ~ServiceGone \/ Queued("CREATE")
  /\ mpc = "idle" /\ (~ServiceGone \/ Queued("CREATE")) => requested \/ Queued("DESTROY")

\* The server runs as long as the service is bound, unless it failed to start;
\* then nobody tells the service anything.
ServiceServing ==
  /\ mBufferManager => mListener
  /\ worker # "none" => Bound
  /\ connected # {} => worker # "none"
  /\ mListener /\ worker = "none" => \A k \in At : ~Event(queue[k])

\* onDestroy has been left waiting for the worker.
Joining ==
  mpc = "join" => Bound /\ ~requested /\ ~mSurface /\ \A k \in At : Event(queue[k])

Dead == mpc = "dead" => ServiceGone /\ ~requested /\ queue = <<>>

\* stop() is called on a MediaProjection that is there.
Stoppable == mMediaProjection => unstopped > 0

ServiceIInv ==
  /\ TypeOK /\ IsFiniteSet(connected) /\ Stoppable
  /\ Together /\ ServiceInOrder /\ Asked /\ ServiceServing /\ Joining /\ Dead
  /\ RendererHasBuffers

-----------------------------------------------------------------------------
(***************************************************************************)
(* The queue                                                               *)
(***************************************************************************)

\* A message is taken from the front of the queue.
LEMMA Taken ==
  ASSUME TypeOK, queue # <<>>, queue' = Tail(queue)
  PROVE  /\ queue' \in Seq(Messages) /\ Len(queue) \in Nat /\ Len(queue') \in Nat
         /\ Len(queue) = Len(queue') + 1 /\ queue[1] = Head(queue)
         /\ \A k \in At' : queue'[k] = queue[k + 1] /\ k + 1 \in At
BY DEF TypeOK, At

\* A message is put at the end of the queue.
LEMMA Posted ==
  ASSUME TypeOK, NEW m \in Messages, queue' = Append(queue, m)
  PROVE  /\ queue' \in Seq(Messages) /\ Len(queue) \in Nat
         /\ Len(queue') = Len(queue) + 1 /\ queue'[Len(queue) + 1] = m
         /\ \A k \in At : queue'[k] = queue[k] /\ k \in At'
BY DEF TypeOK, At

\* Events that come to a bound service leave the queue in order.
LEMMA EventPosted ==
  ASSUME ServiceIInv, NEW m \in {"CONNECTED", "DISCONNECTED"}, queue' = Append(queue, m),
         Bound, UNCHANGED <<mListener, mBufferManager, requested, mpc>>, mpc # "dead"
  PROVE  /\ queue' \in Seq(Messages) /\ Together' /\ ServiceInOrder' /\ Asked'
         /\ (Joining => (mpc = "join" => \A k \in At' : Event(queue'[k])))
<1>1. /\ queue' \in Seq(Messages) /\ Len(queue) \in Nat
      /\ Len(queue') = Len(queue) + 1 /\ queue'[Len(queue) + 1] = m
      /\ \A k \in At : queue'[k] = queue[k] /\ k \in At'
  BY Posted DEF Messages, ServiceIInv
<1>2. At' = At \cup {Len(queue) + 1} /\ \A k \in At : k \in Nat /\ k <= Len(queue)
  BY <1>1 DEF At
<1>3. \A k \in At : queue[k] # "CREATE" /\ queue[k] # "BIND"
  <2>1. \A k \in At : queue[k] # "CREATE"
    BY DEF ServiceIInv, Together, ServiceGone, Bound
  <2>2. ASSUME NEW k \in At, queue[k] = "BIND" PROVE FALSE
    <3>1. k # 1 => k - 1 \in At
      BY <1>2 DEF At
    <3>2. QED BY <2>1, <2>2, <3>1 DEF ServiceIInv, Together, ServiceCreated, Bound
  <2>3. QED BY <2>1, <2>2
<1>4. Together'
  BY <1>1, <1>2, <1>3 DEF Together, ServiceGone, ServiceCreated, Bound
<1>5. ServiceInOrder'
  BY <1>1, <1>2, <1>3 DEF ServiceIInv, ServiceInOrder, Event
<1>6. Asked'
  <2>1. Queued("CREATE")' = Queued("CREATE") /\ Queued("DESTROY")' = Queued("DESTROY")
    BY <1>1, <1>2 DEF Queued, At
  <2>2. QED BY <1>1, <1>2, <2>1 DEF ServiceIInv, Asked, ServiceGone, Bound
<1>7. (Joining => (mpc = "join" => \A k \in At' : Event(queue'[k])))
  BY <1>1, <1>2 DEF Joining, Event
<1>8. QED BY <1>1, <1>4, <1>5, <1>6, <1>7

\* Taking a message off leaves the rest in order.
LEMMA RestInOrder ==
  ASSUME TypeOK, ServiceInOrder, queue # <<>>, queue' = Tail(queue)
  PROVE  /\ ServiceInOrder'
         /\ queue[1] = "CREATE" => \A k \in At' : queue'[k] \in {"BIND", "DESTROY"}
         /\ queue[1] = "BIND" => \A k \in At' : queue'[k] = "DESTROY"
         /\ queue[1] = "DESTROY" => \A k \in At' : Event(queue'[k])
<1>1. /\ Len(queue) \in Nat /\ Len(queue') \in Nat /\ Len(queue) = Len(queue') + 1
      /\ \A k \in At' : queue'[k] = queue[k + 1] /\ k + 1 \in At
  BY Taken
<1>2. 1 \in At /\ \A k \in At' : k \in Nat /\ 1 < k + 1
  BY <1>1 DEF At
<1>3. ASSUME NEW j \in At', NEW k \in At', j < k
      PROVE  /\ queue'[j] = "CREATE" => queue'[k] \in {"BIND", "DESTROY"}
             /\ queue'[j] = "BIND" => queue'[k] = "DESTROY"
             /\ queue'[j] = "DESTROY" => Event(queue'[k])
  <2>1. j + 1 \in At /\ k + 1 \in At /\ j + 1 < k + 1
    BY <1>1, <1>2, <1>3
  <2>2. QED BY <1>1, <2>1 DEF ServiceInOrder
<1>4. ServiceInOrder'
  BY <1>3 DEF ServiceInOrder
<1>5. ASSUME NEW k \in At'
      PROVE  /\ queue[1] = "CREATE" => queue'[k] \in {"BIND", "DESTROY"}
             /\ queue[1] = "BIND" => queue'[k] = "DESTROY"
             /\ queue[1] = "DESTROY" => Event(queue'[k])
  BY <1>1, <1>2 DEF ServiceInOrder
<1>6. QED BY <1>4, <1>5

\* Handling an event changes nothing in what is still to come.
LEMMA EventTaken ==
  ASSUME ServiceIInv, queue # <<>>, Event(Head(queue)), queue' = Tail(queue),
         UNCHANGED <<mListener, mBufferManager, requested, mpc>>
  PROVE  /\ queue' \in Seq(Messages) /\ Together' /\ ServiceInOrder' /\ Asked'
         /\ ~ServiceCreated /\ ~(mListener /\ worker = "none")
<1> USE DEF ServiceIInv
<1>1. /\ queue' \in Seq(Messages) /\ Len(queue) \in Nat /\ Len(queue') \in Nat
      /\ Len(queue) = Len(queue') + 1 /\ Event(queue[1])
      /\ \A k \in At' : queue'[k] = queue[k + 1] /\ k + 1 \in At
  BY Taken
<1>2. /\ 1 \in At /\ \A k \in At : k \in Nat \ {0}
      /\ \A k \in At : k # 1 => k - 1 \in At' /\ queue'[k - 1] = queue[k]
  <2>1. 1 \in At /\ \A k \in At : k \in Nat \ {0}
    BY <1>1 DEF At
  <2>2. ASSUME NEW k \in At, k # 1 PROVE k - 1 \in At' /\ queue'[k - 1] = queue[k]
    <3>1. k - 1 \in At' /\ (k - 1) + 1 = k
      BY <1>1, <2>2 DEF At
    <3>2. QED BY <1>1, <3>1
  <2>3. QED BY <2>1, <2>2
<1>3. ~ServiceCreated /\ ~(mListener /\ worker = "none")
  BY <1>1, <1>2 DEF Together, ServiceServing, Event
<1>4. ServiceInOrder'
  BY RestInOrder
<1>5. (ServiceGone' <=> ServiceGone) /\ (ServiceCreated' <=> ServiceCreated) /\ requested' = requested /\ mpc' = mpc
  BY DEF ServiceGone, ServiceCreated
<1>6. Together /\ Asked
  OBVIOUS
<1> HIDE DEF ServiceIInv
<1>7. Together'
  <2>1. ASSUME NEW k \in At', queue'[k] = "CREATE"
        PROVE  ServiceGone /\ k + 1 \in At' /\ queue'[k + 1] = "BIND"
    <3>1. k \in Nat /\ k + 1 \in At /\ queue[k + 1] = "CREATE"
      BY <1>1, <2>1 DEF At
    <3>2. ServiceGone /\ (k + 1) + 1 \in At /\ queue[(k + 1) + 1] = "BIND"
      BY <1>6, <3>1 DEF Together
    <3>3. (k + 1) + 1 # 1 /\ ((k + 1) + 1) - 1 = k + 1
      BY <3>1
    <3>4. QED BY <1>2, <3>2, <3>3
  <2>2. ASSUME NEW k \in At', queue'[k] = "BIND"
        PROVE  k # 1 /\ queue'[k - 1] = "CREATE"
    <3>1. k \in Nat \ {0} /\ k + 1 \in At /\ queue[k + 1] = "BIND" /\ k + 1 # 1 /\ (k + 1) - 1 = k
      BY <1>1, <2>2 DEF At
    <3>2. queue[k] = "CREATE"
      BY <1>6, <3>1 DEF Together
    <3>3. k # 1
      BY <1>1, <3>2 DEF Event
    <3>4. k \in At
      BY <1>1, <3>1 DEF At
    <3>5. QED BY <1>2, <3>2, <3>3, <3>4
  <2>3. QED BY <1>3, <1>5, <2>1, <2>2 DEF Together
<1>8. Asked'
  <2>1. ASSUME NEW m \in {"CREATE", "DESTROY"} PROVE Queued(m)' <=> Queued(m)
    <3>1. Queued(m) => Queued(m)'
      BY <1>1, <1>2 DEF Queued, Event, At
    <3>2. Queued(m)' => Queued(m)
      BY <1>1 DEF Queued, At
    <3>3. QED BY <3>1, <3>2
  <2>2. ASSUME NEW k \in At', queue'[k] = "DESTROY"
        PROVE  ~requested' /\ (ServiceGone' => \E j \in At' : j < k /\ queue'[j] = "BIND")
    <3>1. k \in Nat /\ k + 1 \in At /\ queue[k + 1] = "DESTROY"
      BY <1>1, <2>2 DEF At
    <3>2. ~requested'
      BY <1>5, <1>6, <3>1 DEF Asked
    <3>3. ASSUME ServiceGone' PROVE \E j \in At' : j < k /\ queue'[j] = "BIND"
      <4>1. PICK j \in At : j < k + 1 /\ queue[j] = "BIND"
        BY <1>5, <1>6, <3>1, <3>3 DEF Asked
      <4>2. j # 1 /\ j \in Nat
        BY <1>1, <1>2, <4>1 DEF Event
      <4>3. j - 1 \in At' /\ queue'[j - 1] = "BIND" /\ j - 1 < k
        BY <1>2, <3>1, <4>1, <4>2
      <4>4. QED BY <4>3
    <3>4. QED BY <3>2, <3>3
  <2>3. /\ Queued("CREATE")' <=> Queued("CREATE")
        /\ Queued("DESTROY")' <=> Queued("DESTROY")
    BY <2>1
  <2>4. /\ requested => ~ServiceGone \/ Queued("CREATE")
        /\ mpc = "idle" /\ (~ServiceGone \/ Queued("CREATE")) => requested \/ Queued("DESTROY")
    BY <1>6 DEF Asked
  <2>5. /\ requested' => ~ServiceGone' \/ Queued("CREATE")'
        /\ mpc' = "idle" /\ (~ServiceGone' \/ Queued("CREATE")') => requested' \/ Queued("DESTROY")'
    BY <1>5, <2>3, <2>4
  <2>6. QED BY <2>2, <2>5 DEF Asked
<1>9. QED BY <1>1, <1>3, <1>4, <1>7, <1>8

-----------------------------------------------------------------------------
(***************************************************************************)
(* The inductive invariant                                                 *)
(***************************************************************************)

\* Before the service is asked for, the queue is empty.
LEMMA ServiceInitInv == Init => ServiceIInv
<1> SUFFICES ASSUME Init PROVE ServiceIInv
  OBVIOUS
<1> USE DEF Init
<1>1. TypeOK
  <2>1. queue \in Seq(Messages) /\ connected \in SUBSET Clients /\ unstopped \in Nat
    OBVIOUS
  <2>2. /\ mSaved \in [SettingNames -> SettingValues] /\ mWanted \in [SettingNames -> BOOLEAN]
        /\ system \in [SettingNames -> SettingValues]
    BY DEF SettingValues
  <2>3. QED BY <2>1, <2>2 DEF TypeOK
<1>2. At = {}
  BY DEF At
<1>3. IsFiniteSet(connected) /\ Stoppable
  BY FS_EmptySet DEF Stoppable
<1>4. Together /\ ServiceInOrder
  BY <1>2 DEF Together, ServiceInOrder, ServiceCreated
<1>5. Asked /\ ServiceServing /\ Joining /\ Dead /\ RendererHasBuffers
  BY <1>2 DEF Asked, ServiceServing, Joining, Dead, RendererHasBuffers, ServiceGone, Queued
<1>6. QED BY <1>1, <1>3, <1>4, <1>5 DEF ServiceIInv

\* bindService meets a service that is not there and a queue of old events.
LEMMA RequestBindInv ==
  ASSUME ServiceIInv, RequestBind
  PROVE  ServiceIInv'
<1> USE DEF RequestBind, ServiceIInv, optionVars, projectionVars, settingVars, serverVars
<1>1. ServiceGone /\ ~Queued("CREATE")
  BY DEF Asked
<1>2. \A k \in At : Event(queue[k])
  <2>1. \A k \in At : queue[k] # "CREATE" /\ queue[k] # "DESTROY"
    BY <1>1 DEF Queued, At
  <2>2. ASSUME NEW k \in At, queue[k] = "BIND" PROVE FALSE
    <3>1. k # 1 => k - 1 \in At
      BY DEF At, TypeOK
    <3>2. QED BY <1>1, <2>1, <2>2, <3>1 DEF Together, ServiceCreated, ServiceGone
  <2>3. \A k \in At : queue[k] \in Messages
    BY DEF At, TypeOK
  <2>4. QED BY <2>1, <2>2, <2>3 DEF Messages, Event
<1>3. /\ queue' \in Seq(Messages) /\ Len(queue) \in Nat /\ Len(queue') = Len(queue) + 2
      /\ \A k \in At : queue'[k] = queue[k]
      /\ queue'[Len(queue) + 1] = "CREATE" /\ queue'[Len(queue) + 2] = "BIND"
  BY DEF TypeOK, At, Messages
<1>4. At' = At \cup {Len(queue) + 1, Len(queue) + 2} /\ \A k \in At : k \in Nat /\ k <= Len(queue)
  BY <1>3 DEF At
<1>5. TypeOK'
  BY <1>3 DEF TypeOK
<1>6. Together'
  <2>1. ServiceGone' /\ ~ServiceCreated' /\ \A k \in At : queue'[k] # "CREATE" /\ queue'[k] # "BIND"
    BY <1>1, <1>2, <1>3 DEF ServiceGone, ServiceCreated, Event
  <2>2. \A k \in At' : queue'[k] = "CREATE" => k = Len(queue) + 1
    BY <1>3, <1>4, <2>1
  <2>3. \A k \in At' : queue'[k] = "BIND" => k = Len(queue) + 2
    BY <1>3, <1>4, <2>1
  <2>4. Len(queue) + 1 + 1 = Len(queue) + 2 /\ Len(queue) + 2 - 1 = Len(queue) + 1 /\ Len(queue) + 2 # 1
    BY <1>3
  <2> HIDE DEF RequestBind, ServiceIInv
  <2>5. QED BY <1>3, <1>4, <2>1, <2>2, <2>3, <2>4 DEF Together
<1>7. ServiceInOrder'
  <2>1. \A k \in At : Event(queue'[k])
    BY <1>2, <1>3
  <2> HIDE DEF RequestBind, ServiceIInv
  <2>2. SUFFICES ASSUME NEW j \in At', NEW k \in At', j < k
                 PROVE  /\ queue'[j] = "CREATE" => queue'[k] \in {"BIND", "DESTROY"}
                        /\ queue'[j] = "BIND" => queue'[k] = "DESTROY"
                        /\ queue'[j] = "DESTROY" => Event(queue'[k])
    BY DEF ServiceInOrder
  <2>3. CASE j \in At
    BY <2>1, <2>3 DEF Event
  <2>4. CASE j \notin At
    BY <1>3, <1>4, <2>2, <2>4
  <2>5. QED BY <2>3, <2>4
<1>8. Asked'
  <2>1. Queued("CREATE")'
    BY <1>3 DEF Queued
  <2>2. QED BY <1>2, <1>3, <1>4, <2>1 DEF Asked, Event
<1>9. ServiceServing' /\ Joining' /\ Dead' /\ RendererHasBuffers' /\ Stoppable'
  BY <1>1 DEF ServiceServing, Joining, Dead, RendererHasBuffers, Stoppable, ServiceGone, Bound
<1>10. QED BY <1>5, <1>6, <1>7, <1>8, <1>9

\* unbindService comes when the service is there or on its way.
LEMMA RequestStopInv ==
  ASSUME ServiceIInv, RequestStop
  PROVE  ServiceIInv'
<1> USE DEF RequestStop, ServiceIInv, optionVars, projectionVars, settingVars, serverVars
<1>1. \A k \in At : queue[k] # "DESTROY"
  BY DEF Asked
<1>2. /\ queue' \in Seq(Messages) /\ Len(queue) \in Nat
      /\ Len(queue') = Len(queue) + 1 /\ queue'[Len(queue) + 1] = "DESTROY"
      /\ \A k \in At : queue'[k] = queue[k] /\ k \in At'
  BY Posted DEF Messages
<1>3. At' = At \cup {Len(queue) + 1} /\ \A k \in At : k \in Nat /\ k <= Len(queue)
  BY <1>2 DEF At
<1>4. TypeOK'
  BY <1>2 DEF TypeOK
<1>5. Together'
  <2>1. \A k \in At : k # 1 => k - 1 \in At
    BY <1>3 DEF At
  <2>2. \A k \in At : k = 1 => queue'[1] = queue[1]
    BY <1>2
  <2>3. ServiceCreated => 1 \in At
    BY <1>2 DEF Together, At
  <2>4. \A k \in At' : queue'[k] = "CREATE" => ServiceGone' /\ k + 1 \in At' /\ queue'[k + 1] = "BIND"
    BY <1>2, <1>3 DEF Together, ServiceGone
  <2>5. \A k \in At' : queue'[k] = "BIND" => IF k = 1 THEN ServiceCreated' ELSE queue'[k - 1] = "CREATE"
    BY <1>2, <1>3, <2>1 DEF Together, ServiceCreated
  <2>6. ServiceCreated' => Len(queue') > 0 /\ queue'[1] = "BIND"
    BY <1>2, <2>3 DEF Together, ServiceCreated
  <2>7. QED BY <2>4, <2>5, <2>6 DEF Together
<1>6. ServiceInOrder'
  <2>1. ServiceInOrder
    OBVIOUS
  <2> HIDE DEF RequestStop, ServiceIInv
  <2>2. SUFFICES ASSUME NEW j \in At', NEW k \in At', j < k
                 PROVE  /\ queue'[j] = "CREATE" => queue'[k] \in {"BIND", "DESTROY"}
                        /\ queue'[j] = "BIND" => queue'[k] = "DESTROY"
                        /\ queue'[j] = "DESTROY" => Event(queue'[k])
    BY DEF ServiceInOrder
  <2>3. j \in At
    BY <1>2, <1>3, <2>2
  <2>4. CASE k \in At
    BY <1>2, <2>1, <2>2, <2>3, <2>4 DEF ServiceInOrder
  <2>5. CASE k \notin At
    BY <1>1, <1>2, <1>3, <2>3, <2>5
  <2>6. QED BY <2>4, <2>5
<1>7. Asked'
  <2>1. ServiceGone => \E j \in At : queue[j] = "BIND"
    BY DEF Asked, Queued, Together, At
  <2>2. Queued("DESTROY")' /\ ~requested' /\ ServiceGone' = ServiceGone
    BY <1>2 DEF Queued, ServiceGone
  <2> HIDE DEF RequestStop, ServiceIInv
  <2>3. ASSUME NEW k \in At', queue'[k] = "DESTROY", ServiceGone
        PROVE  \E j \in At' : j < k /\ queue'[j] = "BIND"
    <3>1. k = Len(queue) + 1
      BY <1>1, <1>2, <1>3, <2>3
    <3>2. PICK j \in At : queue[j] = "BIND"
      BY <2>1, <2>3
    <3>3. j \in At' /\ j < k /\ queue'[j] = "BIND"
      BY <1>2, <1>3, <3>1, <3>2
    <3>4. QED BY <3>3
  <2>4. QED BY <2>2, <2>3 DEF Asked
<1>8. ServiceServing' /\ Joining' /\ Dead' /\ RendererHasBuffers' /\ Stoppable'
  BY <1>2, <1>3 DEF ServiceServing, Joining, Dead, RendererHasBuffers, Stoppable, ServiceGone, Bound, Event
<1>9. QED BY <1>4, <1>5, <1>6, <1>7, <1>8

\* The queue and the phase of the service's life stay as they are.
LEMMA StillInv ==
  ASSUME ServiceIInv, GrantWrite \/ Relaunch \/ WorkerExits \/ UNCHANGED vars
  PROVE  ServiceIInv'
<1> USE DEF GrantWrite, Relaunch, WorkerExits, vars, ServiceIInv, androidVars, optionVars,
            projectionVars, settingVars, serverVars
<1>1. UNCHANGED <<queue, requested, mListener, mBufferManager, connected, mSurface>>
  OBVIOUS
<1>2. At' = At /\ ServiceGone' = ServiceGone /\ ServiceCreated' = ServiceCreated /\ Bound' = Bound
  BY <1>1 DEF At, ServiceGone, ServiceCreated, Bound
<1>3. TypeOK'
  <2>1. /\ mpc' \in {"idle", "join", "dead"} /\ canWrite' \in BOOLEAN
        /\ worker' \in {"none", "running", "exited"}
    BY DEF TypeOK
  <2>2. UNCHANGED <<system, mBound, mWanted, mSaved, mMediaProjection, unstopped>>
    OBVIOUS
  <2>3. QED BY <1>1, <2>1, <2>2 DEF TypeOK
<1>4. Together' /\ ServiceInOrder'
  BY <1>1, <1>2 DEF Together, ServiceInOrder
<1>5. Asked'
  BY <1>1, <1>2 DEF Asked, Queued, Dead
<1>6. ServiceServing' /\ Joining' /\ Dead' /\ RendererHasBuffers' /\ Stoppable'
  BY <1>1, <1>2 DEF ServiceServing, Joining, Dead, RendererHasBuffers, Stoppable
<1>7. QED BY <1>1, <1>3, <1>4, <1>5, <1>6

\* The worker reports a client to a service that is bound.
LEMMA HookInv ==
  ASSUME ServiceIInv, NEW c \in Clients, clientHook(c) \/ clientGone(c)
  PROVE  ServiceIInv'
<1> USE DEF clientHook, clientGone, postEventToUI, ServiceIInv, androidVars, optionVars,
            projectionVars, settingVars
<1>1. Bound /\ worker # "none" /\ mpc # "dead"
  BY DEF ServiceServing, Dead, ServiceGone, Bound
<1>2. PICK m \in {"CONNECTED", "DISCONNECTED"} : queue' = Append(queue, m)
  BY <1>1 DEF Bound
<1>3. /\ queue' \in Seq(Messages) /\ Together' /\ ServiceInOrder' /\ Asked'
      /\ (mpc = "join" => \A k \in At' : Event(queue'[k]))
  <2>1. UNCHANGED <<mListener, mBufferManager, requested, mpc>>
    OBVIOUS
  <2>2. QED BY <1>1, <1>2, <2>1, EventPosted
<1>4. connected' \in SUBSET Clients
  BY DEF TypeOK
<1>5. IsFiniteSet(connected')
  <2>1. IsFiniteSet(connected \cup {c}) /\ IsFiniteSet(connected \ {c})
    BY FS_AddElement, FS_RemoveElement
  <2>2. QED BY <2>1
<1>6. TypeOK'
  BY <1>3, <1>4 DEF TypeOK
<1>7. Joining'
  BY <1>3 DEF Joining, Bound
<1>8. ServiceServing' /\ Dead' /\ RendererHasBuffers' /\ Stoppable'
  <2>1. UNCHANGED <<mListener, mBufferManager, worker, mpc, mSurface, mMediaProjection, unstopped>>
    OBVIOUS
  <2>2. RendererHasBuffers /\ Stoppable
    OBVIOUS
  <2> HIDE DEF clientHook, clientGone, ServiceIInv
  <2>3. QED BY <1>1, <2>1, <2>2 DEF ServiceServing, Dead, RendererHasBuffers, Stoppable, Bound
<1>9. QED BY <1>3, <1>5, <1>6, <1>7, <1>8

\* onCreate: the BIND is next.
LEMMA onCreateInv ==
  ASSUME ServiceIInv, onCreate
  PROVE  ServiceIInv'
<1> USE DEF onCreate, Handles, ServiceIInv, androidVars
<1>1. /\ queue' \in Seq(Messages) /\ Len(queue) \in Nat /\ Len(queue') \in Nat
      /\ Len(queue) = Len(queue') + 1 /\ queue[1] = "CREATE"
      /\ \A k \in At' : queue'[k] = queue[k + 1] /\ k + 1 \in At
  BY Taken
<1>2. ServiceInOrder' /\ \A k \in At' : queue'[k] \in {"BIND", "DESTROY"}
  BY <1>1, RestInOrder
<1>3. 1 \in At
  BY <1>1 DEF At
<1>4. ServiceGone /\ 1 + 1 \in At /\ queue[1 + 1] = "BIND"
  BY <1>1, <1>3 DEF Together
<1>5. 1 \in At' /\ queue'[1] = "BIND"
  BY <1>1, <1>4 DEF At
<1>6. worker = "none" /\ ~mBufferManager /\ connected = {}
  BY <1>4 DEF ServiceServing, ServiceGone, Bound
<1>7. ServiceCreated' /\ ~ServiceGone' /\ ~Bound'
  BY <1>6 DEF ServiceCreated, ServiceGone, Bound
<1>8. TypeOK'
  <2>1. mWanted' \in [SettingNames -> BOOLEAN] /\ mSaved' \in [SettingNames -> SettingValues]
    BY DEF SettingValues
  <2>2. QED BY <1>1, <2>1 DEF TypeOK
<1>9. Together'
  <2>1. ASSUME NEW k \in At', queue'[k] = "BIND" PROVE k = 1
    <3>1. k \in Nat \ {0} /\ k + 1 \in At /\ queue[k + 1] = "BIND" /\ k + 1 # 1 /\ (k + 1) - 1 = k /\ k \in At
      BY <1>1, <2>1 DEF At
    <3>2. queue[k] = "CREATE"
      BY <3>1 DEF Together
    <3>3. ~(1 < k)
      BY <1>1, <1>3, <3>1, <3>2 DEF ServiceInOrder
    <3>4. QED BY <3>1, <3>3
  <2>2. Len(queue') > 0
    BY <1>1, <1>5 DEF At
  <2> HIDE DEF onCreate, ServiceIInv
  <2>3. QED BY <1>2, <1>5, <1>7, <2>1, <2>2 DEF Together
<1>10. Asked'
  <2>1. requested \/ Queued("DESTROY")
    BY <1>1, <1>3 DEF Asked, Queued, At
  <2>2. Queued("DESTROY") => Queued("DESTROY")' /\ ~requested
    <3>1. ASSUME NEW k \in At, queue[k] = "DESTROY" PROVE Queued("DESTROY")' /\ ~requested
      <4>1. k # 1
        BY <1>1, <3>1
      <4>2. k - 1 \in At' /\ (k - 1) + 1 = k
        BY <1>1, <4>1 DEF At
      <4>3. queue'[k - 1] = "DESTROY"
        BY <1>1, <3>1, <4>2
      <4>4. QED BY <3>1, <4>2, <4>3 DEF Asked, Queued, At
    <3>2. QED BY <3>1 DEF Queued, At
  <2>3. requested => ~Queued("DESTROY")'
    <3>1. ASSUME NEW k \in At', queue'[k] = "DESTROY" PROVE ~requested
      BY <1>1, <3>1 DEF Asked
    <3>2. QED BY <3>1 DEF Queued, At
  <2>4. requested' = requested
    OBVIOUS
  <2> HIDE DEF onCreate, ServiceIInv
  <2>5. QED BY <1>7, <2>1, <2>2, <2>3, <2>4 DEF Asked, Queued, At
<1>11. ServiceServing'
  BY <1>2, <1>6, <1>7 DEF ServiceServing, Event, ServiceCreated
<1>12. Joining' /\ Dead' /\ RendererHasBuffers' /\ Stoppable'
  BY DEF Joining, Dead, RendererHasBuffers, Stoppable
<1>13. IsFiniteSet(connected)'
  OBVIOUS
<1>14. QED BY <1>2, <1>8, <1>9, <1>10, <1>11, <1>12, <1>13

\* onBind: nothing but a DESTROY is left, and the server has not said anything.
LEMMA onBindInv ==
  ASSUME ServiceIInv, NEW wanted \in [SettingNames -> BOOLEAN], NEW allocated \in BOOLEAN,
         onBind(wanted, allocated)
  PROVE  ServiceIInv'
<1> USE DEF onBind, Handles, ServiceIInv, androidVars, projectionVars, settingVars
<1>1. /\ queue' \in Seq(Messages) /\ Len(queue) \in Nat /\ Len(queue') \in Nat
      /\ Len(queue) = Len(queue') + 1 /\ queue[1] = "BIND"
      /\ \A k \in At' : queue'[k] = queue[k + 1] /\ k + 1 \in At
  BY Taken
<1>2. ServiceInOrder' /\ \A k \in At' : queue'[k] = "DESTROY"
  BY <1>1, RestInOrder
<1>3. 1 \in At
  BY <1>1 DEF At
<1>4. ServiceCreated
  BY <1>1, <1>3 DEF Together
<1>5. worker = "none" /\ connected = {} /\ ~mSurface /\ mListener
  BY <1>4 DEF ServiceServing, ServiceCreated, Bound, RendererHasBuffers
<1>6. Bound' /\ ~ServiceGone' /\ ~ServiceCreated'
  BY <1>5 DEF Bound, ServiceGone, ServiceCreated
<1>7. TypeOK'
  BY <1>1 DEF TypeOK
<1>8. Together'
  BY <1>2, <1>6 DEF Together
<1>9. Asked'
  <2>1. requested \/ Queued("DESTROY")
    BY <1>4 DEF Asked, ServiceCreated, ServiceGone
  <2>2. Queued("DESTROY") => Queued("DESTROY")'
    <3>1. ASSUME NEW k \in At, queue[k] = "DESTROY" PROVE Queued("DESTROY")'
      <4>1. k # 1
        BY <1>1, <3>1
      <4>2. k - 1 \in At' /\ (k - 1) + 1 = k
        BY <1>1, <4>1 DEF At
      <4>3. queue'[k - 1] = "DESTROY"
        BY <1>1, <3>1, <4>2
      <4>4. QED BY <4>2, <4>3 DEF Queued, At
    <3>2. QED BY <3>1 DEF Queued, At
  <2>3. \A k \in At' : ~requested
    BY <1>1, <1>2 DEF Asked
  <2>4. requested' = requested
    OBVIOUS
  <2> HIDE DEF onBind, ServiceIInv
  <2>5. QED BY <1>6, <2>1, <2>2, <2>3, <2>4 DEF Asked
<1>10. ServiceServing'
  BY <1>2, <1>5, <1>6 DEF ServiceServing, Event
<1>11. Joining' /\ Dead' /\ RendererHasBuffers' /\ Stoppable'
  BY <1>5 DEF Joining, Dead, RendererHasBuffers, Stoppable
<1>12. IsFiniteSet(connected)'
  OBVIOUS
<1>13. QED BY <1>2, <1>7, <1>8, <1>9, <1>10, <1>11, <1>12

\* A CLIENT_CONNECTED that finds buffers comes from a worker that is there.
LEMMA handleConnectedInv ==
  ASSUME ServiceIInv, handleConnected
  PROVE  ServiceIInv'
<1> USE DEF handleConnected, Handles, startProjection, dimAndRotate, set, ServiceIInv,
            androidVars, optionVars, serverVars
<1>1. /\ queue' \in Seq(Messages) /\ Together' /\ ServiceInOrder' /\ Asked'
      /\ ~ServiceCreated /\ ~(mListener /\ worker = "none")
  BY EventTaken DEF Event
<1>2. mBufferManager /\ worker # "none"
  BY <1>1 DEF needsBuffers, RendererHasBuffers, ServiceServing
<1>3. TypeOK'
  <2>1. system' \in [SettingNames -> SettingValues]
    BY DEF TypeOK, SettingValues
  <2>2. mSaved' \in [SettingNames -> SettingValues]
    BY DEF TypeOK
  <2>3. QED BY <1>1, <2>1, <2>2 DEF TypeOK
<1>4. ServiceServing' /\ Joining' /\ Dead' /\ RendererHasBuffers'
  BY <1>2 DEF ServiceServing, Joining, Dead, RendererHasBuffers, Bound
<1>5. Stoppable' /\ IsFiniteSet(connected)'
  BY DEF Stoppable, TypeOK
<1>6. QED BY <1>1, <1>3, <1>4, <1>5

\* After a crash nothing is left but the settings.
LEMMA crashConnectedInv ==
  ASSUME ServiceIInv, crashConnected
  PROVE  ServiceIInv'
<1> USE DEF crashConnected, Handles, ServiceIInv
<1>1. At' = {} /\ ServiceGone' /\ ~ServiceCreated' /\ ~Bound'
  BY DEF At, ServiceGone, ServiceCreated, Bound
<1>2. TypeOK'
  <2>1. queue' \in Seq(Messages) /\ connected' \in SUBSET Clients /\ unstopped' \in Nat
    OBVIOUS
  <2>2. mSaved' \in [SettingNames -> SettingValues] /\ mWanted' \in [SettingNames -> BOOLEAN]
    BY DEF SettingValues
  <2>3. QED BY <2>1, <2>2 DEF TypeOK
<1>3. Together' /\ ServiceInOrder'
  BY <1>1 DEF Together, ServiceInOrder
<1>4. Asked' /\ ServiceServing' /\ Joining' /\ Dead' /\ RendererHasBuffers'
  BY <1>1 DEF Asked, ServiceServing, Joining, Dead, RendererHasBuffers
<1>5. Stoppable' /\ IsFiniteSet(connected)'
  BY FS_EmptySet DEF Stoppable
<1>6. QED BY <1>2, <1>3, <1>4, <1>5

\* DISCONNECTED stops the renderer, not the server.
LEMMA handleDisconnectedInv ==
  ASSUME ServiceIInv, handleDisconnected
  PROVE  ServiceIInv'
<1> USE DEF handleDisconnected, Handles, stopProjection, set, ServiceIInv,
            androidVars, optionVars, serverVars
<1>1. /\ queue' \in Seq(Messages) /\ Together' /\ ServiceInOrder' /\ Asked'
      /\ ~(mListener /\ worker = "none")
  BY EventTaken DEF Event
<1>2. TypeOK'
  <2>1. system' \in [SettingNames -> SettingValues]
    BY DEF TypeOK
  <2>2. unstopped' \in Nat
    BY DEF TypeOK, Stoppable
  <2>3. QED BY <1>1, <2>1, <2>2 DEF TypeOK
<1>3. ServiceServing' /\ Joining' /\ Dead'
  BY <1>1 DEF ServiceServing, Joining, Dead, Bound
<1>4. RendererHasBuffers' /\ Stoppable' /\ IsFiniteSet(connected)'
  BY DEF RendererHasBuffers, Stoppable
<1>5. QED BY <1>1, <1>2, <1>3, <1>4

\* onDestroy meets a service that is bound.
LEMMA onDestroyInv ==
  ASSUME ServiceIInv, onDestroy
  PROVE  ServiceIInv'
<1> USE DEF onDestroy, Handles, stopProjection, ServiceIInv, androidVars, optionVars,
            settingVars, serverVars
<1>1. /\ queue' \in Seq(Messages) /\ Len(queue) \in Nat /\ Len(queue') \in Nat
      /\ Len(queue) = Len(queue') + 1 /\ queue[1] = "DESTROY"
      /\ \A k \in At' : queue'[k] = queue[k + 1] /\ k + 1 \in At
  BY Taken
<1>2. ServiceInOrder' /\ \A k \in At' : Event(queue'[k])
  BY <1>1, RestInOrder
<1>3. 1 \in At /\ \A k \in At : k \in Nat /\ 1 <= k
  BY <1>1 DEF At
<1>4. ~requested /\ ~ServiceGone
  BY <1>1, <1>3 DEF Asked
<1>5. Bound
  BY <1>1, <1>4 DEF Together, ServiceCreated, ServiceGone, Bound
<1>6. TypeOK'
  <2>1. unstopped' \in Nat
    BY DEF TypeOK, Stoppable
  <2>2. QED BY <1>1, <2>1 DEF TypeOK
<1>7. Bound' /\ ~ServiceGone' /\ ~ServiceCreated' /\ ~requested'
  BY <1>4, <1>5 DEF Bound, ServiceGone, ServiceCreated
<1>8. Together'
  BY <1>2, <1>7 DEF Together, Event
<1>9. Asked'
  BY <1>2, <1>7 DEF Asked, Event
<1>10. ServiceServing'
  <2>1. ~(mListener /\ worker = "none") \/ \A k \in At' : ~Event(queue'[k])
    BY <1>1 DEF ServiceServing
  <2>2. UNCHANGED <<mListener, mBufferManager, worker, connected>>
    OBVIOUS
  <2>3. /\ mBufferManager => mListener
        /\ connected # {} => worker # "none"
    BY DEF ServiceServing
  <2> HIDE DEF onDestroy, ServiceIInv
  <2>4. (mListener /\ worker = "none")' => (\A k \in At : ~Event(queue[k]))'
    BY <2>1, <2>2
  <2>5. QED BY <1>7, <2>2, <2>3, <2>4 DEF ServiceServing
<1>11. Joining' /\ Dead' /\ RendererHasBuffers' /\ Stoppable'
  BY <1>2, <1>7 DEF Joining, Dead, RendererHasBuffers, Stoppable
<1>12. IsFiniteSet(connected)'
  OBVIOUS
<1>13. QED BY <1>2, <1>6, <1>8, <1>9, <1>10, <1>11, <1>12

\* The farewells of rfbShutdownServer are all that is added.
LEMMA stopServerInv ==
  ASSUME ServiceIInv, stopServer
  PROVE  ServiceIInv'
<1> USE DEF stopServer, ServiceIInv, androidVars, optionVars, projectionVars, settingVars
<1>1. Bound /\ ~requested /\ ~mSurface /\ \A k \in At : Event(queue[k])
  BY DEF Joining
<1> DEFINE n == Cardinality(connected)
           byes == [k \in 1..n |-> "DISCONNECTED"]
<1>2. n \in Nat
  BY FS_CardinalityType
<1>3. queue' = queue \o byes
  BY <1>1 DEF Bound
<1> HIDE DEF n
<1>4. byes \in Seq(Messages) /\ Len(byes) = n /\ \A k \in 1..n : byes[k] = "DISCONNECTED"
  BY <1>2 DEF Messages
<1> HIDE DEF byes
<1>5. queue' \in Seq(Messages) /\ \A k \in At' : Event(queue'[k])
  <2>1. queue \in Seq(Messages) /\ Len(queue) \in Nat
    BY DEF TypeOK
  <2> HIDE DEF stopServer, ServiceIInv
  <2>2. queue' \in Seq(Messages) /\ Len(queue') = Len(queue) + n
    <3>1. queue \o byes \in Seq(Messages) /\ Len(queue \o byes) = Len(queue) + Len(byes)
      BY <1>4, <2>1
    <3>2. QED BY <1>3, <1>4, <3>1
  <2>3. ASSUME NEW k \in At' PROVE Event(queue'[k])
    <3>1. CASE k <= Len(queue)
      <4>1. k \in At /\ queue'[k] = queue[k]
        BY <1>3, <1>4, <2>1, <2>2, <3>1 DEF At
      <4>2. QED BY <1>1, <4>1
    <3>2. CASE k > Len(queue)
      <4>1. k - Len(queue) \in 1..n /\ queue'[k] = byes[k - Len(queue)]
        BY <1>2, <1>3, <1>4, <2>1, <2>2, <3>2 DEF At
      <4>2. QED BY <1>4, <4>1 DEF Event
    <3>3. QED BY <2>1, <2>2, <3>1, <3>2 DEF At
  <2>4. QED BY <2>2, <2>3
<1>6. ServiceGone' /\ ~ServiceCreated' /\ ~Bound' /\ ~requested'
  BY <1>1 DEF ServiceGone, ServiceCreated, Bound
<1>7. TypeOK'
  BY <1>5 DEF TypeOK
<1>8. Together' /\ ServiceInOrder'
  BY <1>5, <1>6 DEF Together, ServiceInOrder, Event
<1>9. Asked'
  <2>1. ~Queued("CREATE")'
    BY <1>5 DEF Queued, At, Event
  <2>2. QED BY <1>5, <1>6, <2>1 DEF Asked, Event
<1>10. ServiceServing' /\ Joining' /\ Dead' /\ RendererHasBuffers' /\ Stoppable'
  BY <1>1, <1>6 DEF ServiceServing, Joining, Dead, RendererHasBuffers, Stoppable, ServiceGone
<1>11. IsFiniteSet(connected)'
  BY FS_EmptySet
<1>12. QED BY <1>7, <1>8, <1>9, <1>10, <1>11

\* No step of the looper, the worker or Android leaves the inductive invariant.
LEMMA ServiceNextInv == ServiceIInv /\ [Next]_vars => ServiceIInv'
<1> SUFFICES ASSUME ServiceIInv, [Next]_vars PROVE ServiceIInv'
  OBVIOUS
<1>1. CASE RequestBind
  BY <1>1, RequestBindInv
<1>2. CASE RequestStop
  BY <1>2, RequestStopInv
<1>3. CASE GrantWrite \/ Relaunch \/ WorkerExits \/ UNCHANGED vars
  BY <1>3, StillInv
<1>4. CASE \E c \in Clients : clientHook(c) \/ clientGone(c)
  BY <1>4, HookInv
<1>5. CASE onCreate
  BY <1>5, onCreateInv
<1>6. CASE \E wanted \in [SettingNames -> BOOLEAN], allocated \in BOOLEAN :
             onBind(wanted, allocated)
  BY <1>6, onBindInv
<1>7. CASE handleConnected
  BY <1>7, handleConnectedInv
<1>8. CASE crashConnected
  BY <1>8, crashConnectedInv
<1>9. CASE handleDisconnected
  BY <1>9, handleDisconnectedInv
<1>10. CASE onDestroy
  BY <1>10, onDestroyInv
<1>11. CASE stopServer
  BY <1>11, stopServerInv
<1>12. QED BY <1>1, <1>2, <1>3, <1>4, <1>5, <1>6, <1>7, <1>8, <1>9, <1>10, <1>11
           DEF Next, Main, Worker, Android

\* The inductive invariant of the queue and of the service's life holds in every
\* reachable state, for any number of clients.
THEOREM Invariance == Spec => []ServiceIInv
BY ServiceInitInv, ServiceNextInv, PTL DEF Spec

-----------------------------------------------------------------------------
(***************************************************************************)
(* The results                                                             *)
(***************************************************************************)

\* stop() is never called on a MediaProjection that is not there, and no
\* variable leaves its type otherwise.
THEOREM TypeCorrect == Spec => []TypeOK
<1>1. ServiceIInv => TypeOK
  BY DEF ServiceIInv
<1>2. QED BY <1>1, Invariance, PTL

\* However many clients come and go and however the service is torn down, the
\* renderer is up only while the server it swaps buffers with is.
THEOREM RendererAlwaysHasBuffers == Spec => []RendererHasBuffers
<1>1. ServiceIInv => RendererHasBuffers
  BY DEF ServiceIInv
<1>2. QED BY <1>1, Invariance, PTL

\* The process dies in bindNextProducerBuffer only after onDestroy; neither a
\* failed startServer nor a late event of an earlier session leads there while
\* the service is registered.
THEOREM CrashesOnlyAfterDestroy == Spec => CrashOnlyAfterDestroy
<1>1. ServiceIInv /\ [Next]_vars => [mpc' = "dead" => ~mListener]_vars
  <2> SUFFICES ASSUME ServiceIInv, Next, mpc' = "dead" PROVE ~mListener
    OBVIOUS
  <2>1. CASE crashConnected
    <3>1. queue # <<>> /\ queue[1] = "CONNECTED" /\ ~mBufferManager
      BY <2>1 DEF crashConnected, Handles, ServiceIInv, TypeOK
    <3>2. QED BY <3>1 DEF ServiceIInv, Together, ServiceCreated
  <2>2. CASE mpc = "dead"
    BY <2>2 DEF ServiceIInv, Dead, ServiceGone
  <2>3. crashConnected \/ mpc = "dead"
    BY DEF Next, Main, Worker, Android, RequestBind, RequestStop, GrantWrite, Relaunch,
           clientHook, clientGone, WorkerExits, onCreate, onBind, handleConnected,
           handleDisconnected, onDestroy, stopServer, Handles
  <2>4. QED BY <2>1, <2>2, <2>3
<1>2. QED BY <1>1, Invariance, PTL DEF Spec, CrashOnlyAfterDestroy

-----------------------------------------------------------------------------
(***************************************************************************)
(* One viewer at a time.  What the screen looks like after each message of *)
(* the queue: "shown" once a CONNECTED, "hidden" once a DISCONNECTED has   *)
(* been handled.  The last picture is that of the client that is there     *)
(* now, the first one that of the service's and the system's state.        *)
(***************************************************************************)
OneViewer == \A c, d \in Clients : c = d

Views == {"shown", "hidden"}
ViewOf(cs) == IF cs = {} THEN "hidden" ELSE "shown"

\* Message m turns view v into view w: CONNECTED and DISCONNECTED alternate,
\* and the service is created and bound while nobody is there.
Turns(m, v, w) ==
  /\ m = "CONNECTED" => v = "hidden" /\ w = "shown"
  /\ m = "DISCONNECTED" => v = "shown" /\ w = "hidden"
  /\ m \in {"CREATE", "BIND"} => v = "hidden" /\ w = "hidden"
  /\ m = "DESTROY" => w = v

Line(pic) ==
  /\ pic \in [0..Len(queue) -> Views]
  /\ \A k \in At : Turns(queue[k], pic[k - 1], pic[k])
  /\ pic[Len(queue)] = ViewOf(connected)

\* Nobody is there: nothing is projected, the settings are the user's.
Hidden == ~mSurface /\ \A s \in SettingNames : system[s] = "user"

\* Somebody is there: what the service has changed it can put back; the
\* screen is projected until onDestroy.
Shown ==
  /\ mpc = "idle" /\ mListener => mSurface
  /\ \A s \in SettingNames :
       IF mWanted[s] THEN mSaved[s] = "user" ELSE system[s] = "user"

Seen(v) == IF v = "shown" THEN Shown ELSE Hidden

\* What is not permitted has not been done.
Permitted == ~canWrite => \A s \in SettingNames : system[s] = "user"

OneInv ==
  /\ mMediaProjection = mSurface /\ NothingLeaked /\ Permitted
  /\ \E pic \in [0..Len(queue) -> Views] : Line(pic) /\ Seen(pic[0])

\* The picture after the first message becomes the first one.
LEMMA LineTaken ==
  ASSUME TypeOK, queue # <<>>, queue' = Tail(queue), UNCHANGED connected,
         NEW pic \in [0..Len(queue) -> Views], Line(pic)
  PROVE  /\ \E rest \in [0..Len(queue') -> Views] : Line(rest)' /\ rest[0] = pic[1]
         /\ Turns(Head(queue), pic[0], pic[1]) /\ pic[0] \in Views
<1>1. /\ Len(queue) \in Nat /\ Len(queue') \in Nat /\ Len(queue) = Len(queue') + 1
      /\ queue[1] = Head(queue)
      /\ \A k \in At' : queue'[k] = queue[k + 1] /\ k + 1 \in At
  BY Taken
<1>0. [k \in 0..Len(queue') |-> pic[k + 1]] \in [0..Len(queue') -> Views]
  BY <1>1
<1>2. PICK rest \in [0..Len(queue') -> Views] : \A k \in 0..Len(queue') : rest[k] = pic[k + 1]
  BY <1>0
<1>3. \A k \in At' : Turns(queue'[k], rest[k - 1], rest[k])
  <2> SUFFICES ASSUME NEW k \in At' PROVE Turns(queue'[k], rest[k - 1], rest[k])
    OBVIOUS
  <2>1. rest[k - 1] = pic[(k + 1) - 1] /\ rest[k] = pic[k + 1]
    BY <1>1, <1>2 DEF At
  <2>2. QED BY <1>1, <2>1 DEF Line
<1>4. rest[Len(queue')] = ViewOf(connected')
  BY <1>1, <1>2 DEF Line
<1>5. Line(rest)' /\ rest[0] = pic[1]
  <2>1. rest[0] = pic[1]
    BY <1>1, <1>2
  <2>2. Line(rest)'
    BY ONLY <1>2, <1>3, <1>4 DEF Line
  <2>3. QED BY <2>1, <2>2
<1>6. Turns(queue[1], pic[1 - 1], pic[1]) /\ pic[0] \in Views
  BY <1>1 DEF Line, At
<1>7. QED BY <1>1, <1>5, <1>6

\* Messages are added, the first of which leads from the last picture to v and
\* the others nowhere.
LEMMA LineExtended ==
  ASSUME TypeOK, queue' \in Seq(Messages), Len(queue') >= Len(queue),
         \A k \in At : queue'[k] = queue[k],
         NEW pic \in [0..Len(queue) -> Views], Line(pic),
         NEW v \in Views, v = ViewOf(connected)',
         Len(queue') = Len(queue) => v = ViewOf(connected),
         \A k \in At' : k > Len(queue) =>
           Turns(queue'[k], IF k = Len(queue) + 1 THEN ViewOf(connected) ELSE v, v)
  PROVE  \E more \in [0..Len(queue') -> Views] : Line(more)' /\ more[0] = pic[0]
<1>1. Len(queue) \in Nat /\ Len(queue') \in Nat
  BY DEF TypeOK
<1>0. [k \in 0..Len(queue') |-> IF k <= Len(queue) THEN pic[k] ELSE v]
        \in [0..Len(queue') -> Views]
  BY <1>1
<1>2. PICK more \in [0..Len(queue') -> Views] :
        \A k \in 0..Len(queue') : more[k] = IF k <= Len(queue) THEN pic[k] ELSE v
  BY <1>0
<1>3. \A k \in At' : Turns(queue'[k], more[k - 1], more[k])
  <2> SUFFICES ASSUME NEW k \in At' PROVE Turns(queue'[k], more[k - 1], more[k])
    OBVIOUS
  <2>1. CASE k <= Len(queue)
    <3>1. k \in At /\ more[k - 1] = pic[k - 1] /\ more[k] = pic[k]
      BY <1>1, <1>2, <2>1 DEF At
    <3>2. QED BY <3>1 DEF Line
  <2>2. CASE k > Len(queue)
    <3>1. more[k] = v /\ more[k - 1] = IF k = Len(queue) + 1 THEN pic[Len(queue)] ELSE v
      BY <1>1, <1>2, <2>2 DEF At
    <3>2. QED BY <2>2, <3>1 DEF Line
  <2>3. QED BY <1>1, <2>1, <2>2 DEF At
<1>4. more[Len(queue')] = ViewOf(connected')
  BY <1>1, <1>2 DEF Line
<1>5. Line(more)' /\ more[0] = pic[0]
  BY <1>1, <1>2, <1>3, <1>4 DEF Line
<1>6. QED BY <1>5

\* What a message does to the screen, given the pictures before and after it.
LEMMA HandledOne ==
  ASSUME ServiceIInv, OneInv, queue # <<>>, queue' = Tail(queue), UNCHANGED connected,
         mMediaProjection' = mSurface', Permitted',
         \A v, w \in Views : Turns(Head(queue), v, w) /\ Seen(v) =>
           Seen(w)' /\ NothingLeaked'
  PROVE  OneInv'
<1>1. PICK pic \in [0..Len(queue) -> Views] : Line(pic) /\ Seen(pic[0])
  BY DEF OneInv
<1>2. TypeOK
  BY DEF ServiceIInv
<1>3. /\ \E rest \in [0..Len(queue') -> Views] : Line(rest)' /\ rest[0] = pic[1]
      /\ Turns(Head(queue), pic[0], pic[1]) /\ pic[0] \in Views
  BY <1>1, <1>2, LineTaken
<1>4. PICK rest \in [0..Len(queue') -> Views] : Line(rest)' /\ rest[0] = pic[1]
  BY <1>3
<1>5. rest[0] \in Views
  <2>1. Len(queue') \in Nat
    BY <1>2, Taken
  <2>2. QED BY <2>1
<1>6. Seen(rest[0])' /\ NothingLeaked'
  BY <1>1, <1>3, <1>4, <1>5
<1>7. QED BY <1>4, <1>6 DEF OneInv

\* Messages put at the end do not change what is seen now.
LEMMA ExtendedOne ==
  ASSUME ServiceIInv, OneInv, queue' \in Seq(Messages), Len(queue') >= Len(queue),
         \A k \in At : queue'[k] = queue[k],
         Len(queue') = Len(queue) => ViewOf(connected)' = ViewOf(connected),
         \A k \in At' : k > Len(queue) =>
           Turns(queue'[k],
                 IF k = Len(queue) + 1 THEN ViewOf(connected) ELSE ViewOf(connected)',
                 ViewOf(connected)'),
         mMediaProjection' = mSurface', NothingLeaked', Permitted',
         \A v \in Views : Seen(v) => Seen(v)'
  PROVE  OneInv'
<1>1. PICK pic \in [0..Len(queue) -> Views] : Line(pic) /\ Seen(pic[0])
  BY DEF OneInv
<1>2. TypeOK
  BY DEF ServiceIInv
<1>3. PICK v \in Views : v = ViewOf(connected)'
  BY DEF Views, ViewOf
<1>4. \E more \in [0..Len(queue') -> Views] : Line(more)' /\ more[0] = pic[0]
  BY <1>1, <1>2, <1>3, LineExtended
<1>5. PICK more \in [0..Len(queue') -> Views] : Line(more)' /\ more[0] = pic[0]
  BY <1>4
<1>6. pic[0] \in Views
  <2>1. Len(queue) \in Nat
    BY <1>2 DEF TypeOK
  <2>2. QED BY <2>1
<1>7. Seen(more[0])'
  BY <1>1, <1>5, <1>6
<1>8. QED BY <1>5, <1>7 DEF OneInv

\* Somebody sees the screen as the first message finds it.
LEMMA FirstSeen ==
  ASSUME ServiceIInv, OneInv, queue # <<>>
  PROVE  \E v, w \in Views : Turns(Head(queue), v, w) /\ Seen(v)
<1>1. PICK pic \in [0..Len(queue) -> Views] : Line(pic) /\ Seen(pic[0])
  BY DEF OneInv
<1>2. Len(queue) \in Nat /\ 1 \in At /\ queue[1] = Head(queue)
  BY DEF ServiceIInv, TypeOK, At
<1>3. Turns(queue[1], pic[1 - 1], pic[1])
  BY <1>1, <1>2 DEF Line
<1>4. pic[0] \in Views /\ pic[1] \in Views
  BY <1>2 DEF At
<1>5. Turns(Head(queue), pic[0], pic[1])
  BY <1>2, <1>3
<1>6. QED BY <1>1, <1>4, <1>5

\* Steps that leave queue, clients, settings and projection alone.
LEMMA StillOne ==
  ASSUME ServiceIInv, OneInv, GrantWrite \/ Relaunch \/ WorkerExits \/ UNCHANGED vars
  PROVE  OneInv'
<1> USE DEF GrantWrite, Relaunch, WorkerExits, vars, androidVars, optionVars,
            projectionVars, settingVars, serverVars
<1>1. /\ UNCHANGED <<queue, connected, mSurface, mMediaProjection, unstopped, system>>
      /\ UNCHANGED <<mWanted, mSaved, mListener>>
  OBVIOUS
<1>2. canWrite => canWrite'
  OBVIOUS
<1>3. mpc' = "idle" /\ mListener' => mpc = "idle"
  BY DEF ServiceIInv, Dead, ServiceGone, Joining
<1> HIDE DEF GrantWrite, Relaunch, WorkerExits, vars
<1>4. PICK pic \in [0..Len(queue) -> Views] : Line(pic) /\ Seen(pic[0])
  BY DEF OneInv
<1>5. Line(pic)'
  BY <1>1, <1>4 DEF Line, At
<1>6. Hidden => Hidden'
  BY <1>1 DEF Hidden
<1>7. Shown => Shown'
  BY <1>1, <1>3 DEF Shown
<1>8. Seen(pic[0])'
  BY <1>4, <1>6, <1>7 DEF Seen
<1>9. Permitted' /\ NothingLeaked'
  BY <1>1, <1>2 DEF OneInv, Permitted, NothingLeaked
<1>10. mMediaProjection' = mSurface' /\ pic \in [0..Len(queue') -> Views]
  BY <1>1 DEF OneInv
<1>11. QED BY <1>5, <1>8, <1>9, <1>10 DEF OneInv

\* Whoever asks for the service, nobody is there.
LEMMA RequestBindOne ==
  ASSUME ServiceIInv, OneInv, RequestBind
  PROVE  OneInv'
<1> USE DEF RequestBind, optionVars, projectionVars, settingVars, serverVars
<1>1. connected = {}
  BY DEF ServiceIInv, Asked, ServiceServing, ServiceGone, Bound
<1>2. queue \in Seq(Messages) /\ Len(queue) \in Nat
  BY DEF ServiceIInv, TypeOK
<1>3. /\ queue' \in Seq(Messages) /\ Len(queue') = Len(queue) + 2
      /\ \A k \in At : queue'[k] = queue[k]
      /\ queue'[Len(queue) + 1] = "CREATE" /\ queue'[Len(queue) + 2] = "BIND"
  BY <1>2 DEF Messages, At
<1>4. ViewOf(connected)' = "hidden" /\ ViewOf(connected) = "hidden"
  BY <1>1 DEF ViewOf
<1>5. \A k \in At' : k > Len(queue) => Turns(queue'[k], "hidden", "hidden")
  <2>1. \A k \in At' : k > Len(queue) => k = Len(queue) + 1 \/ k = Len(queue) + 2
    BY <1>2, <1>3 DEF At
  <2>2. QED BY <1>3, <2>1 DEF Turns
<1>6. mMediaProjection' = mSurface' /\ NothingLeaked' /\ Permitted'
  BY DEF OneInv, NothingLeaked, Permitted
<1>7. \A v \in Views : Seen(v) => Seen(v)'
  BY DEF Seen, Shown, Hidden
<1> HIDE DEF RequestBind
<1>8. \A k \in At' : k > Len(queue) =>
        Turns(queue'[k],
              IF k = Len(queue) + 1 THEN ViewOf(connected) ELSE ViewOf(connected)',
              ViewOf(connected)')
  BY <1>4, <1>5
<1>9. Len(queue') >= Len(queue)
  BY <1>2, <1>3
<1>10. QED BY <1>3, <1>4, <1>6, <1>7, <1>8, <1>9, ExtendedOne

\* A single message m is added, with what it means for the clients.
LEMMA PostedOne ==
  ASSUME ServiceIInv, OneInv, NEW m \in Messages, queue' = Append(queue, m),
         Turns(m, ViewOf(connected), ViewOf(connected)'),
         mMediaProjection' = mSurface', NothingLeaked', Permitted',
         \A v \in Views : Seen(v) => Seen(v)'
  PROVE  OneInv'
<1>1. TypeOK
  BY DEF ServiceIInv
<1>2. /\ queue' \in Seq(Messages) /\ Len(queue) \in Nat
      /\ Len(queue') = Len(queue) + 1 /\ queue'[Len(queue) + 1] = m
      /\ \A k \in At : queue'[k] = queue[k] /\ k \in At'
  BY <1>1, Posted
<1>3. Len(queue') >= Len(queue) /\ Len(queue') # Len(queue)
  BY <1>2
<1>4. \A k \in At' : k > Len(queue) => k = Len(queue) + 1
  BY <1>2 DEF At
<1>5. \A k \in At' : k > Len(queue) =>
        Turns(queue'[k],
              IF k = Len(queue) + 1 THEN ViewOf(connected) ELSE ViewOf(connected)',
              ViewOf(connected)')
  BY <1>2, <1>4
<1>6. QED BY <1>2, <1>3, <1>5, ExtendedOne

\* A request to stop puts DESTROY behind everything that is queued.
LEMMA RequestStopOne ==
  ASSUME ServiceIInv, OneInv, RequestStop
  PROVE  OneInv'
<1> USE DEF RequestStop, optionVars, projectionVars, settingVars, serverVars
<1>1. Turns("DESTROY", ViewOf(connected), ViewOf(connected)')
  BY DEF Turns, ViewOf
<1>2. mMediaProjection' = mSurface' /\ NothingLeaked' /\ Permitted'
  BY DEF OneInv, NothingLeaked, Permitted
<1>3. \A v \in Views : Seen(v) => Seen(v)'
  BY DEF Seen, Shown, Hidden
<1>4. "DESTROY" \in Messages
  BY DEF Messages
<1>5. queue' = Append(queue, "DESTROY")
  OBVIOUS
<1> HIDE DEF RequestStop
<1>6. QED BY <1>1, <1>2, <1>3, <1>4, <1>5, PostedOne

\* The one client comes when nobody is there and leaves nobody behind.
LEMMA HookOne ==
  ASSUME OneViewer, ServiceIInv, OneInv, NEW c \in Clients, clientHook(c) \/ clientGone(c)
  PROVE  OneInv'
<1> USE DEF clientHook, clientGone, postEventToUI, androidVars, optionVars,
            projectionVars, settingVars
<1>1. mListener /\ connected \subseteq Clients
  BY DEF ServiceIInv, ServiceServing, Bound, TypeOK
<1>2. PICK m \in {"CONNECTED", "DISCONNECTED"} :
        queue' = Append(queue, m) /\ Turns(m, ViewOf(connected), ViewOf(connected)')
  <2>1. CASE clientHook(c)
    <3>1. connected = {} /\ connected' # {}
      BY <1>1, <2>1 DEF OneViewer
    <3>2. QED BY <1>1, <2>1, <3>1 DEF Turns, ViewOf
  <2>2. CASE clientGone(c)
    <3>1. connected # {} /\ connected' = {}
      BY <1>1, <2>2 DEF OneViewer
    <3>2. QED BY <1>1, <2>2, <3>1 DEF Turns, ViewOf
  <2>3. QED BY <2>1, <2>2
<1>3. mMediaProjection' = mSurface' /\ NothingLeaked' /\ Permitted'
  BY DEF OneInv, NothingLeaked, Permitted
<1>4. \A v \in Views : Seen(v) => Seen(v)'
  BY DEF Seen, Shown, Hidden
<1>5. m \in Messages
  BY DEF Messages
<1> HIDE DEF clientHook, clientGone
<1>6. QED BY <1>2, <1>3, <1>4, <1>5, PostedOne

\* onCreate finds no projection and the user's settings.
LEMMA onCreateOne ==
  ASSUME ServiceIInv, OneInv, onCreate
  PROVE  OneInv'
<1> USE DEF onCreate, Handles, androidVars
<1>1. queue # <<>> /\ Head(queue) = "CREATE" /\ queue' = Tail(queue) /\ connected' = connected
  OBVIOUS
<1>2. mMediaProjection' = mSurface' /\ Permitted'
  BY DEF OneInv, Permitted
<1>3. ASSUME NEW v \in Views, NEW w \in Views, Turns("CREATE", v, w), Seen(v)
      PROVE  Seen(w)' /\ NothingLeaked'
  <2>1. Hidden /\ w = "hidden"
    BY <1>3 DEF Turns, Seen
  <2>2. Hidden'
    BY <2>1 DEF Hidden
  <2>3. NothingLeaked'
    BY <2>1 DEF Hidden, OneInv, NothingLeaked
  <2>4. QED BY <2>1, <2>2, <2>3 DEF Seen
<1> HIDE DEF onCreate
<1>4. QED BY <1>1, <1>2, <1>3, HandledOne

\* onBind finds no projection and the user's settings, whether or not the
\* server it starts comes up.
LEMMA onBindOne ==
  ASSUME ServiceIInv, OneInv, NEW wanted \in [SettingNames -> BOOLEAN], NEW allocated \in BOOLEAN,
         onBind(wanted, allocated)
  PROVE  OneInv'
<1> USE DEF onBind, Handles, androidVars, projectionVars, settingVars
<1>1. queue # <<>> /\ Head(queue) = "BIND" /\ queue' = Tail(queue) /\ connected' = connected
  OBVIOUS
<1>2. mMediaProjection' = mSurface' /\ Permitted' /\ NothingLeaked'
  BY DEF OneInv, Permitted, NothingLeaked
<1>3. ASSUME NEW v \in Views, NEW w \in Views, Turns("BIND", v, w), Seen(v)
      PROVE  Seen(w)'
  <2>1. Hidden /\ w = "hidden"
    BY <1>3 DEF Turns, Seen
  <2>2. Hidden'
    BY <2>1 DEF Hidden
  <2>3. QED BY <2>1, <2>2 DEF Seen
<1> HIDE DEF onBind
<1>4. QED BY <1>1, <1>2, <1>3, HandledOne

\* What is saved is what the user has chosen.
LEMMA handleConnectedOne ==
  ASSUME ServiceIInv, OneInv, handleConnected
  PROVE  OneInv'
<1> USE DEF handleConnected, Handles, startProjection, dimAndRotate, set, androidVars,
            optionVars, serverVars
<1>1. queue # <<>> /\ Head(queue) = "CONNECTED" /\ queue' = Tail(queue) /\ connected' = connected
  OBVIOUS
<1>2. mMediaProjection' = mSurface' /\ Permitted'
  <2>1. mMediaProjection' = mSurface'
    OBVIOUS
  <2>2. ~canWrite' => ~canWrite /\ \A s \in SettingNames : system'[s] = system[s]
    BY DEF ServiceIInv, TypeOK
  <2>3. QED BY <2>1, <2>2 DEF OneInv, Permitted
<1>3. ASSUME NEW v \in Views, NEW w \in Views, Turns("CONNECTED", v, w), Seen(v)
      PROVE  Seen(w)' /\ NothingLeaked'
  <2>1. Hidden /\ w = "shown"
    BY <1>3 DEF Turns, Seen
  <2>2. ASSUME NEW s \in SettingNames
        PROVE  IF mWanted'[s] THEN mSaved'[s] = "user" ELSE system'[s] = "user"
    BY <2>1 DEF Hidden
  <2>3. Shown'
    BY <2>2 DEF Shown
  <2>4. NothingLeaked'
    BY <2>1 DEF Hidden, OneInv, NothingLeaked
  <2>5. QED BY <2>1, <2>3, <2>4 DEF Seen
<1> HIDE DEF handleConnected
<1>4. QED BY <1>1, <1>2, <1>3, HandledOne

\* The process dies before the settings are changed.
LEMMA crashConnectedOne ==
  ASSUME ServiceIInv, OneInv, crashConnected
  PROVE  OneInv'
<1> USE DEF crashConnected, Handles
<1>1. queue # <<>> /\ Head(queue) = "CONNECTED"
  OBVIOUS
<1>2. PICK v \in Views, w \in Views : Turns("CONNECTED", v, w) /\ Seen(v)
  BY <1>1, FirstSeen
<1>3. Hidden
  BY <1>2 DEF Turns, Seen
<1>4. Hidden' /\ Permitted' /\ NothingLeaked' /\ mMediaProjection' = mSurface'
  BY <1>3 DEF Hidden, Permitted, NothingLeaked
<1>5. queue' = <<>> /\ connected' = {} /\ Len(queue') = 0
  OBVIOUS
<1> HIDE DEF crashConnected
<1>6. PICK pic \in [0..Len(queue') -> Views] : pic[0] = "hidden"
  <2>1. [k \in 0..Len(queue') |-> "hidden"] \in [0..Len(queue') -> Views]
    BY DEF Views
  <2>2. [k \in 0..Len(queue') |-> "hidden"][0] = "hidden"
    BY <1>5
  <2>3. QED BY <2>1, <2>2
<1>7. Line(pic)'
  BY <1>5, <1>6 DEF Line, At, ViewOf
<1>8. Seen(pic[0])'
  BY <1>4, <1>6 DEF Seen
<1>9. QED BY <1>4, <1>7, <1>8 DEF OneInv

\* What was saved is put back.
LEMMA handleDisconnectedOne ==
  ASSUME ServiceIInv, OneInv, handleDisconnected
  PROVE  OneInv'
<1> USE DEF handleDisconnected, Handles, stopProjection, set, androidVars, optionVars,
            serverVars
<1>1. /\ queue # <<>> /\ Head(queue) = "DISCONNECTED" /\ queue' = Tail(queue)
      /\ connected' = connected
  OBVIOUS
<1>2. mMediaProjection' = mSurface' /\ Permitted'
  <2>1. mMediaProjection' = mSurface'
    OBVIOUS
  <2>2. ~canWrite' => ~canWrite /\ \A s \in SettingNames : system'[s] = system[s]
    BY DEF ServiceIInv, TypeOK
  <2>3. QED BY <2>1, <2>2 DEF OneInv, Permitted
<1>3. ASSUME NEW v \in Views, NEW w \in Views, Turns("DISCONNECTED", v, w), Seen(v)
      PROVE  Seen(w)' /\ NothingLeaked'
  <2>1. Shown /\ w = "hidden"
    BY <1>3 DEF Turns, Seen
  <2>2. ASSUME NEW s \in SettingNames PROVE system'[s] = "user"
    <3>1. system'[s] = IF mWanted[s] /\ canWrite THEN mSaved[s] ELSE system[s]
      OBVIOUS
    <3>2. QED BY <2>1, <3>1 DEF Shown, OneInv, Permitted
  <2>3. Hidden'
    BY <2>2 DEF Hidden
  <2>4. NothingLeaked'
    BY DEF OneInv, NothingLeaked
  <2>5. QED BY <2>1, <2>3, <2>4 DEF Seen
<1> HIDE DEF handleDisconnected
<1>4. QED BY <1>1, <1>2, <1>3, HandledOne

\* onDestroy ends the projection; the settings are left to the events that are
\* still to come.
LEMMA onDestroyOne ==
  ASSUME ServiceIInv, OneInv, onDestroy
  PROVE  OneInv'
<1> USE DEF onDestroy, Handles, stopProjection, androidVars, optionVars, settingVars,
            serverVars
<1>1. queue # <<>> /\ Head(queue) = "DESTROY" /\ queue' = Tail(queue) /\ connected' = connected
  OBVIOUS
<1>2. mMediaProjection' = mSurface' /\ Permitted' /\ NothingLeaked'
  BY DEF OneInv, Permitted, NothingLeaked
<1>3. ASSUME NEW v \in Views, NEW w \in Views, Turns("DESTROY", v, w), Seen(v)
      PROVE  Seen(w)'
  BY <1>3 DEF Turns, Seen, Shown, Hidden
<1> HIDE DEF onDestroy
<1>4. QED BY <1>1, <1>2, <1>3, HandledOne

\* The message a queue is extended with is its last one.
LEMMA LastOfOne ==
  ASSUME NEW S, NEW q \in Seq(S), NEW r \in Seq(S), Len(r) = 1
  PROVE  (q \o r)[Len(q) + 1] = r[1]
<1> DEFINE k == Len(q) + 1
<1>1. k \in Nat /\ k - Len(q) = 1 /\ k > Len(q) /\ k <= Len(q) + Len(r)
  OBVIOUS
<1> HIDE DEF k
<1>2. (q \o r)[k] = r[k - Len(q)]
  BY <1>1
<1>3. QED BY <1>1, <1>2 DEF k

\* At most one farewell is sent.
LEMMA stopServerOne ==
  ASSUME OneViewer, ServiceIInv, OneInv, stopServer
  PROVE  OneInv'
<1> USE DEF stopServer, androidVars, optionVars, projectionVars, settingVars
<1>1. mMediaProjection' = mSurface' /\ NothingLeaked' /\ Permitted'
  BY DEF OneInv, NothingLeaked, Permitted
<1>2. \A v \in Views : Seen(v) => Seen(v)'
  BY DEF Seen, Shown, Hidden
<1>3. mListener /\ connected \subseteq Clients /\ queue \in Seq(Messages) /\ Len(queue) \in Nat
  BY DEF ServiceIInv, Joining, Bound, TypeOK
<1>4. connected' = {} /\ ViewOf(connected)' = "hidden"
  BY DEF ViewOf
<1> DEFINE n == Cardinality(connected)
           byes == [k \in 1..n |-> "DISCONNECTED"]
<1>5. queue' = queue \o byes
  BY <1>3
<1>6. IF connected = {} THEN n = 0 ELSE n = 1
  <2>1. CASE connected = {}
    BY <2>1, FS_EmptySet
  <2>2. CASE connected # {}
    <3>1. PICK c : connected = {c}
      BY <1>3, <2>2 DEF OneViewer
    <3>2. QED BY <2>2, <3>1, FS_Singleton
  <2>3. QED BY <2>1, <2>2
<1> HIDE DEF stopServer, n
<1>7. /\ byes \in Seq(Messages) /\ Len(byes) = n
      /\ \A k \in 1..n : byes[k] = "DISCONNECTED"
  BY <1>6 DEF Messages
<1> HIDE DEF byes
<1>8. /\ queue \o byes \in Seq(Messages)
      /\ Len(queue \o byes) = Len(queue) + n
      /\ \A k \in At : (queue \o byes)[k] = queue[k]
      /\ n = 1 => (queue \o byes)[Len(queue) + 1] = "DISCONNECTED"
  <2>1. n \in Nat
    BY <1>6
  <2>2. queue \o byes \in Seq(Messages) /\ Len(queue \o byes) = Len(queue) + n
    BY <1>3, <1>7
  <2>3. \A k \in At : (queue \o byes)[k] = queue[k]
    BY <1>3, <1>7, <2>1 DEF At
  <2>4. n = 1 => (queue \o byes)[Len(queue) + 1] = "DISCONNECTED"
    <3>1. SUFFICES ASSUME n = 1 PROVE (queue \o byes)[Len(queue) + 1] = "DISCONNECTED"
      OBVIOUS
    <3>2. (queue \o byes)[Len(queue) + 1] = byes[1]
      <4>1. queue \in Seq(Messages) /\ byes \in Seq(Messages) /\ Len(byes) = 1
        BY <1>3, <1>7, <3>1
      <4>2. QED BY <4>1, LastOfOne
    <3>3. QED BY <1>7, <3>1, <3>2
  <2>5. QED BY <2>2, <2>3, <2>4
<1>9. CASE connected = {}
  <2>1. n = 0 /\ ViewOf(connected) = "hidden"
    BY <1>6, <1>9 DEF ViewOf
  <2>2. Len(queue') = Len(queue)
    BY <1>3, <1>5, <1>8, <2>1
  <2>3. \A k \in At' : ~(k > Len(queue))
    BY <1>3, <2>2 DEF At
  <2>4. Len(queue') >= Len(queue)
    BY <1>3, <2>2
  <2>5. QED BY <1>1, <1>2, <1>4, <1>5, <1>8, <2>1, <2>3, <2>4, ExtendedOne
<1>10. CASE connected # {}
  <2>1. n = 1 /\ ViewOf(connected) = "shown"
    BY <1>6, <1>10 DEF ViewOf
  <2>2. Len(queue') = Len(queue) + 1 /\ queue'[Len(queue) + 1] = "DISCONNECTED"
    BY <1>3, <1>5, <1>8, <2>1
  <2>3. \A k \in At' : k > Len(queue) => k = Len(queue) + 1
    BY <1>3, <2>2 DEF At
  <2>4. Len(queue') >= Len(queue) /\ Len(queue') # Len(queue)
    BY <1>3, <2>2
  <2>5. Turns("DISCONNECTED", "shown", "hidden")
    BY DEF Turns
  <2>6. \A k \in At' : k > Len(queue) =>
          Turns(queue'[k],
                IF k = Len(queue) + 1 THEN ViewOf(connected) ELSE ViewOf(connected)',
                ViewOf(connected)')
    BY <1>4, <2>1, <2>2, <2>3, <2>5
  <2>7. QED BY <1>1, <1>2, <1>5, <1>8, <2>4, <2>6, ExtendedOne
<1>11. QED BY <1>9, <1>10

\* Nobody is connected and nothing is queued at first.
LEMMA InitOne == Init => OneInv
<1> SUFFICES ASSUME Init PROVE OneInv
  OBVIOUS
<1>1. Len(queue) = 0 /\ Hidden /\ Permitted /\ NothingLeaked /\ mMediaProjection = mSurface
  BY DEF Init, Hidden, Permitted, NothingLeaked
<1>2. [k \in 0..Len(queue) |-> "hidden"] \in [0..Len(queue) -> Views]
  BY DEF Views
<1>3. PICK pic \in [0..Len(queue) -> Views] : pic[0] = "hidden"
  <2>1. [k \in 0..Len(queue) |-> "hidden"][0] = "hidden"
    BY <1>1
  <2>2. QED BY <1>2, <2>1
<1>4. Line(pic) /\ Seen(pic[0])
  BY <1>1, <1>3 DEF Line, At, ViewOf, Seen, Init
<1>5. QED BY <1>1, <1>4 DEF OneInv

\* With one viewer at a time no step leaves the second inductive invariant.
LEMMA NextOne ==
  ASSUME OneViewer, ServiceIInv, OneInv, [Next]_vars
  PROVE  OneInv'
<1>1. CASE RequestBind
  BY <1>1, RequestBindOne
<1>2. CASE RequestStop
  BY <1>2, RequestStopOne
<1>3. CASE GrantWrite \/ Relaunch \/ WorkerExits \/ UNCHANGED vars
  BY <1>3, StillOne
<1>4. CASE \E c \in Clients : clientHook(c) \/ clientGone(c)
  BY <1>4, HookOne
<1>5. CASE onCreate
  BY <1>5, onCreateOne
<1>6. CASE \E wanted \in [SettingNames -> BOOLEAN], allocated \in BOOLEAN :
             onBind(wanted, allocated)
  BY <1>6, onBindOne
<1>7. CASE handleConnected
  BY <1>7, handleConnectedOne
<1>8. CASE crashConnected
  BY <1>8, crashConnectedOne
<1>9. CASE handleDisconnected
  BY <1>9, handleDisconnectedOne
<1>10. CASE onDestroy
  BY <1>10, onDestroyOne
<1>11. CASE stopServer
  BY <1>11, stopServerOne
<1>12. QED BY <1>1, <1>2, <1>3, <1>4, <1>5, <1>6, <1>7, <1>8, <1>9, <1>10, <1>11
           DEF Next, Main, Worker, Android

\* With clients that come one after the other, the queue always alternates
\* between connects and disconnects, and tells what the service shows.
THEOREM OneViewerInvariance == ASSUME OneViewer PROVE Spec => []OneInv
<1>1. ServiceIInv /\ OneInv /\ [Next]_vars => OneInv'
  BY OneViewer, NextOne
<1>2. QED BY <1>1, InitOne, Invariance, PTL DEF Spec

\* An empty queue: what is seen is what the clients there are make of it.
LEMMA CaughtUp ==
  ASSUME ServiceIInv, OneInv, queue = <<>>
  PROVE  Seen(ViewOf(connected))
<1>1. PICK pic \in [0..Len(queue) -> Views] : Line(pic) /\ Seen(pic[0])
  BY DEF OneInv
<1>2. Len(queue) = 0
  OBVIOUS
<1>3. QED BY <1>1, <1>2 DEF Line

\* With clients that come one after the other, the screen is projected exactly
\* while one is there, once the main looper has caught up with the events.
THEOREM ProjectsWhileConnected == ASSUME OneViewer PROVE Spec => []ProjectingWhileConnected
<1>1. ServiceIInv /\ OneInv => ProjectingWhileConnected
  <2> SUFFICES ASSUME ServiceIInv, OneInv, queue = <<>>, mpc = "idle"
               PROVE  mSurface <=> connected # {}
    BY DEF ProjectingWhileConnected
  <2>1. CASE connected = {}
    BY <2>1, CaughtUp DEF Seen, ViewOf, Hidden
  <2>2. CASE connected # {}
    <3>1. mListener
      BY <2>2 DEF ServiceIInv, ServiceServing, Bound
    <3>2. QED BY <2>2, <3>1, CaughtUp DEF Seen, ViewOf, Shown
  <2>3. QED BY <2>1, <2>2
<1>2. QED BY <1>1, Invariance, OneViewerInvariance, PTL

\* With clients that come one after the other, the brightness and the
\* orientation are the user's again once the last one is gone, whether it left,
\* the service was destroyed under it or the process died.
THEOREM SettingsAreRestored == ASSUME OneViewer PROVE Spec => []SettingsRestored
<1>1. ServiceIInv /\ OneInv => SettingsRestored
  <2> SUFFICES ASSUME ServiceIInv, OneInv, queue = <<>>, connected = {}
               PROVE  \A s \in SettingNames : system[s] = "user"
    BY DEF SettingsRestored
  <2>1. Hidden
    BY CaughtUp DEF Seen, ViewOf
  <2>2. QED BY <2>1 DEF Hidden
<1>2. QED BY <1>1, Invariance, OneViewerInvariance, PTL

\* With clients that come one after the other, every MediaProjection obtained
\* is stopped, except the current one.
THEOREM NothingIsLeaked == ASSUME OneViewer PROVE Spec => []NothingLeaked
<1>1. OneInv => NothingLeaked
  BY DEF OneInv
<1>2. QED BY <1>1, OneViewerInvariance, PTL

-----------------------------------------------------------------------------
(***************************************************************************)
(* Part 2: the activity and the service                                    *)
(*                                                                         *)
(* What ServiceMessages selects                                            *)
(***************************************************************************)

\* Induction over the natural numbers, for a set instead of a predicate.
LEMMA Induction ==
  ASSUME NEW S, 0 \in S, \A n \in Nat : n \in S => n + 1 \in S
  PROVE  Nat \subseteq S
<1> DEFINE Bad == {n \in Nat : n \notin S}
<1> SUFFICES ASSUME Bad # {} PROVE FALSE
  OBVIOUS
<1>1. PICK m \in Bad : \A n \in Bad : ~(<<n, m>> \in OpToRel(<, Nat))
  <2>1. Bad \subseteq Nat
    OBVIOUS
  <2> HIDE DEF Bad
  <2>2. QED BY <2>1, NatLessThanWellFounded, WFMin
<1>2. m - 1 \in Nat /\ m - 1 < m /\ (m - 1) + 1 = m /\ m \notin S /\ m \in Nat
  OBVIOUS
<1>3. <<m - 1, m>> \in OpToRel(<, Nat)
  BY <1>2, Zenon DEF OpToRel
<1>4. m - 1 \notin Bad
  BY <1>1, <1>3, Zenon
<1>5. m - 1 \in S
  BY <1>2, <1>4
<1>6. QED BY ONLY <1>2, <1>5, \A n \in Nat : n \in S => n + 1 \in S

\* The looper's queues, and one step of ServiceMessages.
Queues == Seq(Messages \cup ActivityMessages)
Own(m) == IF m \in Messages THEN <<m>> ELSE <<>>
Step(f, q) == IF q = <<>> THEN <<>> ELSE Own(Head(q)) \o f[Tail(q)]

\* The queues of at most n messages, and a function that is right about them.
UpTo(n) == {q \in Queues : Len(q) <= n}
Right(n, f) == f \in [UpTo(n) -> Seq(Messages)] /\ \A q \in UpTo(n) : f[q] = Step(f, q)

\* A queue that is not empty is its first message and a shorter queue.
LEMMA Short ==
  ASSUME NEW n \in Nat
  PROVE  /\ \A q \in UpTo(n + 1) : q # <<>> => Tail(q) \in UpTo(n) /\ Own(Head(q)) \in Seq(Messages)
         /\ UpTo(n) \subseteq UpTo(n + 1)
         /\ \A q \in UpTo(0) : q = <<>>
<1>1. ASSUME NEW q \in UpTo(n + 1), q # <<>>
      PROVE  Tail(q) \in UpTo(n) /\ Own(Head(q)) \in Seq(Messages)
  <2>1. q \in Queues /\ Len(q) <= n + 1 /\ Len(q) \in Nat
    BY DEF UpTo, Queues
  <2>2. Tail(q) \in Queues /\ Len(Tail(q)) = Len(q) - 1
    BY <1>1, <2>1 DEF Queues
  <2>3. Own(Head(q)) \in Seq(Messages)
    BY DEF Own
  <2>4. QED BY <2>1, <2>2, <2>3 DEF UpTo
<1>2. UpTo(n) \subseteq UpTo(n + 1)
  BY DEF UpTo, Queues
<1>3. \A q \in UpTo(0) : q = <<>>
  BY DEF UpTo, Queues
<1>4. QED BY <1>1, <1>2, <1>3

\* There is such a function for every n.
LEMMA SomeRight == \A n \in Nat : \E f : Right(n, f)
<1> DEFINE S == {n \in Nat : \E f : Right(n, f)}
<1>1. 0 \in S
  <2>1. [q \in UpTo(0) |-> <<>>] \in [UpTo(0) -> Seq(Messages)]
    OBVIOUS
  <2>2. \A q \in UpTo(0) : q = <<>>
    BY Short
  <2>3. Right(0, [q \in UpTo(0) |-> <<>>])
    BY <2>1, <2>2 DEF Right, Step
  <2>4. QED BY <2>3
<1>2. ASSUME NEW n \in Nat, n \in S PROVE n + 1 \in S
  <2>1. PICK f : Right(n, f)
    BY <1>2
  <2>2. \A q \in UpTo(n + 1) : q # <<>> => Tail(q) \in UpTo(n) /\ Own(Head(q)) \in Seq(Messages)
    BY Short
  <2>3. ASSUME NEW q \in UpTo(n + 1) PROVE Step(f, q) \in Seq(Messages)
    BY <2>1, <2>2 DEF Right, Step
  <2>4. PICK g \in [UpTo(n + 1) -> Seq(Messages)] : \A q \in UpTo(n + 1) : g[q] = Step(f, q)
    <3>1. [q \in UpTo(n + 1) |-> Step(f, q)] \in [UpTo(n + 1) -> Seq(Messages)]
      BY <2>3
    <3>2. QED BY <3>1
  <2>5. ASSUME NEW q \in UpTo(n + 1) PROVE g[q] = Step(g, q)
    <3>1. q # <<>> => g[Tail(q)] = f[Tail(q)]
      <4>1. SUFFICES ASSUME q # <<>> PROVE g[Tail(q)] = f[Tail(q)]
        OBVIOUS
      <4>2. Tail(q) \in UpTo(n) /\ Tail(q) \in UpTo(n + 1)
        BY <2>2, <4>1, Short
      <4>3. QED BY <2>1, <2>4, <4>2 DEF Right
    <3>2. QED BY <2>4, <3>1 DEF Step
  <2>6. Right(n + 1, g)
    BY <2>4, <2>5 DEF Right
  <2>7. QED BY <2>6
<1>3. QED
  <2> HIDE DEF S
  <2>1. Nat \subseteq S
    BY <1>1, <1>2, Induction
  <2>2. QED BY <2>1 DEF S

\* Two of them agree where both are right.
LEMMA RightAgree ==
  ASSUME NEW m \in Nat, NEW k \in Nat, NEW f, NEW g, Right(m, f), Right(k, g)
  PROVE  \A q \in Queues : Len(q) <= m /\ Len(q) <= k => f[q] = g[q]
<1> DEFINE S == {n \in Nat : n <= m /\ n <= k => \A q \in UpTo(n) : f[q] = g[q]}
<1>1. 0 \in S
  <2>1. \A q \in UpTo(0) : q = <<>>
    BY Short
  <2>2. <<>> \in UpTo(m) /\ <<>> \in UpTo(k)
    BY DEF UpTo, Queues
  <2>3. f[<<>>] = <<>> /\ g[<<>>] = <<>>
    BY <2>2 DEF Right, Step
  <2>4. QED BY <2>1, <2>3
<1>2. ASSUME NEW n \in Nat, n \in S PROVE n + 1 \in S
  <2> SUFFICES ASSUME n + 1 <= m, n + 1 <= k, NEW q \in UpTo(n + 1) PROVE f[q] = g[q]
    OBVIOUS
  <2>1. q \in UpTo(m) /\ q \in UpTo(k)
    BY DEF UpTo, Queues
  <2>2. f[q] = Step(f, q) /\ g[q] = Step(g, q)
    BY <2>1 DEF Right
  <2>3. ASSUME q # <<>> PROVE f[Tail(q)] = g[Tail(q)]
    BY <1>2, <2>3, Short
  <2>4. QED BY <2>2, <2>3 DEF Step
<1>3. QED
  <2>1. S \subseteq Nat
    OBVIOUS
  <2> SUFFICES ASSUME NEW q \in Queues, Len(q) <= m, Len(q) <= k PROVE f[q] = g[q]
    OBVIOUS
  <2>2. Len(q) \in Nat /\ q \in UpTo(Len(q))
    BY DEF UpTo, Queues
  <2>3. Len(q) \in S
    <3> HIDE DEF S
    <3>1. QED BY <1>1, <1>2, <2>2, Induction
  <2>4. QED BY <2>2, <2>3

\* The equation that defines ServiceMessages.
LEMMA Selected ==
  /\ ServiceMessages \in [Queues -> Seq(Messages)]
  /\ \A q \in Queues : ServiceMessages[q] = Step(ServiceMessages, q)
<1>1. ASSUME NEW n \in Nat PROVE Right(n, CHOOSE f : Right(n, f))
  BY SomeRight
<1> DEFINE G(n) == CHOOSE f : Right(n, f)
<1>2. \A n \in Nat : Right(n, G(n))
  BY <1>1
<1> HIDE DEF G
<1>3. \A q \in Queues : Len(q) \in Nat /\ q \in UpTo(Len(q))
  BY DEF UpTo, Queues
<1>4. PICK h : h = [q \in Queues |-> G(Len(q))[q]]
  OBVIOUS
<1>5. h \in [Queues -> Seq(Messages)]
  BY <1>2, <1>3, <1>4 DEF Right
<1>6. ASSUME NEW q \in Queues PROVE h[q] = Step(h, q)
  <2>1. h[q] = Step(G(Len(q)), q)
    BY <1>2, <1>3, <1>4 DEF Right
  <2>2. ASSUME q # <<>> PROVE h[Tail(q)] = G(Len(q))[Tail(q)]
    <3>1. Tail(q) \in Queues /\ Len(Tail(q)) \in Nat /\ Len(q) \in Nat /\ Len(Tail(q)) <= Len(q)
      BY <2>2 DEF Queues
    <3>2. h[Tail(q)] = G(Len(Tail(q)))[Tail(q)]
      BY <1>4, <3>1
    <3>3. Len(Tail(q)) <= Len(Tail(q))
      BY <3>1
    <3>4. PICK m \in Nat, k \in Nat : m = Len(Tail(q)) /\ k = Len(q)
      BY <3>1
    <3>5. PICK f, g : /\ f = G(Len(Tail(q))) /\ g = G(Len(q))
                      /\ Right(m, f) /\ Right(k, g)
      BY <1>2, <3>1, <3>4
    <3>6. f[Tail(q)] = g[Tail(q)]
      <4>1. \A r \in Queues : Len(r) <= m /\ Len(r) <= k => f[r] = g[r]
        BY <3>5, RightAgree
      <4>2. QED BY <3>1, <3>3, <3>4, <4>1
    <3>7. QED BY <3>2, <3>4, <3>5, <3>6
  <2>3. QED BY <2>1, <2>2 DEF Step
<1>7. h = [q \in Queues |-> Step(h, q)]
  BY <1>5, <1>6
<1>8. ServiceMessages = [q \in Queues |-> Step(ServiceMessages, q)]
  BY <1>7 DEF ServiceMessages, Step, Own, Queues
<1>9. \A q \in Queues : ServiceMessages[q] = Step(ServiceMessages, q)
  BY <1>8
<1>10. \A q \in Queues : ServiceMessages[q] \in Seq(Messages)
  <2> DEFINE S == {n \in Nat : \A q \in UpTo(n) : ServiceMessages[q] \in Seq(Messages)}
  <2>1. 0 \in S
    <3>1. \A q \in UpTo(0) : q \in Queues /\ q = <<>>
      BY Short DEF UpTo
    <3>2. \A q \in UpTo(0) : ServiceMessages[q] = <<>>
      BY <1>9, <3>1 DEF Step
    <3>3. <<>> \in Seq(Messages)
      OBVIOUS
    <3>4. QED BY <3>2, <3>3
  <2>2. ASSUME NEW n \in Nat, n \in S PROVE n + 1 \in S
    <3> SUFFICES ASSUME NEW q \in UpTo(n + 1) PROVE ServiceMessages[q] \in Seq(Messages)
      OBVIOUS
    <3>1. q \in Queues
      BY DEF UpTo
    <3>2. ASSUME q # <<>>
          PROVE  ServiceMessages[Tail(q)] \in Seq(Messages) /\ Own(Head(q)) \in Seq(Messages)
      BY <2>2, <3>2, Short
    <3>3. ServiceMessages[q] = Step(ServiceMessages, q)
      BY <1>9, <3>1
    <3>4. QED BY <3>2, <3>3 DEF Step
  <2>3. Nat \subseteq S
    <3> HIDE DEF S
    <3>1. QED BY <2>1, <2>2, Induction
  <2>4. QED BY <1>3, <2>3
<1>11. QED BY <1>8, <1>9, <1>10

\* It goes along with the queue, from the front ...
LEMMA SelectedHead ==
  ASSUME NEW q \in Queues
  PROVE  /\ ServiceMessages[<<>>] = <<>> /\ ServiceMessages[q] \in Seq(Messages)
         /\ q # <<>> /\ Head(q) \in Messages =>
              /\ ServiceMessages[q] = <<Head(q)>> \o ServiceMessages[Tail(q)]
              /\ ServiceMessages[q] # <<>> /\ Head(ServiceMessages[q]) = Head(q)
              /\ Tail(ServiceMessages[q]) = ServiceMessages[Tail(q)]
         /\ q # <<>> /\ Head(q) \notin Messages => ServiceMessages[q] = ServiceMessages[Tail(q)]
<1>1. ServiceMessages[q] \in Seq(Messages) /\ ServiceMessages[q] = Step(ServiceMessages, q)
  BY Selected
<1>2. ServiceMessages[<<>>] = <<>>
  <2>1. <<>> \in Queues
    BY DEF Queues
  <2>2. QED BY <2>1, Selected DEF Step
<1>3. ASSUME q # <<>> PROVE Tail(q) \in Queues /\ ServiceMessages[Tail(q)] \in Seq(Messages)
  <2>1. Tail(q) \in Queues
    BY <1>3 DEF Queues
  <2>2. QED BY <2>1, Selected
<1>4. \A m \in Messages : \A s \in Seq(Messages) :
        <<m>> \o s # <<>> /\ Head(<<m>> \o s) = m /\ Tail(<<m>> \o s) = s
  OBVIOUS
<1>5. \A s \in Seq(Messages) : <<>> \o s = s
  OBVIOUS
<1>6. ASSUME q # <<>>, Head(q) \in Messages
      PROVE  /\ ServiceMessages[q] = <<Head(q)>> \o ServiceMessages[Tail(q)]
             /\ ServiceMessages[q] # <<>> /\ Head(ServiceMessages[q]) = Head(q)
             /\ Tail(ServiceMessages[q]) = ServiceMessages[Tail(q)]
  <2>1. ServiceMessages[q] = <<Head(q)>> \o ServiceMessages[Tail(q)]
    BY <1>1, <1>6 DEF Step, Own
  <2>2. QED BY <1>3, <1>4, <1>6, <2>1
<1>7. ASSUME q # <<>>, Head(q) \notin Messages PROVE ServiceMessages[q] = ServiceMessages[Tail(q)]
  BY <1>1, <1>3, <1>5, <1>7 DEF Step, Own
<1>8. QED BY <1>1, <1>2, <1>6, <1>7

\* The same, as it is needed below.
LEMMA Nonempty ==
  ASSUME NEW n \in Nat, NEW q \in UpTo(n + 1), q # <<>>
  PROVE  Tail(q) \in UpTo(n) /\ q \in Queues /\ Tail(q) \in Queues
BY Short DEF UpTo

\* ... and splits where it does.
LEMMA SelectedJoin ==
  ASSUME NEW r \in Queues
  PROVE  \A q \in Queues : ServiceMessages[q \o r] = ServiceMessages[q] \o ServiceMessages[r]
<1> DEFINE J(q) == ServiceMessages[q \o r] = ServiceMessages[q] \o ServiceMessages[r]
           S == {n \in Nat : \A q \in UpTo(n) : J(q)}
<1>1. ServiceMessages[r] \in Seq(Messages) /\ ServiceMessages[<<>>] = <<>>
  BY SelectedHead
<1>2. 0 \in S
  <2>1. <<>> \o r = r /\ <<>> \o ServiceMessages[r] = ServiceMessages[r]
    BY <1>1 DEF Queues
  <2>2. \A q \in UpTo(0) : q = <<>>
    BY Short
  <2>3. QED BY <1>1, <2>1, <2>2
<1>3. ASSUME NEW n \in Nat, n \in S PROVE n + 1 \in S
  <2> HIDE DEF J
  <2> SUFFICES ASSUME NEW q \in UpTo(n + 1) PROVE J(q)
    OBVIOUS
  <2> USE DEF J
  <2>1. CASE q = <<>>
    <3>1. <<>> \o r = r /\ <<>> \o ServiceMessages[r] = ServiceMessages[r]
      BY <1>1 DEF Queues
    <3>2. QED BY <1>1, <2>1, <3>1
  <2>2. CASE q # <<>>
    <3>1. Tail(q) \in UpTo(n) /\ q \in Queues /\ Tail(q) \in Queues
      BY <2>2, Nonempty
    <3>2. ServiceMessages[Tail(q) \o r] = ServiceMessages[Tail(q)] \o ServiceMessages[r]
      BY <1>3, <3>1
    <3>3. q \o r \in Queues /\ q \o r # <<>> /\ Head(q \o r) = Head(q) /\ Tail(q \o r) = Tail(q) \o r
      BY <2>2, <3>1 DEF Queues
    <3>4. ServiceMessages[Tail(q)] \in Seq(Messages)
      BY <3>1, SelectedHead
    <3>5. CASE Head(q) \in Messages
      <4>1. ServiceMessages[q \o r] = <<Head(q)>> \o ServiceMessages[Tail(q) \o r]
        BY <3>3, <3>5, SelectedHead
      <4>2. ServiceMessages[q] = <<Head(q)>> \o ServiceMessages[Tail(q)]
        BY <2>2, <3>1, <3>5, SelectedHead
      <4>3. \A m \in Messages : \A s, t \in Seq(Messages) : <<m>> \o (s \o t) = (<<m>> \o s) \o t
        OBVIOUS
      <4>4. QED BY <1>1, <3>2, <3>4, <3>5, <4>1, <4>2, <4>3
    <3>6. CASE Head(q) \notin Messages
      BY <2>2, <3>1, <3>2, <3>3, <3>6, SelectedHead
    <3>7. QED BY <3>5, <3>6
  <2>3. QED BY <2>1, <2>2
<1>4. \A q \in Queues : Len(q) \in Nat /\ q \in UpTo(Len(q))
  BY DEF UpTo, Queues
<1>5. Nat \subseteq S
  <2> HIDE DEF S
  <2>1. QED BY <1>2, <1>3, Induction
<1>6. QED BY <1>4, <1>5

\* Messages for the service are all selected.
LEMMA SelectedAll == \A s \in Seq(Messages) : s \in Queues /\ ServiceMessages[s] = s
<1> DEFINE S == {n \in Nat : \A s \in Seq(Messages) : Len(s) <= n => ServiceMessages[s] = s}
<1>1. \A s \in Seq(Messages) : s \in Queues
  BY DEF Queues
<1>2. 0 \in S
  <2>1. \A s \in Seq(Messages) : Len(s) <= 0 => s = <<>>
    OBVIOUS
  <2>2. <<>> \in Queues
    BY DEF Queues
  <2>3. ServiceMessages[<<>>] = <<>>
    BY <2>2, SelectedHead
  <2>4. QED BY <2>1, <2>3
<1>3. ASSUME NEW n \in Nat, n \in S PROVE n + 1 \in S
  <2> SUFFICES ASSUME NEW s \in Seq(Messages), Len(s) <= n + 1, s # <<>>
               PROVE  ServiceMessages[s] = s
    BY <1>2
  <2>1. Tail(s) \in Seq(Messages) /\ Len(Tail(s)) <= n /\ Head(s) \in Messages
    OBVIOUS
  <2>2. s = <<Head(s)>> \o Tail(s)
    OBVIOUS
  <2>3. ServiceMessages[s] = <<Head(s)>> \o ServiceMessages[Tail(s)]
    BY <1>1, <2>1, SelectedHead
  <2>4. QED BY <1>3, <2>1, <2>2, <2>3
<1>4. Nat \subseteq S
  <2> HIDE DEF S
  <2>1. QED BY <1>2, <1>3, Induction
<1>5. \A s \in Seq(Messages) : Len(s) \in Nat /\ Len(s) <= Len(s)
  OBVIOUS
<1>6. QED BY <1>1, <1>4, <1>5

\* What is put at the end of the queue.
LEMMA SelectedLast ==
  ASSUME NEW q \in Queues, NEW m \in Messages \cup ActivityMessages
  PROVE  ServiceMessages[Append(q, m)] =
           IF m \in Messages THEN Append(ServiceMessages[q], m) ELSE ServiceMessages[q]
<1>1. Append(q, m) = q \o <<m>> /\ <<m>> \in Queues /\ <<>> \in Queues
  BY DEF Queues
<1>2. Head(<<m>>) = m /\ Tail(<<m>>) = <<>> /\ <<m>> # <<>>
  OBVIOUS
<1>3. ServiceMessages[q] \in Seq(Messages) /\ ServiceMessages[<<>>] = <<>>
  BY SelectedHead
<1>4. ServiceMessages[Append(q, m)] = ServiceMessages[q] \o ServiceMessages[<<m>>]
  BY <1>1, SelectedJoin
<1>5. \A s \in Seq(Messages) : s \o <<>> = s
  OBVIOUS
<1>6. CASE m \in Messages
  <2>1. <<m>> \in Seq(Messages)
    BY <1>6
  <2>2. ServiceMessages[<<m>>] = <<m>>
    BY <2>1, SelectedAll
  <2>3. \A s \in Seq(Messages) : s \o <<m>> = Append(s, m)
    BY <1>6
  <2>4. QED BY <1>3, <1>4, <1>6, <2>2, <2>3
<1>7. CASE m \notin Messages
  <2>1. ServiceMessages[<<m>>] = <<>>
    BY <1>1, <1>2, <1>3, <1>7, SelectedHead
  <2>2. QED BY <1>3, <1>4, <1>5, <1>7, <2>1
<1>8. QED BY <1>6, <1>7

\* It keeps the order of the messages, and leaves out none for the service: g
\* tells where they were.
Places(q, g) ==
  LET s == ServiceMessages[q] IN
  /\ g \in [1..Len(s) -> 1..Len(q)]
  /\ \A k \in 1..Len(s) : s[k] = q[g[k]]
  /\ \A j, k \in 1..Len(s) : j < k => g[j] < g[k]
  /\ \A i \in 1..Len(q) : q[i] \in Messages => \E k \in 1..Len(s) : g[k] = i

\* There are such places for every queue.
LEMMA HavePlaces == \A q \in Queues : \E g : Places(q, g)
<1> DEFINE S == {n \in Nat : \A q \in UpTo(n) : \E g : Places(q, g)}
<1>1. Places(<<>>, <<>>)
  <2>1. ServiceMessages[<<>>] = <<>>
    <3>1. <<>> \in Queues
      BY DEF Queues
    <3>2. QED BY <3>1, SelectedHead
  <2>2. QED BY <2>1 DEF Places
<1>2. 0 \in S
  BY <1>1, Short
<1>3. ASSUME NEW n \in Nat, n \in S PROVE n + 1 \in S
  <2> SUFFICES ASSUME NEW q \in UpTo(n + 1), q # <<>> PROVE \E g : Places(q, g)
    BY <1>1
  <2>1. Tail(q) \in UpTo(n) /\ q \in Queues /\ Tail(q) \in Queues
    BY Nonempty
  <2>2. PICK f : Places(Tail(q), f)
    BY <1>3, <2>1
  <2>3. /\ Len(q) \in Nat /\ Len(Tail(q)) \in Nat /\ Len(q) = Len(Tail(q)) + 1
        /\ Head(q) = q[1] /\ \A k \in 1..Len(Tail(q)) : Tail(q)[k] = q[k + 1]
    BY <2>1 DEF Queues
  <2>4. PICK s \in Seq(Messages), t \in Seq(Messages) :
          s = ServiceMessages[q] /\ t = ServiceMessages[Tail(q)]
    BY <2>1, SelectedHead
  <2>5. /\ f \in [1..Len(t) -> 1..Len(Tail(q))]
        /\ \A k \in 1..Len(t) : t[k] = Tail(q)[f[k]]
        /\ \A j, k \in 1..Len(t) : j < k => f[j] < f[k]
        /\ \A i \in 1..Len(Tail(q)) : Tail(q)[i] \in Messages => \E k \in 1..Len(t) : f[k] = i
    BY <2>2, <2>4 DEF Places
  <2>6. Len(s) \in Nat /\ Len(t) \in Nat
    OBVIOUS
  <2>7. \A k \in 1..Len(t) : f[k] \in 1..Len(Tail(q)) /\ f[k] + 1 \in 1..Len(q)
    <3>1. \A i \in 1..Len(Tail(q)) : i + 1 \in 1..Len(q)
      BY <2>3
    <3>2. \A k \in 1..Len(t) : f[k] \in 1..Len(Tail(q))
      BY <2>5, Zenon
    <3>3. QED BY <3>1, <3>2, Zenon
  <2>8. CASE Head(q) \in Messages
    <3>1. s = <<Head(q)>> \o t
      BY <2>1, <2>4, <2>8, SelectedHead
    <3>2. Len(s) = Len(t) + 1 /\ s[1] = q[1] /\ \A k \in 1..Len(t) : s[k + 1] = t[k]
      BY <2>3, <2>8, <3>1
    <3>3. PICK g \in [1..Len(s) -> 1..Len(q)] :
            g[1] = 1 /\ \A k \in 2..Len(s) : g[k] = f[k - 1] + 1
      <4> DEFINE e == [k \in 1..Len(s) |-> IF k = 1 THEN 1 ELSE f[k - 1] + 1]
      <4>1. e \in [1..Len(s) -> 1..Len(q)]
        BY <2>3, <2>6, <2>7, <3>2
      <4>2. 1 \in 1..Len(s)
        BY <2>6, <3>2
      <4>3. \A k \in 2..Len(s) : k \in 1..Len(s) /\ k # 1
        BY <2>6
      <4>4. e[1] = 1 /\ \A k \in 2..Len(s) : e[k] = f[k - 1] + 1
        BY <4>2, <4>3
      <4> HIDE DEF e
      <4>5. QED BY <4>1, <4>4
    <3>4. ASSUME NEW k \in 1..Len(s) PROVE s[k] = q[g[k]]
      <4>1. CASE k = 1
        BY <3>2, <3>3, <4>1
      <4>2. CASE k # 1
        <5>1. k - 1 \in 1..Len(t) /\ (k - 1) + 1 = k /\ k \in 2..Len(s)
          BY <2>6, <3>2, <4>2
        <5>2. s[k] = t[k - 1] /\ g[k] = f[k - 1] + 1
          BY <3>2, <3>3, <5>1
        <5>3. t[k - 1] = q[f[k - 1] + 1]
          BY <2>3, <2>5, <2>7, <5>1
        <5>4. QED BY <5>2, <5>3
      <4>3. QED BY <4>1, <4>2
    <3>5. ASSUME NEW j \in 1..Len(s), NEW k \in 1..Len(s), j < k PROVE g[j] < g[k]
      <4>1. k - 1 \in 1..Len(t) /\ k \in 2..Len(s)
        BY <2>6, <3>2, <3>5
      <4>2. g[k] = f[k - 1] + 1 /\ f[k - 1] \in Nat /\ f[k - 1] >= 1
        BY <2>6, <2>7, <3>3, <4>1
      <4>3. CASE j = 1
        BY <3>3, <4>2, <4>3
      <4>4. CASE j # 1
        <5>1. j - 1 \in 1..Len(t) /\ j \in 2..Len(s) /\ j - 1 < k - 1
          BY <2>6, <3>2, <3>5, <4>4
        <5>2. g[j] = f[j - 1] + 1 /\ f[j - 1] \in Nat /\ f[j - 1] < f[k - 1]
          BY <2>5, <2>6, <2>7, <3>3, <4>1, <5>1
        <5>3. QED BY <4>2, <5>2
      <4>5. QED BY <4>3, <4>4
    <3>6. ASSUME NEW i \in 1..Len(q), q[i] \in Messages PROVE \E k \in 1..Len(s) : g[k] = i
      <4>1. CASE i = 1
        <5>1. 1 \in 1..Len(s)
          BY <2>6, <3>2
        <5>2. QED BY <3>3, <4>1, <5>1
      <4>2. CASE i # 1
        <5>1. i - 1 \in 1..Len(Tail(q)) /\ (i - 1) + 1 = i
          BY <2>3, <4>2
        <5>2. Tail(q)[i - 1] = q[i]
          BY <2>3, <5>1
        <5>3. PICK k \in 1..Len(t) : f[k] = i - 1
          BY <2>5, <3>6, <5>1, <5>2
        <5>4. k + 1 \in 1..Len(s) /\ k + 1 \in 2..Len(s) /\ (k + 1) - 1 = k
          BY <2>6, <3>2
        <5>5. g[k + 1] = i
          BY <3>3, <5>1, <5>3, <5>4
        <5>6. QED BY <5>4, <5>5
      <4>3. QED BY <4>1, <4>2
    <3>7. Places(q, g)
      BY <2>4, <3>3, <3>4, <3>5, <3>6 DEF Places
    <3>8. QED BY <3>7
  <2>9. CASE Head(q) \notin Messages
    <3>1. s = t
      BY <2>1, <2>4, <2>9, SelectedHead
    <3>2. PICK g \in [1..Len(s) -> 1..Len(q)] : \A k \in 1..Len(s) : g[k] = f[k] + 1
      <4>1. [k \in 1..Len(s) |-> f[k] + 1] \in [1..Len(s) -> 1..Len(q)]
        BY <2>7, <3>1
      <4>2. QED BY <4>1
    <3>3. ASSUME NEW k \in 1..Len(s) PROVE s[k] = q[g[k]]
      BY <2>3, <2>5, <2>7, <3>1, <3>2
    <3>4. ASSUME NEW j \in 1..Len(s), NEW k \in 1..Len(s), j < k PROVE g[j] < g[k]
      <4>1. f[j] < f[k] /\ f[j] \in Int /\ f[k] \in Int
        BY <2>3, <2>5, <2>7, <3>1, <3>4
      <4>2. QED BY <3>2, <4>1
    <3>5. ASSUME NEW i \in 1..Len(q), q[i] \in Messages PROVE \E k \in 1..Len(s) : g[k] = i
      <4>1. i # 1
        BY <2>3, <2>9, <3>5
      <4>2. i - 1 \in 1..Len(Tail(q)) /\ (i - 1) + 1 = i
        BY <2>3, <4>1
      <4>3. Tail(q)[i - 1] = q[i]
        BY <2>3, <4>2
      <4>4. PICK k \in 1..Len(t) : f[k] = i - 1
        BY <2>5, <3>5, <4>2, <4>3
      <4>5. QED BY <3>1, <3>2, <4>2, <4>4
    <3>6. Places(q, g)
      BY <2>4, <3>2, <3>3, <3>4, <3>5 DEF Places
    <3>7. QED BY <3>6
  <2>10. QED BY <2>8, <2>9
<1>4. \A q \in Queues : Len(q) \in Nat /\ q \in UpTo(Len(q))
  BY DEF UpTo, Queues
<1>5. Nat \subseteq S
  <2> HIDE DEF S
  <2>1. QED BY <1>2, <1>3, Induction
<1>6. QED BY <1>4, <1>5

\* It does not make a queue longer.
LEMMA SelectedShorter == \A q \in Queues : Len(ServiceMessages[q]) <= Len(q)
<1> DEFINE S == {n \in Nat : \A q \in UpTo(n) : Len(ServiceMessages[q]) <= Len(q)}
<1>1. Len(ServiceMessages[<<>>]) <= Len(<<>>)
  <2>1. <<>> \in Queues
    BY DEF Queues
  <2>2. ServiceMessages[<<>>] = <<>>
    BY <2>1, SelectedHead
  <2>3. QED BY <2>2
<1>2. 0 \in S
  BY <1>1, Short
<1>3. ASSUME NEW n \in Nat, n \in S PROVE n + 1 \in S
  <2> SUFFICES ASSUME NEW q \in UpTo(n + 1), q # <<>> PROVE Len(ServiceMessages[q]) <= Len(q)
    BY <1>1
  <2>1. Tail(q) \in UpTo(n) /\ q \in Queues /\ Tail(q) \in Queues
    BY Nonempty
  <2>2. Len(ServiceMessages[Tail(q)]) <= Len(Tail(q))
    BY <1>3, <2>1
  <2>3. Len(q) \in Nat /\ Len(Tail(q)) = Len(q) - 1
    BY <2>1 DEF Queues
  <2>4. PICK t \in Seq(Messages) : t = ServiceMessages[Tail(q)]
    BY <2>1, SelectedHead
  <2>5. (ServiceMessages[q] = <<Head(q)>> \o t /\ Head(q) \in Messages) \/ ServiceMessages[q] = t
    BY <2>1, <2>4, SelectedHead
  <2>6. Len(t) \in Nat /\ \A m \in Messages : Len(<<m>> \o t) = Len(t) + 1
    OBVIOUS
  <2>7. QED BY <2>2, <2>3, <2>4, <2>5, <2>6
<1>4. \A q \in Queues : Len(q) \in Nat /\ q \in UpTo(Len(q))
  BY DEF UpTo, Queues
<1>5. Nat \subseteq S
  <2> HIDE DEF S
  <2>1. QED BY <1>2, <1>3, Induction
<1>6. QED BY <1>4, <1>5

-----------------------------------------------------------------------------
(***************************************************************************)
(* What is in a queue, and behind what                                     *)
(***************************************************************************)
\* The message m is in q; nothing of M is behind an m in q.
In(q, m) == \E k \in 1..Len(q) : q[k] = m
NoneBehind(q, m, M) == \A j, k \in 1..Len(q) : j < k /\ q[j] = m => q[k] \notin M

\* A message is handled: what was in the queue is it, or is still there, and what
\* may not stand behind it is not.
LEMMA InTail ==
  ASSUME NEW q \in Queues, q # <<>>
  PROVE  /\ Tail(q) \in Queues
         /\ \A m : In(q, m) <=> m = Head(q) \/ In(Tail(q), m)
         /\ \A m, M : NoneBehind(q, m, M) =>
              /\ NoneBehind(Tail(q), m, M)
              /\ Head(q) = m => \A x \in M : ~In(Tail(q), x)
<1>1. PICK t \in Queues, n \in Nat :
        /\ t = Tail(q) /\ n = Len(t) /\ Len(q) = n + 1 /\ q[1] = Head(q)
        /\ \A k \in 1..n : t[k] = q[k + 1]
  <2>1. Tail(q) \in Queues
    BY DEF Queues
  <2>2. /\ Len(Tail(q)) \in Nat /\ Len(q) = Len(Tail(q)) + 1 /\ q[1] = Head(q)
        /\ \A k \in 1..Len(Tail(q)) : Tail(q)[k] = q[k + 1]
    BY DEF Queues
  <2>3. QED BY <2>1, <2>2
<1>2. 1 \in 1..Len(q) /\ \A k \in 1..n : k \in Nat /\ k + 1 \in 1..Len(q) /\ 1 < k + 1
  BY <1>1
<1>3. ASSUME NEW m PROVE In(q, m) <=> m = Head(q) \/ In(t, m)
  <2>1. ASSUME NEW k \in 1..Len(q), q[k] = m, m # Head(q) PROVE In(t, m)
    <3>1. k - 1 \in 1..n /\ (k - 1) + 1 = k
      BY <1>1, <2>1
    <3>2. t[k - 1] = m
      BY <1>1, <2>1, <3>1
    <3>3. QED BY <1>1, <3>1, <3>2 DEF In
  <2>2. In(t, m) => In(q, m)
    BY <1>1, <1>2 DEF In
  <2>3. m = Head(q) => In(q, m)
    BY <1>1, <1>2 DEF In
  <2>4. In(q, m) => m = Head(q) \/ In(t, m)
    BY <2>1 DEF In
  <2>5. QED BY <2>2, <2>3, <2>4
<1>4. ASSUME NEW m, NEW M, NoneBehind(q, m, M)
      PROVE  NoneBehind(t, m, M) /\ (Head(q) = m => \A x \in M : ~In(t, x))
  <2>1. ASSUME NEW j \in 1..n, NEW k \in 1..n, j < k, t[j] = m PROVE t[k] \notin M
    <3>1. j + 1 < k + 1 /\ q[j + 1] = m /\ q[k + 1] = t[k]
      BY <1>1, <1>2, <2>1
    <3>2. QED BY <1>2, <1>4, <3>1 DEF NoneBehind
  <2>2. NoneBehind(t, m, M)
    BY <1>1, <2>1 DEF NoneBehind
  <2>3. ASSUME NEW k \in 1..n, Head(q) = m PROVE t[k] \notin M
    BY <1>1, <1>2, <1>4, <2>3 DEF NoneBehind
  <2>4. Head(q) = m => \A x \in M : ~In(t, x)
    BY <1>1, <2>3 DEF In
  <2>5. QED BY <2>2, <2>4
<1>5. QED BY <1>1, <1>3, <1>4

\* Messages are put behind those that are there.
LEMMA InJoin ==
  ASSUME NEW q \in Queues, NEW r \in Queues
  PROVE  /\ q \o r \in Queues
         /\ \A m : In(q \o r, m) <=> In(q, m) \/ In(r, m)
         /\ \A m, M : /\ NoneBehind(q, m, M) /\ NoneBehind(r, m, M)
                      /\ In(q, m) => \A x \in M : ~In(r, x)
                      => NoneBehind(q \o r, m, M)
<1>1. PICK s \in Queues, n \in Nat, k \in Nat :
        /\ s = q \o r /\ n = Len(q) /\ k = Len(r) /\ Len(s) = n + k
        /\ \A i \in 1..n : s[i] = q[i]
        /\ \A i \in 1..k : s[n + i] = r[i]
  <2>1. q \o r \in Queues /\ Len(q) \in Nat /\ Len(r) \in Nat
    BY DEF Queues
  <2>2. /\ Len(q \o r) = Len(q) + Len(r)
        /\ \A i \in 1..Len(q) : (q \o r)[i] = q[i]
        /\ \A i \in 1..Len(r) : (q \o r)[Len(q) + i] = r[i]
    BY DEF Queues
  <2>3. QED BY <2>1, <2>2
<1>2. /\ \A i \in 1..n : i \in 1..Len(s)
      /\ \A i \in 1..k : n + i \in 1..Len(s)
      /\ \A i \in 1..Len(s) : i \notin 1..n => i - n \in 1..k /\ n + (i - n) = i
  BY <1>1
<1>3. ASSUME NEW i \in 1..Len(s)
      PROVE  (i \in 1..n /\ s[i] = q[i]) \/ (i > n /\ i - n \in 1..k /\ s[i] = r[i - n])
  <2>1. CASE i \in 1..n
    BY <1>1, <2>1
  <2>2. CASE i \notin 1..n
    <3>1. i - n \in 1..k /\ n + (i - n) = i /\ i > n
      BY <1>1, <1>2, <2>2
    <3>2. s[n + (i - n)] = r[i - n]
      BY <1>1, <3>1
    <3>3. QED BY <3>1, <3>2
  <2>3. QED BY <2>1, <2>2
<1>4. ASSUME NEW m PROVE In(s, m) <=> In(q, m) \/ In(r, m)
  <2>1. In(s, m) => In(q, m) \/ In(r, m)
    BY <1>1, <1>3 DEF In
  <2>2. In(q, m) => In(s, m)
    BY <1>1, <1>2 DEF In
  <2>3. In(r, m) => In(s, m)
    BY <1>1, <1>2 DEF In
  <2>4. QED BY <2>1, <2>2, <2>3
<1>5. ASSUME NEW m, NEW M, NoneBehind(q, m, M), NoneBehind(r, m, M),
             In(q, m) => \A x \in M : ~In(r, x)
      PROVE  NoneBehind(s, m, M)
  <2> SUFFICES ASSUME NEW i \in 1..Len(s), NEW j \in 1..Len(s), i < j, s[i] = m, s[j] \in M
               PROVE  FALSE
    BY DEF NoneBehind
  <2>1. i \in Int /\ j \in Int
    OBVIOUS
  <2>2. CASE j \in 1..n
    <3>1. i \in 1..n
      BY <2>1, <2>2
    <3>2. s[i] = q[i] /\ s[j] = q[j]
      BY <1>1, <2>2, <3>1
    <3>3. QED BY <1>1, <1>5, <2>2, <3>1, <3>2 DEF NoneBehind
  <2>3. CASE j \notin 1..n /\ i \in 1..n
    <3>1. s[i] = q[i] /\ j - n \in 1..k /\ s[j] = r[j - n]
      BY <1>1, <1>3, <2>3
    <3>2. In(q, m) /\ In(r, s[j])
      BY <1>1, <2>3, <3>1 DEF In
    <3>3. QED BY <1>5, <3>2
  <2>4. CASE j \notin 1..n /\ i \notin 1..n
    <3>1. j - n \in 1..k /\ s[j] = r[j - n] /\ i - n \in 1..k /\ s[i] = r[i - n]
      BY <1>3, <2>4
    <3>2. i - n < j - n
      BY <1>1, <2>1
    <3>3. QED BY <1>1, <1>5, <3>1, <3>2 DEF NoneBehind
  <2>5. QED BY <2>2, <2>3, <2>4
<1>6. QED BY <1>1, <1>4, <1>5

\* One message is put behind those that are there.
LEMMA InAppend ==
  ASSUME NEW q \in Queues, NEW y \in Messages \cup ActivityMessages
  PROVE  /\ Append(q, y) \in Queues
         /\ \A m : In(Append(q, y), m) <=> In(q, m) \/ m = y
         /\ \A m, M : NoneBehind(q, m, M) /\ (y \in M => ~In(q, m))
                      => NoneBehind(Append(q, y), m, M)
<1>1. PICK r \in Queues : r = <<y>> /\ Append(q, y) = q \o r
  <2>1. <<y>> \in Queues /\ Append(q, y) = q \o <<y>>
    BY DEF Queues
  <2>2. QED BY <2>1
<1>2. Len(r) = 1 /\ r[1] = y
  BY <1>1
<1>3. (\A m : In(r, m) <=> m = y) /\ \A m, M : NoneBehind(r, m, M)
  BY <1>2 DEF In, NoneBehind
<1>4. ASSUME NEW m, NEW M, NoneBehind(q, m, M), y \in M => ~In(q, m)
      PROVE  NoneBehind(q \o r, m, M)
  <2>1. In(q, m) => \A x \in M : ~In(r, x)
    BY <1>3, <1>4
  <2>2. QED BY <1>3, <1>4, <2>1, InJoin
<1>5. \A m : In(q \o r, m) <=> In(q, m) \/ m = y
  BY <1>3, InJoin
<1>6. q \o r \in Queues
  BY InJoin
<1>7. QED BY <1>1, <1>4, <1>5, <1>6

\* Withdrawing the activity's messages leaves those for the service, in order.
LEMMA InSelected ==
  ASSUME NEW q \in Queues
  PROVE  /\ ServiceMessages[q] \in Queues
         /\ \A m \in Messages : In(ServiceMessages[q], m) <=> In(q, m)
         /\ \A m : m \notin Messages => ~In(ServiceMessages[q], m)
         /\ \A m, M : NoneBehind(q, m, M) => NoneBehind(ServiceMessages[q], m, M)
<1>1. PICK s \in Seq(Messages) : s = ServiceMessages[q]
  BY SelectedHead
<1>2. PICK g : Places(q, g)
  BY HavePlaces
<1>3. /\ g \in [1..Len(s) -> 1..Len(q)]
      /\ \A k \in 1..Len(s) : s[k] = q[g[k]]
      /\ \A j, k \in 1..Len(s) : j < k => g[j] < g[k]
      /\ \A i \in 1..Len(q) : q[i] \in Messages => \E k \in 1..Len(s) : g[k] = i
  BY <1>1, <1>2 DEF Places
<1>4. s \in Queues /\ \A k \in 1..Len(s) : s[k] \in Messages
  BY DEF Queues
<1>5. \A k \in 1..Len(s) : g[k] \in 1..Len(q)
  BY <1>3
<1>6. \A m \in Messages : In(s, m) <=> In(q, m)
  <2>1. ASSUME NEW m, NEW k \in 1..Len(s), s[k] = m PROVE In(q, m)
    BY <1>3, <1>5, <2>1 DEF In
  <2>2. ASSUME NEW i \in 1..Len(q), q[i] \in Messages PROVE In(s, q[i])
    <3>1. PICK k \in 1..Len(s) : g[k] = i
      BY <1>3, <2>2
    <3>2. s[k] = q[i]
      BY <1>3, <3>1
    <3>3. QED BY <3>2 DEF In
  <2>3. QED BY <2>1, <2>2 DEF In
<1>7. \A m : m \notin Messages => ~In(s, m)
  BY <1>4 DEF In
<1>8. ASSUME NEW m, NEW M, NoneBehind(q, m, M), NEW j \in 1..Len(s), NEW k \in 1..Len(s),
             j < k, s[j] = m
      PROVE  s[k] \notin M
  <2>1. g[j] < g[k] /\ g[j] \in 1..Len(q) /\ g[k] \in 1..Len(q) /\ q[g[j]] = m /\ s[k] = q[g[k]]
    BY <1>3, <1>5, <1>8
  <2>2. QED BY <1>8, <2>1 DEF NoneBehind
<1>9. \A m, M : NoneBehind(q, m, M) => NoneBehind(s, m, M)
  BY <1>8 DEF NoneBehind
<1>10. QED BY <1>1, <1>4, <1>6, <1>7, <1>9

-----------------------------------------------------------------------------
(***************************************************************************)
(* The inductive invariant                                                 *)
(***************************************************************************)

\* The life of the service: it is not there, onCreate has run, onBind has run.
Gone == ~mListener
Created == mListener /\ ~mBufferManager
Serving == mListener /\ mBufferManager

\* The types of what the proofs are about.
Types ==
  /\ ShareTypeOK
  /\ mpc \in {"idle", "join", "dead"} /\ requested \in BOOLEAN
  /\ mListener \in BOOLEAN /\ mBufferManager \in BOOLEAN /\ mBound \in BOOLEAN
  /\ mSurface \in BOOLEAN /\ IsFiniteSet(connected)

\* The order of the messages.
InOrder ==
  /\ NoneBehind(queue, "CREATE", {"CREATE"})
  /\ NoneBehind(queue, "BIND", {"CREATE", "BIND"})
  /\ NoneBehind(queue, "DESTROY", {"CREATE", "BIND", "DESTROY"})
  /\ NoneBehind(queue, "GRANTED", {"DESTROY"})
  /\ NoneBehind(queue, "BOUND", {"BOUND"})

\* onCreate and onBind are still to come, or have been.
Life ==
  /\ In(queue, "CREATE") => Gone /\ In(queue, "BIND")
  /\ In(queue, "BIND") => Created \/ In(queue, "CREATE")
  /\ Created => In(queue, "BIND")
  /\ mBufferManager => mListener /\ mBound

\* The service is wanted, or it will be destroyed.
Wanted ==
  /\ In(queue, "DESTROY") => ~requested /\ (~Gone \/ In(queue, "CREATE"))
  /\ requested => ~Gone \/ In(queue, "CREATE")
  /\ mpc = "idle" /\ (~Gone \/ In(queue, "CREATE")) => requested \/ In(queue, "DESTROY")
  /\ mpc = "join" => /\ ~requested
                     /\ \A m \in {"CREATE", "BIND", "DESTROY"} : ~In(queue, m)
  /\ mpc = "dead" => queue = <<>> /\ Gone /\ ~requested /\ ~alive

\* The activity has been told of the binder, or is about to be.
Told == inFlight \/ In(queue, "BOUND") \/ mVncProjectionService

\* It is told once, of a service that it has bound and that has been bound; and
\* it is told of every service that it has bound.
Heard ==
  /\ Told => bound /\ Serving
  /\ bound /\ Serving => Told
  /\ inFlight => ~In(queue, "BOUND")
  /\ mVncProjectionService => ~inFlight /\ ~In(queue, "BOUND")

\* What is bound is wanted, by an activity that is there.
Binding ==
  /\ bound => alive /\ requested
  /\ bound \/ NoneBehind(queue, "GRANTED", {"CREATE", "BIND"})
  /\ \A m \in ActivityMessages : In(queue, m) => alive
  /\ shown => alive /\ asked > 0

\* The rotation has been passed on to the service and to its renderer.
Rotated ==
  /\ mVncProjectionService => serviceRotation = mCurrentRotation
  /\ mSurface => heightOffset = Orientation(serviceRotation)

IInv == Types /\ InOrder /\ Life /\ Wanted /\ Heard /\ Binding /\ Rotated

-----------------------------------------------------------------------------
(***************************************************************************)
(* What the steps do to the queue                                          *)
(***************************************************************************)

\* A handler takes its message from the queue.
LEMMA TakenInOrder ==
  ASSUME Types, InOrder, queue # <<>>, queue' = Tail(queue)
  PROVE  /\ queue' \in Queues /\ InOrder'
         /\ \A m : In(queue, m) <=> m = Head(queue) \/ In(queue', m)
         /\ Head(queue) = "CREATE" => ~In(queue', "CREATE")
         /\ Head(queue) = "BIND" => ~In(queue', "CREATE") /\ ~In(queue', "BIND")
         /\ Head(queue) = "DESTROY" =>
              ~In(queue', "CREATE") /\ ~In(queue', "BIND") /\ ~In(queue', "DESTROY")
         /\ Head(queue) = "GRANTED" => ~In(queue', "DESTROY")
         /\ Head(queue) = "BOUND" => ~In(queue', "BOUND")
         /\ NoneBehind(queue, "GRANTED", {"CREATE", "BIND"}) =>
              /\ NoneBehind(queue', "GRANTED", {"CREATE", "BIND"})
              /\ Head(queue) = "GRANTED" => ~In(queue', "CREATE") /\ ~In(queue', "BIND")
<1>1. queue \in Queues
  BY DEF Types, ShareTypeOK, Queues
<1>2. /\ queue' \in Queues
      /\ \A m : In(queue, m) <=> m = Head(queue) \/ In(queue', m)
      /\ \A m, M : NoneBehind(queue, m, M) =>
           /\ NoneBehind(queue', m, M)
           /\ Head(queue) = m => \A x \in M : ~In(queue', x)
  BY <1>1, InTail
<1>3. InOrder'
  BY <1>2 DEF InOrder
<1>4. /\ Head(queue) = "CREATE" => ~In(queue', "CREATE")
      /\ Head(queue) = "BIND" => ~In(queue', "CREATE") /\ ~In(queue', "BIND")
      /\ Head(queue) = "DESTROY" =>
           ~In(queue', "CREATE") /\ ~In(queue', "BIND") /\ ~In(queue', "DESTROY")
      /\ Head(queue) = "GRANTED" => ~In(queue', "DESTROY")
      /\ Head(queue) = "BOUND" => ~In(queue', "BOUND")
  BY <1>2 DEF InOrder
<1>5. NoneBehind(queue, "GRANTED", {"CREATE", "BIND"}) =>
        /\ NoneBehind(queue', "GRANTED", {"CREATE", "BIND"})
        /\ Head(queue) = "GRANTED" => ~In(queue', "CREATE") /\ ~In(queue', "BIND")
  BY <1>2
<1>6. QED BY <1>2, <1>3, <1>4, <1>5

\* A message is put at the end of the queue.  The service is destroyed once, and
\* not behind an answer; the activity is told once.
LEMMA PostedInOrder ==
  ASSUME Types, InOrder, NEW y \in (Messages \cup ActivityMessages) \ {"CREATE", "BIND"},
         queue' = Append(queue, y),
         y = "DESTROY" => ~In(queue, "DESTROY") /\ ~In(queue, "GRANTED"),
         y = "BOUND" => ~In(queue, "BOUND")
  PROVE  /\ queue' \in Queues /\ InOrder'
         /\ \A m : In(queue', m) <=> In(queue, m) \/ m = y
         /\ NoneBehind(queue, "GRANTED", {"CREATE", "BIND"}) =>
              NoneBehind(queue', "GRANTED", {"CREATE", "BIND"})
<1>1. queue \in Queues /\ y \in Messages \cup ActivityMessages
  BY DEF Types, ShareTypeOK, Queues
<1>2. /\ queue' \in Queues
      /\ \A m : In(queue', m) <=> In(queue, m) \/ m = y
      /\ \A m, M : NoneBehind(queue, m, M) /\ (y \in M => ~In(queue, m))
                   => NoneBehind(queue', m, M)
  BY <1>1, InAppend
<1>3. InOrder'
  BY <1>2 DEF InOrder
<1>4. QED BY <1>2, <1>3

-----------------------------------------------------------------------------
(***************************************************************************)
(* The steps of the activity                                               *)
(***************************************************************************)

\* ToggleOff, ToggleOn: GRANTED is not in the queue; what the activity has heard
\* of is unbound.
LEMMA ToggleInv ==
  ASSUME IInv, ToggleOn \/ ToggleOff
  PROVE  IInv'
<1> USE DEF IInv
<1>1. CASE ToggleOn
  <2> USE <1>1 DEF ToggleOn, vars, bindingVars, rotationVars, androidVars, optionVars,
                   projectionVars, serverVars
  <2>1. Types'
    BY MaxAskedAssumption DEF Types, ShareTypeOK
  <2>2. InOrder' /\ Life' /\ Wanted' /\ Heard' /\ Rotated'
    BY DEF InOrder, Life, Wanted, Heard, Told, Gone, Created, Serving, Rotated, In, NoneBehind
  <2>3. Binding'
    BY DEF Binding, In, NoneBehind, Types, ShareTypeOK
  <2>4. QED BY <2>1, <2>2, <2>3
<1>2. CASE ToggleOff
  <2> USE <1>2 DEF ToggleOff, serviceVars, rotationVars, optionVars, projectionVars, serverVars
  <2>1. ~In(queue, "GRANTED") /\ alive /\ mpc = "idle" /\ mpc' = "idle" /\ alive' = alive
    BY DEF CanClick, Queued, In
  <2>2. requested => ~In(queue, "DESTROY")
    BY DEF Wanted
  <2>3. \/ requested /\ ~bound' /\ requested' = FALSE /\ queue' = Append(queue, "DESTROY")
        \/ ~(requested /\ ~bound') /\ requested' = requested /\ queue' = queue
    BY DEF BringDownIfUnneeded
  <2>4. (Gone' <=> Gone) /\ (Created' <=> Created) /\ (Serving' <=> Serving)
    BY DEF Gone, Created, Serving
  <2>5. /\ queue' \in Queues /\ InOrder'
        /\ \A m : In(queue', m) <=> In(queue, m) \/ (m = "DESTROY" /\ requested /\ ~requested')
        /\ NoneBehind(queue', "GRANTED", {"CREATE", "BIND"})
    <3>1. CASE requested /\ ~bound' /\ requested' = FALSE /\ queue' = Append(queue, "DESTROY")
      <4>1. "DESTROY" \in (Messages \cup ActivityMessages) \ {"CREATE", "BIND"}
        BY DEF Messages
      <4>2. NoneBehind(queue, "GRANTED", {"CREATE", "BIND"})
        BY <2>1 DEF In, NoneBehind
      <4>3. QED BY <2>1, <2>2, <3>1, <4>1, <4>2, PostedInOrder
    <3>2. CASE ~(requested /\ ~bound') /\ requested' = requested /\ queue' = queue
      BY <2>1, <3>2 DEF InOrder, In, NoneBehind, Types, ShareTypeOK, Queues
    <3>3. QED BY <2>3, <3>1, <3>2
  <2>6. Types'
    <3>1. bound' \in BOOLEAN
      OBVIOUS
    <3>2. requested' \in BOOLEAN
      BY <2>3 DEF Types
    <3>3. QED BY <2>5, <3>1, <3>2 DEF Types, ShareTypeOK, Queues
  <2>7. Life'
    BY <2>4, <2>5 DEF Life
  <2>8. Wanted'
    BY <2>1, <2>3, <2>4, <2>5 DEF Wanted
  <2>9. Heard' /\ Rotated'
    BY <2>4, <2>5 DEF Heard, Told, Rotated, Types, ShareTypeOK
  <2>10. Binding'
    <3>1. \A m \in ActivityMessages : m # "DESTROY"
      BY DEF ActivityMessages
    <3>2. QED BY <2>1, <2>3, <2>5, <3>1 DEF Binding, Types, ShareTypeOK
  <2>11. QED BY <2>5, <2>6, <2>7, <2>8, <2>9, <2>10
<1>3. QED BY <1>1, <1>2

\* onActivityResult: a service that is wanted already and not bound has been
\* bound before, so that the binder can be sent; one that is not wanted is gone,
\* and nothing of it is in the queue.
LEMMA ResultInv ==
  ASSUME IInv, onActivityResult
  PROVE  IInv'
<1> USE DEF IInv, onActivityResult, serviceVars, activityVars, dialogVars, rotationVars, optionVars,
            projectionVars, serverVars
<1>1. queue # <<>> /\ Head(queue) = "GRANTED" /\ mpc = "idle" /\ mpc' = "idle"
  BY DEF Handles
<1>2. PICK t : t = Tail(queue)
  OBVIOUS
<1>3. /\ t \in Queues
      /\ \A m : In(queue, m) <=> m = "GRANTED" \/ In(t, m)
      /\ \A m, M : NoneBehind(queue, m, M) =>
           /\ NoneBehind(t, m, M)
           /\ "GRANTED" = m => \A x \in M : ~In(t, x)
  <2>1. queue \in Queues
    BY DEF Types, ShareTypeOK, Queues
  <2>2. QED BY <1>1, <1>2, <2>1, InTail
<1>4. alive /\ ~In(t, "DESTROY") /\ In(queue, "GRANTED")
  BY <1>3 DEF Binding, InOrder, ActivityMessages
<1>5. (Gone' <=> Gone) /\ (Created' <=> Created) /\ (Serving' <=> Serving)
  BY DEF Gone, Created, Serving
<1>6. requested /\ ~bound => Serving /\ ~Told
  <2>1. SUFFICES ASSUME requested, ~bound PROVE Serving /\ ~Told
    OBVIOUS
  <2>2. ~In(queue, "CREATE") /\ ~In(queue, "BIND")
    BY <1>3, <2>1 DEF Binding
  <2>3. QED BY <2>1, <2>2 DEF Wanted, Life, Heard, Gone, Created, Serving
<1>7. ~requested => Gone /\ ~Told /\ ~In(queue, "CREATE") /\ ~In(queue, "BIND")
  <2>1. SUFFICES ASSUME ~requested PROVE Gone /\ ~Told /\ ~In(queue, "CREATE") /\ ~In(queue, "BIND")
    OBVIOUS
  <2>2. ~In(queue, "DESTROY")
    BY <1>3, <1>4
  <2>3. QED BY <1>1, <2>1, <2>2 DEF Wanted, Life, Heard, Binding, Gone, Created, Serving
<1>8. /\ queue' \in Queues /\ InOrder'
      /\ \A m : In(queue', m) <=> In(t, m) \/ (~requested /\ m \in {"CREATE", "BIND"})
  <2>1. CASE requested
    <3>1. t \o <<>> = t
      BY <1>3 DEF Queues
    <3>2. queue' = t
      BY <1>2, <2>1, <3>1
    <3>3. InOrder'
      BY <1>3, <3>2 DEF InOrder
    <3>4. QED BY <1>3, <2>1, <3>2, <3>3
  <2>2. CASE ~requested
    <3>1. PICK r : r = <<"CREATE", "BIND">>
      OBVIOUS
    <3>2. queue' = t \o r
      BY <1>2, <2>2, <3>1
    <3>3. r \in Queues
      BY <3>1 DEF Queues, Messages
    <3>4. Len(r) = 2 /\ r[1] = "CREATE" /\ r[2] = "BIND"
      BY <3>1
    <3>5. \A m : In(r, m) <=> m \in {"CREATE", "BIND"}
      BY <3>4 DEF In
    <3>6. \A m, M : NoneBehind(r, m, M) <=> (m = "CREATE" => "BIND" \notin M)
      BY <3>4 DEF NoneBehind
    <3>7. /\ t \o r \in Queues
          /\ \A m : In(t \o r, m) <=> In(t, m) \/ In(r, m)
          /\ \A m, M : /\ NoneBehind(t, m, M) /\ NoneBehind(r, m, M)
                       /\ In(t, m) => \A x \in M : ~In(r, x)
                       => NoneBehind(t \o r, m, M)
      BY <1>3, <3>3, InJoin
    <3>8. ~In(t, "CREATE") /\ ~In(t, "BIND") /\ ~In(t, "DESTROY")
      BY <1>3, <1>4, <1>7, <2>2
    <3>9. InOrder'
      <4>1. /\ NoneBehind(t, "CREATE", {"CREATE"})
            /\ NoneBehind(t, "BIND", {"CREATE", "BIND"})
            /\ NoneBehind(t, "DESTROY", {"CREATE", "BIND", "DESTROY"})
            /\ NoneBehind(t, "GRANTED", {"DESTROY"})
            /\ NoneBehind(t, "BOUND", {"BOUND"})
        BY <1>3 DEF InOrder
      <4>2. /\ NoneBehind(t \o r, "CREATE", {"CREATE"})
            /\ NoneBehind(t \o r, "BIND", {"CREATE", "BIND"})
        BY <3>6, <3>7, <3>8, <4>1
      <4>3. NoneBehind(t \o r, "DESTROY", {"CREATE", "BIND", "DESTROY"})
        BY <3>6, <3>7, <3>8, <4>1
      <4>4. /\ NoneBehind(t \o r, "GRANTED", {"DESTROY"})
            /\ NoneBehind(t \o r, "BOUND", {"BOUND"})
        <5>1. ~In(r, "DESTROY") /\ ~In(r, "BOUND")
          BY <3>5
        <5>2. NoneBehind(r, "GRANTED", {"DESTROY"}) /\ NoneBehind(r, "BOUND", {"BOUND"})
          BY <3>6
        <5>3. QED BY <3>7, <4>1, <5>1, <5>2
      <4>5. QED BY <3>2, <4>2, <4>3, <4>4 DEF InOrder
    <3>10. QED BY <2>2, <3>2, <3>5, <3>7, <3>9
  <2>3. QED BY <2>1, <2>2
<1>9. Types'
  BY <1>8 DEF Types, ShareTypeOK, Queues
<1>10. Life'
  BY <1>3, <1>5, <1>7, <1>8 DEF Life, Gone, Created
<1>11. Wanted'
  BY <1>1, <1>3, <1>4, <1>5, <1>7, <1>8 DEF Wanted
<1>12. Heard' /\ Rotated'
  <2>1. \/ inFlight' = inFlight /\ (bound \/ ~requested)
        \/ inFlight' = TRUE /\ requested /\ ~bound
    BY DEF Types, ShareTypeOK
  <2>2. In(queue', "BOUND") <=> In(queue, "BOUND")
    BY <1>3, <1>8
  <2>3. Told' <=> Told \/ (requested /\ ~bound)
    BY <2>1, <2>2 DEF Told
  <2>4. Heard'
    BY <1>5, <1>6, <1>7, <2>1, <2>2, <2>3 DEF Heard, Told, Serving, Gone
  <2>5. Rotated'
    BY DEF Rotated
  <2>6. QED BY <2>4, <2>5
<1>13. Binding'
  <2>1. \A m \in ActivityMessages : m \notin {"CREATE", "BIND"}
    BY DEF ActivityMessages
  <2>2. QED BY <1>3, <1>4, <1>8, <2>1 DEF Binding
<1>14. QED BY <1>8, <1>9, <1>10, <1>11, <1>12, <1>13

\* onServiceConnected: the activity is told of the binder once.
LEMMA ConnectedInv ==
  ASSUME IInv, onServiceConnected
  PROVE  IInv'
<1> USE DEF IInv, onServiceConnected, serviceVars, dialogVars, bindingVars, optionVars,
            projectionVars, serverVars, ServiceRotates
<1>1. queue # <<>> /\ Head(queue) = "BOUND" /\ queue' = Tail(queue)
  BY DEF Handles
<1>2. /\ queue' \in Queues /\ InOrder'
      /\ \A m : In(queue, m) <=> m = "BOUND" \/ In(queue', m)
      /\ ~In(queue', "BOUND")
      /\ NoneBehind(queue, "GRANTED", {"CREATE", "BIND"}) =>
           NoneBehind(queue', "GRANTED", {"CREATE", "BIND"})
  BY <1>1, TakenInOrder
<1>3. (Gone' <=> Gone) /\ (Created' <=> Created) /\ (Serving' <=> Serving)
  BY DEF Gone, Created, Serving
<1>4. Told /\ ~inFlight
  BY <1>2 DEF Heard, Told
<1>5. Types'
  BY <1>2 DEF Types, ShareTypeOK, Queues, Orientation, Orientations
<1>6. Life' /\ Wanted'
  BY <1>1, <1>2, <1>3 DEF Life, Wanted, Handles
<1>7. Heard'
  BY <1>2, <1>3, <1>4 DEF Heard, Told
<1>8. Binding'
  BY <1>2 DEF Binding
<1>9. Rotated'
  BY DEF Rotated
<1>10. QED BY <1>2, <1>5, <1>6, <1>7, <1>8, <1>9

\* onConfigurationChanged
LEMMA ConfigurationInv ==
  ASSUME IInv, onConfigurationChanged
  PROVE  IInv'
<1> USE DEF IInv, onConfigurationChanged, serviceVars, dialogVars, bindingVars, optionVars,
            projectionVars, serverVars
<1>1. queue # <<>> /\ Head(queue) = "CONFIG" /\ queue' = Tail(queue)
  BY DEF Handles
<1>2. /\ queue' \in Queues /\ InOrder'
      /\ \A m : In(queue, m) <=> m = "CONFIG" \/ In(queue', m)
      /\ NoneBehind(queue, "GRANTED", {"CREATE", "BIND"}) =>
           NoneBehind(queue', "GRANTED", {"CREATE", "BIND"})
  BY <1>1, TakenInOrder
<1>3. (Gone' <=> Gone) /\ (Created' <=> Created) /\ (Serving' <=> Serving)
  BY DEF Gone, Created, Serving
<1>4. /\ serviceRotation' \in Rotations /\ heightOffset' \in Orientations
      /\ Rotated'
  <2>1. CASE mVncProjectionService /\ rotation # mCurrentRotation
    BY <2>1 DEF ServiceRotates, Rotated, Types, ShareTypeOK, Orientation, Orientations
  <2>2. CASE ~(mVncProjectionService /\ rotation # mCurrentRotation)
    BY <2>2 DEF rotationVars, Rotated, Types, ShareTypeOK
  <2>3. QED BY <2>1, <2>2
<1>5. Types'
  BY <1>2, <1>4 DEF Types, ShareTypeOK, Queues
<1>6. Life' /\ Wanted'
  BY <1>1, <1>2, <1>3 DEF Life, Wanted, Handles
<1>7. Heard'
  BY <1>2, <1>3 DEF Heard, Told
<1>8. Binding'
  BY <1>2 DEF Binding
<1>9. QED BY <1>2, <1>4, <1>5, <1>6, <1>7, <1>8

\* DestroyActivity: what is left in the queue is for the service.
LEMMA DestroyActivityInv ==
  ASSUME IInv, NEW how \in {"FINISH", "RECREATE"}, DestroyActivity(how)
  PROVE  IInv'
<1> USE DEF IInv, DestroyActivity, serviceVars, rotationVars, optionVars,
            projectionVars, serverVars, NewActivity
<1>1. queue # <<>> /\ Head(queue) = how /\ mpc = "idle" /\ mpc' = "idle"
  BY DEF Handles
<1>2. PICK s : s = ServiceMessages[Tail(queue)]
  OBVIOUS
<1>3. /\ s \in Queues
      /\ \A m \in Messages : In(s, m) <=> In(queue, m)
      /\ \A m : m \notin Messages => ~In(s, m)
      /\ \A m, M : NoneBehind(queue, m, M) => NoneBehind(s, m, M)
  <2>1. queue \in Queues
    BY DEF Types, ShareTypeOK, Queues
  <2>2. PICK t \in Queues :
          /\ t = Tail(queue)
          /\ \A m : In(queue, m) <=> m = how \/ In(t, m)
          /\ \A m, M : NoneBehind(queue, m, M) => NoneBehind(t, m, M)
    BY <1>1, <2>1, InTail
  <2>3. /\ s \in Queues
        /\ \A m \in Messages : In(s, m) <=> In(t, m)
        /\ \A m : m \notin Messages => ~In(s, m)
        /\ \A m, M : NoneBehind(t, m, M) => NoneBehind(s, m, M)
    BY <1>2, <2>2, InSelected
  <2>4. how \notin Messages
    BY DEF Messages
  <2>5. QED BY <2>2, <2>3, <2>4
<1>4. \/ requested /\ requested' = FALSE /\ queue' = Append(s, "DESTROY")
      \/ requested' = requested /\ queue' = s
  BY <1>2 DEF BringDownIfUnneeded
<1>5. (Gone' <=> Gone) /\ (Created' <=> Created) /\ (Serving' <=> Serving)
  BY DEF Gone, Created, Serving
<1>6. /\ "DESTROY" \in Messages /\ "CREATE" \in Messages /\ "BIND" \in Messages
      /\ "GRANTED" \notin Messages /\ "BOUND" \notin Messages
      /\ \A m \in ActivityMessages : m \notin Messages
  BY DEF Messages, ActivityMessages
<1>7. requested => ~In(s, "DESTROY")
  BY <1>3, <1>6 DEF Wanted
<1>8. /\ queue' \in Queues
      /\ \A m : In(queue', m) <=> In(s, m) \/ (m = "DESTROY" /\ requested /\ ~requested')
      /\ InOrder' /\ NoneBehind(queue', "GRANTED", {"CREATE", "BIND"})
  <2>1. \A M : NoneBehind(s, "GRANTED", M) /\ NoneBehind(s, "BOUND", M)
    BY <1>3, <1>6 DEF In, NoneBehind
  <2>2. /\ NoneBehind(s, "CREATE", {"CREATE"})
        /\ NoneBehind(s, "BIND", {"CREATE", "BIND"})
        /\ NoneBehind(s, "DESTROY", {"CREATE", "BIND", "DESTROY"})
    BY <1>3 DEF InOrder
  <2>3. CASE requested /\ requested' = FALSE /\ queue' = Append(s, "DESTROY")
    <3>1. /\ queue' \in Queues
          /\ \A m : In(queue', m) <=> In(s, m) \/ m = "DESTROY"
          /\ \A m, M : NoneBehind(s, m, M) /\ ("DESTROY" \in M => ~In(s, m))
                       => NoneBehind(queue', m, M)
      BY <1>3, <1>6, <2>3, InAppend
    <3>2. ~In(s, "GRANTED") /\ ~In(s, "BOUND") /\ ~In(s, "DESTROY")
      BY <1>3, <1>6, <1>7, <2>3
    <3>3. InOrder' /\ NoneBehind(queue', "GRANTED", {"CREATE", "BIND"})
      BY <2>1, <2>2, <3>1, <3>2 DEF InOrder
    <3>4. QED BY <2>3, <3>1, <3>3
  <2>4. CASE requested' = requested /\ queue' = s
    BY <1>3, <2>1, <2>2, <2>4 DEF InOrder
  <2>5. QED BY <1>4, <2>3, <2>4
<1>9. Types'
  <2>1. alive' \in BOOLEAN /\ isChecked' \in BOOLEAN /\ shown' \in BOOLEAN
    OBVIOUS
  <2>2. requested' \in BOOLEAN
    BY <1>4 DEF Types
  <2>3. asked' \in 0..MaxAsked
    BY MaxAskedAssumption DEF Types, ShareTypeOK
  <2>4. mCurrentRotation' \in Rotations /\ config' \in Orientations
    BY RotationsAssumption DEF Orientation, Orientations
  <2>5. QED BY <1>8, <2>1, <2>2, <2>3, <2>4 DEF Types, ShareTypeOK, Queues
<1>10. Life'
  BY <1>3, <1>5, <1>6, <1>8 DEF Life
<1>11. Wanted'
  BY <1>1, <1>3, <1>4, <1>5, <1>6, <1>8 DEF Wanted
<1>12. Heard' /\ Rotated'
  <2>1. ~In(queue', "BOUND")
    BY <1>3, <1>6, <1>8
  <2>2. QED BY <2>1 DEF Heard, Told, Rotated
<1>13. Binding'
  <2>1. \A m \in ActivityMessages : ~In(queue', m)
    BY <1>3, <1>6, <1>8
  <2>2. shown' => alive' /\ asked' > 0
    BY DEF Binding
  <2>3. QED BY <1>8, <2>1, <2>2 DEF Binding
<1>14. QED BY <1>8, <1>9, <1>10, <1>11, <1>12, <1>13

\* LaunchActivity: nothing of an earlier activity is left.
LEMMA LaunchInv ==
  ASSUME IInv, LaunchActivity
  PROVE  IInv'
<1> USE DEF IInv, LaunchActivity, NewActivity, bindingVars, rotationVars, vars, androidVars,
            optionVars, projectionVars, serverVars, Relaunch
<1>1. ~alive /\ ~bound /\ ~Told /\ ~shown /\ \A m \in ActivityMessages : ~In(queue, m)
  BY DEF Heard, Binding
<1>2. /\ queue' = queue /\ mpc' = "idle" /\ requested' = requested
      /\ mListener' = mListener /\ mBufferManager' = mBufferManager /\ mBound' = mBound
      /\ mSurface' = mSurface /\ connected' = connected
  OBVIOUS
<1>3. Types'
  BY <1>2, RotationsAssumption DEF Types, ShareTypeOK, Orientation, Orientations
<1>4. InOrder' /\ Life'
  BY <1>2 DEF InOrder, Life, Gone, Created, In, NoneBehind
<1>5. Wanted'
  <2>1. mpc = "dead" => Gone /\ ~In(queue, "CREATE")
    BY DEF Wanted, In
  <2>2. mpc \in {"dead", "idle"}
    OBVIOUS
  <2>3. (Gone' <=> Gone) /\ \A m : In(queue', m) <=> In(queue, m)
    BY <1>2 DEF Gone
  <2>4. QED BY <1>2, <2>1, <2>2, <2>3 DEF Wanted
<1>6. Heard' /\ Binding' /\ Rotated'
  BY <1>1, <1>2 DEF Heard, Told, Binding, Rotated, In, Serving, NoneBehind
<1>7. QED BY <1>3, <1>4, <1>5, <1>6

-----------------------------------------------------------------------------
(***************************************************************************)
(* The steps of the service                                                *)
(***************************************************************************)

\* CreateService
LEMMA CreateInv ==
  ASSUME IInv, CreateService
  PROVE  IInv'
<1> USE DEF IInv, CreateService, onCreate, activityVars, dialogVars, androidVars
<1>1. /\ queue # <<>> /\ Head(queue) = "CREATE" /\ queue' = Tail(queue)
      /\ mpc = "idle" /\ mpc' = "idle"
  BY DEF Handles
<1>2. /\ queue' \in Queues /\ InOrder'
      /\ \A m : In(queue, m) <=> m = "CREATE" \/ In(queue', m)
      /\ ~In(queue', "CREATE")
      /\ NoneBehind(queue, "GRANTED", {"CREATE", "BIND"}) =>
           NoneBehind(queue', "GRANTED", {"CREATE", "BIND"})
  BY <1>1, TakenInOrder
<1>3. Gone /\ ~mBufferManager /\ In(queue', "BIND") /\ ~Told
  BY <1>2 DEF Life, Heard, Gone, Serving
<1>4. Created' /\ ~Gone' /\ ~Serving'
  BY <1>3 DEF Gone, Created, Serving
<1>5. ~Told'
  BY <1>2, <1>3 DEF Told
<1>6. Types'
  BY <1>2, RotationsAssumption DEF Types, ShareTypeOK, Queues
<1>7. Life' /\ Wanted'
  BY <1>1, <1>2, <1>3, <1>4 DEF Life, Wanted
<1>8. Heard' /\ Rotated'
  BY <1>4, <1>5 DEF Heard, Told, Rotated
<1>9. Binding'
  BY <1>2 DEF Binding
<1>10. QED BY <1>2, <1>6, <1>7, <1>8, <1>9

\* BindService: whoever has bound it is told.
LEMMA BindInv ==
  ASSUME IInv, NEW wanted, NEW allocated, BindService(wanted, allocated)
  PROVE  IInv'
<1> USE DEF IInv, BindService, onBind, activityVars, dialogVars, rotationVars, androidVars, projectionVars
<1>1. /\ queue # <<>> /\ Head(queue) = "BIND" /\ queue' = Tail(queue)
      /\ mpc = "idle" /\ mpc' = "idle"
  BY DEF Handles
<1>2. /\ queue' \in Queues /\ InOrder'
      /\ \A m : In(queue, m) <=> m = "BIND" \/ In(queue', m)
      /\ ~In(queue', "CREATE") /\ ~In(queue', "BIND")
      /\ NoneBehind(queue, "GRANTED", {"CREATE", "BIND"}) =>
           NoneBehind(queue', "GRANTED", {"CREATE", "BIND"})
  BY <1>1, TakenInOrder
<1>3. Created /\ ~Told
  BY <1>2 DEF Life, Heard, Created, Serving
<1>4. Serving' /\ ~Gone' /\ ~Created' /\ ~Gone
  BY <1>3 DEF Gone, Created, Serving
<1>5. Told' <=> bound
  BY <1>2, <1>3 DEF Told
<1>6. Types'
  BY <1>2 DEF Types, ShareTypeOK, Queues
<1>7. Life' /\ Wanted'
  BY <1>1, <1>2, <1>4 DEF Life, Wanted, Serving
<1>8. Heard' /\ Rotated'
  BY <1>2, <1>3, <1>4, <1>5 DEF Heard, Told, Rotated
<1>9. Binding'
  BY <1>2 DEF Binding
<1>10. QED BY <1>2, <1>6, <1>7, <1>8, <1>9

\* ClientConnected: a new renderer has the rotation of the service; and
\* handleDisconnected, which stops it.
LEMMA ClientInv ==
  ASSUME IInv, ClientConnected \/ (handleDisconnected /\ UNCHANGED shareVars)
  PROVE  IInv'
<1> USE DEF IInv, ClientConnected, handleConnected, handleDisconnected, shareVars, activityVars,
            dialogVars, bindingVars, rotationVars, androidVars, optionVars, serverVars
<1>1. /\ queue # <<>> /\ Head(queue) \in {"CONNECTED", "DISCONNECTED"} /\ queue' = Tail(queue)
      /\ mpc = "idle" /\ mpc' = "idle"
  BY DEF Handles
<1>2. /\ queue' \in Queues /\ InOrder'
      /\ \A m : In(queue, m) <=> m = Head(queue) \/ In(queue', m)
      /\ NoneBehind(queue, "GRANTED", {"CREATE", "BIND"}) =>
           NoneBehind(queue', "GRANTED", {"CREATE", "BIND"})
  BY <1>1, TakenInOrder
<1>3. \A m \in {"CREATE", "BIND", "DESTROY", "GRANTED", "BOUND"} : In(queue', m) <=> In(queue, m)
  BY <1>1, <1>2
<1>4. (Gone' <=> Gone) /\ (Created' <=> Created) /\ (Serving' <=> Serving)
  BY DEF Gone, Created, Serving
<1>5. /\ heightOffset' \in Orientations /\ mSurface' \in BOOLEAN
      /\ mSurface' => heightOffset' = Orientation(serviceRotation)
  BY DEF startProjection, stopProjection, Rotated, Types, ShareTypeOK, Orientations, Orientation
<1>6. Types'
  BY <1>2, <1>5 DEF Types, ShareTypeOK, Queues
<1>7. Life' /\ Wanted'
  BY <1>1, <1>3, <1>4 DEF Life, Wanted
<1>8. Heard' /\ Rotated'
  BY <1>3, <1>4, <1>5 DEF Heard, Told, Rotated
<1>9. Binding'
  BY <1>2 DEF Binding
<1>10. QED BY <1>2, <1>6, <1>7, <1>8, <1>9

\* ProcessDies
LEMMA DiesInv ==
  ASSUME IInv, ProcessDies
  PROVE  IInv'
<1> USE DEF ProcessDies, crashConnected
<1>1. queue' \in Queues /\ \A m : ~In(queue', m)
  BY DEF Queues, In
<1>2. \A m, M : NoneBehind(queue', m, M)
  BY DEF NoneBehind
<1>3. Types'
  <2>1. IsFiniteSet(connected')
    BY FS_EmptySet
  <2>2. asked' \in 0..MaxAsked /\ mCurrentRotation' \in Rotations /\ serviceRotation' \in Rotations
    BY MaxAskedAssumption, RotationsAssumption
  <2>3. heightOffset' \in Orientations /\ config' \in Orientations /\ rotation' \in Rotations
    BY DEF Orientations, IInv, Types, ShareTypeOK
  <2>4. queue' \in Seq(Messages \cup ActivityMessages)
    BY <1>1 DEF Queues
  <2>5. QED BY <2>1, <2>2, <2>3, <2>4 DEF Types, ShareTypeOK
<1>4. InOrder' /\ Life' /\ Wanted'
  BY <1>1, <1>2 DEF InOrder, Life, Wanted, Gone, Created
<1>5. Heard' /\ Binding' /\ Rotated'
  BY <1>1, <1>2 DEF Heard, Told, Binding, Rotated
<1>6. QED BY <1>3, <1>4, <1>5 DEF IInv

\* DestroyService: nothing but events and the activity's messages is left.
LEMMA DestroyInv ==
  ASSUME IInv, DestroyService
  PROVE  IInv'
<1> USE DEF IInv, DestroyService, onDestroy, shareVars, activityVars, dialogVars, bindingVars,
            rotationVars, androidVars, optionVars, serverVars
<1>1. queue # <<>> /\ Head(queue) = "DESTROY" /\ queue' = Tail(queue)
  BY DEF Handles
<1>2. /\ queue' \in Queues /\ InOrder'
      /\ \A m : In(queue, m) <=> m = "DESTROY" \/ In(queue', m)
      /\ ~In(queue', "CREATE") /\ ~In(queue', "BIND") /\ ~In(queue', "DESTROY")
      /\ NoneBehind(queue, "GRANTED", {"CREATE", "BIND"}) =>
           NoneBehind(queue', "GRANTED", {"CREATE", "BIND"})
  BY <1>1, TakenInOrder
<1>3. (Gone' <=> Gone) /\ (Created' <=> Created) /\ (Serving' <=> Serving)
  BY DEF Gone, Created, Serving
<1>4. ~requested /\ ~Created
  BY <1>2 DEF Wanted, Life
<1>5. Types'
  <2>1. ShareTypeOK'
    BY <1>2 DEF Types, ShareTypeOK, Queues
  <2>2. mpc' = "join" /\ UNCHANGED <<mListener, mBufferManager, mBound>>
    OBVIOUS
  <2>3. requested' \in BOOLEAN /\ mSurface' \in BOOLEAN /\ IsFiniteSet(connected')
    BY DEF Types, stopProjection
  <2>4. QED BY <2>1, <2>2, <2>3 DEF Types
<1>6. Life' /\ Wanted'
  BY <1>2, <1>3, <1>4 DEF Life, Wanted
<1>7. Heard' /\ Rotated'
  BY <1>2, <1>3 DEF Heard, Told, Rotated, stopProjection
<1>8. Binding'
  BY <1>2 DEF Binding
<1>9. QED BY <1>2, <1>5, <1>6, <1>7, <1>8

\* stopServer: the farewell of the clients comes after everything else.
LEMMA StopInv ==
  ASSUME IInv, stopServer, UNCHANGED shareVars
  PROVE  IInv'
<1> USE DEF IInv, stopServer, shareVars, activityVars, dialogVars, bindingVars,
            rotationVars, androidVars, optionVars, projectionVars
<1>1. /\ mpc = "join" /\ ~requested /\ ~bound /\ ~Told
      /\ ~In(queue, "CREATE") /\ ~In(queue, "BIND") /\ ~In(queue, "DESTROY")
  BY DEF Wanted, Binding, Heard
<1>2. PICK n \in Nat : n = Cardinality(connected)
  BY FS_CardinalityType DEF Types
<1>3. PICK r : r = [k \in 1..n |-> "DISCONNECTED"]
  OBVIOUS
<1>4. /\ r \in Queues /\ \A m : In(r, m) => m = "DISCONNECTED"
      /\ \A m, M : "DISCONNECTED" \notin M => NoneBehind(r, m, M)
  <2>1. r \in Queues /\ Len(r) = n
    BY <1>3 DEF Queues, Messages
  <2>2. \A k \in 1..n : r[k] = "DISCONNECTED"
    BY <1>3
  <2>3. QED BY <2>1, <2>2 DEF In, NoneBehind
<1>5. queue \in Queues
  BY DEF Types, ShareTypeOK, Queues
<1>6. /\ queue' \in Queues
      /\ \A m : m # "DISCONNECTED" => (In(queue', m) <=> In(queue, m))
      /\ \A m, M : "DISCONNECTED" \notin M /\ NoneBehind(queue, m, M) => NoneBehind(queue', m, M)
  <2>1. CASE mListener
    <3>1. queue' = queue \o r
      BY <1>2, <1>3, <2>1
    <3>2. /\ queue' \in Queues
          /\ \A m : In(queue', m) <=> In(queue, m) \/ In(r, m)
          /\ \A m, M : /\ NoneBehind(queue, m, M) /\ NoneBehind(r, m, M)
                       /\ In(queue, m) => \A x \in M : ~In(r, x)
                       => NoneBehind(queue', m, M)
      <4>1. PICK q \in Queues : q = queue
        BY <1>5
      <4>2. /\ q \o r \in Queues
            /\ \A m : In(q \o r, m) <=> In(q, m) \/ In(r, m)
            /\ \A m, M : /\ NoneBehind(q, m, M) /\ NoneBehind(r, m, M)
                         /\ In(q, m) => \A x \in M : ~In(r, x)
                         => NoneBehind(q \o r, m, M)
        BY <1>4, InJoin
      <4>3. QED BY <3>1, <4>1, <4>2
    <3>3. ASSUME NEW m, NEW M, "DISCONNECTED" \notin M, NoneBehind(queue, m, M)
          PROVE  NoneBehind(queue', m, M)
      <4>1. \A x \in M : ~In(r, x)
        BY <1>4, <3>3
      <4>2. QED BY <1>4, <3>2, <3>3, <4>1
    <3>4. QED BY <1>4, <3>2, <3>3
  <2>2. CASE ~mListener
    BY <1>5, <2>2
  <2>3. QED BY <2>1, <2>2
<1>7. InOrder' /\ (NoneBehind(queue, "GRANTED", {"CREATE", "BIND"}) =>
                     NoneBehind(queue', "GRANTED", {"CREATE", "BIND"}))
  BY <1>6 DEF InOrder
<1>8. Gone' /\ ~Created' /\ ~Serving'
  BY DEF Gone, Created, Serving
<1>9. Types'
  <2>1. IsFiniteSet(connected')
    BY FS_EmptySet
  <2>2. QED BY <1>6, <2>1 DEF Types, ShareTypeOK, Queues
<1>10. Life' /\ Wanted'
  BY <1>1, <1>6, <1>8 DEF Life, Wanted
<1>11. Heard' /\ Rotated'
  BY <1>1, <1>6 DEF Heard, Told, Rotated
<1>12. Binding'
  <2>1. \A m \in ActivityMessages : m # "DISCONNECTED"
    BY DEF ActivityMessages
  <2>2. QED BY <1>6, <1>7, <2>1 DEF Binding
<1>13. QED BY <1>7, <1>9, <1>10, <1>11, <1>12

-----------------------------------------------------------------------------
(***************************************************************************)
(* The steps of Android, the user and the worker                           *)
(***************************************************************************)

\* Messages that are only posted: of an activity that is there, or of clients
\* to a service that listens.
LEMMA PostedInv ==
  ASSUME IInv,
         NEW y \in {"GRANTED", "BOUND", "CONFIG", "FINISH", "RECREATE", "CONNECTED", "DISCONNECTED"},
         queue' = Append(queue, y), mpc # "dead",
         y \in ActivityMessages => alive,
         (y = "BOUND" /\ inFlight /\ inFlight' = FALSE) \/ (y # "BOUND" /\ inFlight' = inFlight),
         shown' \in BOOLEAN, asked' \in 0..MaxAsked, shown' => shown,
         shown' => asked' > 0, config' \in Orientations, rotation' \in Rotations,
         visible' \in BOOLEAN, IsFiniteSet(connected'),
         UNCHANGED <<mpc, requested, mListener, mBufferManager, mBound, mSurface, alive, isChecked,
                     mVncProjectionService, mCurrentRotation, bound, started, rotationVars>>
  PROVE  IInv'
<1> USE DEF IInv, rotationVars
<1>1. y \in (Messages \cup ActivityMessages) \ {"CREATE", "BIND"} /\ y # "DESTROY"
  BY DEF Messages, ActivityMessages
<1>2. y = "BOUND" => ~In(queue, "BOUND")
  BY DEF Heard
<1>3. /\ queue' \in Queues /\ InOrder'
      /\ \A m : In(queue', m) <=> In(queue, m) \/ m = y
      /\ NoneBehind(queue, "GRANTED", {"CREATE", "BIND"}) =>
           NoneBehind(queue', "GRANTED", {"CREATE", "BIND"})
  BY <1>1, <1>2, PostedInOrder
<1>4. (Gone' <=> Gone) /\ (Created' <=> Created) /\ (Serving' <=> Serving)
  BY DEF Gone, Created, Serving
<1>5. inFlight' \in BOOLEAN /\ (Told' <=> Told)
  <2>1. inFlight' \in BOOLEAN
    BY DEF Types, ShareTypeOK
  <2>2. CASE y = "BOUND"
    BY <1>3, <2>1, <2>2 DEF Told
  <2>3. CASE y # "BOUND"
    BY <1>3, <2>1, <2>3 DEF Told
  <2>4. QED BY <2>1, <2>2, <2>3
<1>6. Types'
  BY <1>3, <1>5 DEF Types, ShareTypeOK, Queues
<1>7. Life' /\ Wanted'
  BY <1>3, <1>4 DEF Life, Wanted
<1>8. Heard'
  BY <1>2, <1>3, <1>4, <1>5 DEF Heard
<1>9. Binding'
  BY <1>3 DEF Binding
<1>10. Rotated'
  BY DEF Rotated
<1>11. QED BY <1>3, <1>6, <1>7, <1>8, <1>9, <1>10

\* Steps that leave the queue and the service alone.
LEMMA QuietInv ==
  ASSUME IInv, shown' \in BOOLEAN, asked' \in 0..MaxAsked, shown' => alive /\ asked' > 0,
         config' \in Orientations, rotation' \in Rotations,
         visible' \in BOOLEAN, IsFiniteSet(connected'),
         UNCHANGED <<queue, mpc, requested, mListener, mBufferManager, mBound, mSurface, alive,
                     isChecked, mVncProjectionService, mCurrentRotation, bindingVars, rotationVars>>
  PROVE  IInv'
<1> USE DEF IInv, rotationVars, bindingVars
<1>1. Types'
  BY DEF Types, ShareTypeOK
<1>2. InOrder' /\ Life' /\ Wanted' /\ Heard' /\ Rotated'
  BY DEF InOrder, Life, Wanted, Heard, Told, Gone, Created, Serving, Rotated, In, NoneBehind
<1>3. Binding'
  BY DEF Binding, In, NoneBehind
<1>4. QED BY <1>1, <1>2, <1>3

\* ShowDialog, Answer, ServiceConnected, Leave
LEMMA DialogInv ==
  ASSUME IInv,
         \/ ShowDialog \/ ServiceConnected
         \/ \E granted \in BOOLEAN : Answer(granted)
         \/ \E how \in {"FINISH", "RECREATE"} : Leave(how)
  PROVE  IInv'
<1> USE DEF serviceVars, optionVars, projectionVars, serverVars, activityVars, dialogVars, shareVars
<1>1. /\ shown \in BOOLEAN /\ asked \in 0..MaxAsked /\ (shown => alive /\ asked > 0)
      /\ config \in Orientations /\ rotation \in Rotations /\ visible \in BOOLEAN
      /\ IsFiniteSet(connected) /\ (mpc = "dead" => ~alive) /\ (inFlight => alive)
  BY DEF IInv, Types, ShareTypeOK, Binding, Wanted, Heard, Told
<1>2. CASE ShowDialog
  BY <1>1, <1>2, QuietInv DEF ShowDialog, vars, androidVars
<1>3. CASE ServiceConnected
  BY <1>1, <1>3, PostedInv DEF ServiceConnected
<1>4. ASSUME NEW granted \in BOOLEAN, Answer(granted) PROVE IInv'
  <2>1. asked' \in 0..MaxAsked /\ shown' = FALSE
    BY <1>1, <1>4, MaxAskedAssumption DEF Answer
  <2>2. CASE granted
    BY <1>1, <1>4, <2>1, <2>2, PostedInv DEF Answer, bindingVars
  <2>3. CASE ~granted
    BY <1>1, <1>4, <2>1, <2>3, QuietInv DEF Answer
  <2>4. QED BY <2>2, <2>3
<1>5. ASSUME NEW how \in {"FINISH", "RECREATE"}, Leave(how) PROVE IInv'
  BY <1>1, <1>5, PostedInv DEF Leave, bindingVars
<1>6. QED BY <1>2, <1>3, <1>4, <1>5

\* Rotate, Switch
LEMMA ConfigureInv ==
  ASSUME IInv, Switch \/ \E r \in Rotations : Rotate(r)
  PROVE  IInv'
<1> USE DEF serviceVars, optionVars, projectionVars, serverVars, dialogVars
<1>1. /\ shown \in BOOLEAN /\ asked \in 0..MaxAsked /\ (shown => alive /\ asked > 0)
      /\ config \in Orientations /\ rotation \in Rotations /\ visible \in BOOLEAN
      /\ IsFiniteSet(connected) /\ (mpc = "dead" => ~alive)
  BY DEF IInv, Types, ShareTypeOK, Binding, Wanted
<1>2. ASSUME NEW v, NEW r, Configure(v, r)
      PROVE  /\ config' \in Orientations
             /\ queue' = queue \/ (alive /\ queue' = Append(queue, "CONFIG"))
  BY <1>1, <1>2 DEF Configure, Orientation, Orientations
<1>3. CASE Switch
  <2>1. /\ visible' \in BOOLEAN /\ config' \in Orientations
        /\ queue' = queue \/ (alive /\ queue' = Append(queue, "CONFIG"))
    BY <1>2, <1>3 DEF Switch
  <2>2. CASE queue' = queue
    BY <1>1, <1>3, <2>1, <2>2, QuietInv DEF Switch
  <2>3. CASE alive /\ queue' = Append(queue, "CONFIG")
    BY <1>1, <1>3, <2>1, <2>3, PostedInv DEF Switch, bindingVars
  <2>4. QED BY <2>1, <2>2, <2>3
<1>4. ASSUME NEW r \in Rotations, Rotate(r) PROVE IInv'
  <2>1. /\ config' \in Orientations
        /\ queue' = queue \/ (alive /\ queue' = Append(queue, "CONFIG"))
    BY <1>2, <1>4 DEF Rotate
  <2>2. CASE queue' = queue
    BY <1>1, <1>4, <2>1, <2>2, QuietInv DEF Rotate
  <2>3. CASE alive /\ queue' = Append(queue, "CONFIG")
    BY <1>1, <1>4, <2>1, <2>3, PostedInv DEF Rotate, bindingVars
  <2>4. QED BY <2>1, <2>2, <2>3
<1>5. QED BY <1>3, <1>4

\* The worker, and the permission to change the settings
LEMMA WorkerInv ==
  ASSUME IInv, Worker \/ GrantWrite, UNCHANGED shareVars
  PROVE  IInv'
<1> USE DEF optionVars, projectionVars, androidVars, shareVars, activityVars, dialogVars, bindingVars
<1>1. /\ shown' \in BOOLEAN /\ asked' \in 0..MaxAsked /\ (shown' => alive /\ asked' > 0)
      /\ config' \in Orientations /\ rotation' \in Rotations /\ visible' \in BOOLEAN
      /\ IsFiniteSet(connected) /\ (mpc = "dead" => ~mListener)
  BY DEF IInv, Types, ShareTypeOK, Binding, Wanted, Gone
<1>2. \A c : IsFiniteSet(connected \cup {c}) /\ IsFiniteSet(connected \ {c})
  BY <1>1, FS_AddElement, FS_RemoveElement
<1>3. CASE WorkerExits \/ GrantWrite
  BY <1>1, <1>3, QuietInv DEF WorkerExits, GrantWrite, serverVars
<1>4. ASSUME NEW c \in Clients, clientHook(c) \/ clientGone(c) PROVE IInv'
  <2>1. IsFiniteSet(connected')
    BY <1>2, <1>4 DEF clientHook, clientGone
  <2>2. \/ queue' = queue
        \/ mListener /\ \E y \in {"CONNECTED", "DISCONNECTED"} : queue' = Append(queue, y)
    BY <1>4 DEF clientHook, clientGone, postEventToUI
  <2>3. UNCHANGED <<mpc, requested, mListener, mBufferManager, mBound, mSurface>>
    BY <1>4 DEF clientHook, clientGone
  <2>4. CASE queue' = queue
    BY <1>1, <2>1, <2>3, <2>4, QuietInv
  <2>5. ASSUME mListener, NEW y \in {"CONNECTED", "DISCONNECTED"}, queue' = Append(queue, y)
        PROVE  IInv'
    <3>1. y \notin ActivityMessages
      BY DEF ActivityMessages
    <3>2. QED BY <1>1, <2>1, <2>3, <2>5, <3>1, PostedInv
  <2>6. QED BY <2>2, <2>4, <2>5
<1>5. QED BY <1>3, <1>4 DEF Worker

-----------------------------------------------------------------------------
(***************************************************************************)
(* The invariant                                                           *)
(***************************************************************************)

\* Before the first step nothing is in the queue and there is no service.
LEMMA InitInv == ShareInit => IInv
<1> SUFFICES ASSUME ShareInit PROVE IInv
  OBVIOUS
<1> USE DEF ShareInit, Init
<1>1. queue \in Queues /\ \A m : ~In(queue, m)
  BY DEF Queues, In
<1>2. \A m, M : NoneBehind(queue, m, M)
  BY DEF NoneBehind
<1>3. Types
  <2>1. IsFiniteSet(connected)
    BY FS_EmptySet
  <2>2. asked \in 0..MaxAsked /\ mCurrentRotation \in Rotations /\ serviceRotation \in Rotations
    BY MaxAskedAssumption, RotationsAssumption
  <2>3. heightOffset \in Orientations /\ config \in Orientations
    BY DEF Orientations, Orientation
  <2>4. queue \in Seq(Messages \cup ActivityMessages)
    BY <1>1 DEF Queues
  <2>5. QED BY <2>1, <2>2, <2>3, <2>4 DEF Types, ShareTypeOK
<1>4. InOrder /\ Life /\ Wanted
  BY <1>1, <1>2 DEF InOrder, Life, Wanted, Gone, Created
<1>5. Heard /\ Binding /\ Rotated
  BY <1>1, <1>2 DEF Heard, Told, Binding, Rotated
<1>6. QED BY <1>3, <1>4, <1>5 DEF IInv

\* Every step of ShareNext preserves the invariant.
LEMMA NextInv ==
  ASSUME IInv, [ShareNext]_allVars
  PROVE  IInv'
<1>1. CASE UNCHANGED allVars
  <2> USE <1>1 DEF allVars, vars, shareVars, activityVars, dialogVars, bindingVars, androidVars,
                   optionVars, projectionVars, serverVars
  <2>1. QED BY QuietInv DEF IInv, Types, ShareTypeOK, Binding
<1>2. CASE MainActivity
  BY <1>2, ResultInv, ConnectedInv, ConfigurationInv, DestroyActivityInv DEF MainActivity
<1>3. CASE MainService
  BY <1>3, CreateInv, BindInv, ClientInv, DiesInv, DestroyInv, StopInv DEF MainService
<1>4. CASE User
  BY <1>4, ToggleInv, LaunchInv, ConfigureInv, DialogInv DEF User
<1>5. CASE ShowDialog \/ ServiceConnected
  BY <1>5, DialogInv
<1>6. CASE (Worker \/ GrantWrite) /\ UNCHANGED shareVars
  BY <1>6, WorkerInv
<1>7. QED BY <1>1, <1>2, <1>3, <1>4, <1>5, <1>6 DEF ShareNext

\* The invariant always holds.
LEMMA AlwaysIInv == ShareSpec => []IInv
<1>1. ShareInit => IInv
  BY InitInv
<1>2. IInv /\ [ShareNext]_allVars => IInv'
  BY NextInv
<1>3. QED BY <1>1, <1>2, PTL DEF ShareSpec

-----------------------------------------------------------------------------
(***************************************************************************)
(* Theorems                                                                *)
(***************************************************************************)

\* The activity's, Android's and the renderer's variables have their types.
THEOREM ShareTypeCorrect == ShareSpec => []ShareTypeOK
<1>1. IInv => ShareTypeOK
  BY DEF IInv, Types
<1>2. QED BY <1>1, AlwaysIInv, PTL

\* When nothing is under way, a service that is bound is one the activity knows,
\* so that onToggleScreenShare will unbind it when it is switched off: also after
\* a switch-off that came before onServiceConnected, a recreation of the activity
\* and a second permission granted while the service runs.
THEOREM OffAlwaysStops == ShareSpec => []OffWillStop
<1>1. IInv => OffWillStop
  <2> SUFFICES ASSUME IInv, Settled, requested, bound PROVE mVncProjectionService
    BY DEF OffWillStop
  <2>1. \A m : ~In(queue, m)
    BY DEF Settled, In
  <2>2. Serving
    BY <2>1 DEF IInv, Wanted, Life, Gone, Created, Serving
  <2>3. QED BY <2>1, <2>2 DEF IInv, Heard, Told, Settled
<1>2. QED BY <1>1, AlwaysIInv, PTL

\* The reference the activity keeps is never one to a service that has been
\* destroyed or that has not handled its onBind.
THEOREM ReferenceIsNeverStale == ShareSpec => []NoStaleService
<1>1. IInv => NoStaleService
  <2> SUFFICES ASSUME IInv, mVncProjectionService PROVE alive /\ bound /\ requested /\ mBound
    BY DEF NoStaleService
  <2>1. bound /\ Serving
    BY DEF IInv, Heard, Told
  <2>2. QED BY <2>1 DEF IInv, Binding, Life, Serving
<1>2. QED BY <1>1, AlwaysIInv, PTL

\* The rotation the activity has read is the one the service and its renderer
\* work with, whichever of client, binding and rotation came first.
THEOREM RotationIsPassedOn == ShareSpec => []RotationPassedOn
<1>1. IInv => RotationPassedOn
  BY DEF IInv, Rotated, RotationPassedOn
<1>2. QED BY <1>1, AlwaysIInv, PTL

-----------------------------------------------------------------------------
(***************************************************************************)
(* The activity and Android drive the service as ProjectionService assumes *)
(***************************************************************************)

\* What the service sees of the queue, when a message is handled.
LEMMA HandledBySelected ==
  ASSUME Types, NEW m, Handles(m)
  PROVE  /\ m \in Messages => /\ ServiceMessages[queue] # <<>>
                              /\ Head(ServiceMessages[queue]) = m
                              /\ Tail(ServiceMessages[queue]) = ServiceMessages[Tail(queue)]
         /\ m \notin Messages => ServiceMessages[Tail(queue)] = ServiceMessages[queue]
<1>1. queue \in Queues /\ queue # <<>> /\ Head(queue) = m
  BY DEF Types, ShareTypeOK, Queues, Handles
<1>2. QED BY <1>1, SelectedHead

\* The steps the service does not see.
LEMMA Unseen ==
  ASSUME ServiceMessages[queue'] = ServiceMessages[queue],
         UNCHANGED <<mpc, requested, serviceVars>>
  PROVE  UNCHANGED Service!vars
BY DEF serviceVars, optionVars, projectionVars, settingVars, serverVars,
       Service!vars, Service!androidVars, Service!optionVars, Service!projectionVars,
       Service!settingVars, Service!serverVars

\* The handlers of the service
LEMMA ServiceStep ==
  ASSUME IInv, MainService
  PROVE  Service!Next
<1> DEFINE sq == ServiceMessages[queue]
<1>1. queue \in Queues /\ Types
  BY DEF IInv, Types, ShareTypeOK, Queues
<1>2. {"CREATE", "BIND", "DESTROY", "CONNECTED", "DISCONNECTED"} = Messages
  BY DEF Messages
<1>3. ASSUME NEW m \in Messages, Handles(m), queue' = Tail(queue)
      PROVE  Service!Handles(m) /\ ServiceMessages[queue'] = Tail(sq)
  <2>1. sq # <<>> /\ Head(sq) = m /\ Tail(sq) = ServiceMessages[Tail(queue)]
    BY <1>1, <1>3, HandledBySelected
  <2>2. QED BY <1>3, <2>1 DEF Handles, Service!Handles
<1> USE DEF serviceVars, optionVars, projectionVars, settingVars, serverVars, androidVars,
       Service!androidVars, Service!optionVars, Service!projectionVars,
       Service!settingVars, Service!serverVars
<1>4. CASE CreateService
  BY <1>2, <1>3, <1>4 DEF CreateService, onCreate, Service!onCreate, Service!Main, Service!Next
<1>5. ASSUME NEW wanted \in [SettingNames -> BOOLEAN], NEW allocated \in BOOLEAN,
             BindService(wanted, allocated)
      PROVE  Service!Next
  <2>1. Service!onBind(wanted, allocated)
    BY <1>2, <1>3, <1>5 DEF BindService, onBind, Service!onBind
  <2>2. QED BY <2>1 DEF Service!Main, Service!Next
<1>6. CASE ClientConnected
  <2>1. Service!handleConnected
    BY <1>2, <1>3, <1>6 DEF ClientConnected, handleConnected, startProjection, dimAndRotate, set,
       needsBuffers, Service!handleConnected, Service!startProjection, Service!dimAndRotate,
       Service!set, Service!needsBuffers
  <2>2. QED BY <2>1 DEF Service!Main, Service!Next
<1>7. CASE ProcessDies
  <2>1. sq # <<>> /\ Head(sq) = "CONNECTED"
    BY <1>1, <1>2, <1>7, HandledBySelected DEF ProcessDies, crashConnected
  <2>2. ServiceMessages[queue'] = <<>>
    BY <1>1, <1>7, SelectedHead DEF ProcessDies, crashConnected
  <2>3. Service!crashConnected
    BY <1>7, <2>1, <2>2 DEF ProcessDies, crashConnected, needsBuffers, Handles,
       Service!crashConnected, Service!needsBuffers, Service!Handles
  <2>4. QED BY <2>3 DEF Service!Main, Service!Next
<1>8. CASE DestroyService
  <2>1. Service!onDestroy
    BY <1>2, <1>3, <1>8 DEF DestroyService, onDestroy, stopProjection, Service!onDestroy,
       Service!stopProjection
  <2>2. QED BY <2>1 DEF Service!Main, Service!Next
<1>9. CASE handleDisconnected
  <2>1. Service!handleDisconnected
    BY <1>2, <1>3, <1>9 DEF handleDisconnected, stopProjection, set, Service!handleDisconnected,
       Service!stopProjection, Service!set
  <2>2. QED BY <2>1 DEF Service!Main, Service!Next
<1>10. CASE stopServer
  <2>1. PICK n \in Nat : n = Cardinality(connected)
    BY <1>1, FS_CardinalityType DEF Types
  <2>2. PICK r : r = [k \in 1..n |-> "DISCONNECTED"]
    OBVIOUS
  <2>3. r \in Seq(Messages)
    BY <2>2 DEF Messages
  <2>4. r \in Queues /\ ServiceMessages[r] = r
    BY <2>3, SelectedAll
  <2>5. ServiceMessages[queue \o r] = ServiceMessages[queue] \o r
    BY <1>1, <2>4, SelectedJoin
  <2>6. Service!stopServer
    <3>1. ServiceMessages[queue'] =
            IF mListener
              THEN ServiceMessages[queue] \o [k \in 1..Cardinality(connected) |-> "DISCONNECTED"]
              ELSE ServiceMessages[queue]
      <4>1. queue' = IF mListener THEN queue \o r ELSE queue
        BY <1>10, <2>1, <2>2 DEF stopServer
      <4>2. CASE mListener
        BY <2>1, <2>2, <2>5, <4>1, <4>2
      <4>3. CASE ~mListener
        BY <4>1, <4>3
      <4>4. QED BY <4>2, <4>3
    <3>2. Service!Cardinality(connected) = Cardinality(connected)
      BY DEF Service!Cardinality, Cardinality
    <3>3. QED BY <1>10, <3>1, <3>2 DEF stopServer, Service!stopServer
  <2>7. QED BY <2>6 DEF Service!Main, Service!Next
<1>11. QED BY <1>4, <1>5, <1>6, <1>7, <1>8, <1>9, <1>10 DEF MainService

\* A message that is put at the end of the queue.
LEMMA PostedSelected ==
  ASSUME Types, NEW y \in Messages \cup ActivityMessages, queue' = Append(queue, y)
  PROVE  ServiceMessages[queue'] =
           IF y \in Messages THEN Append(ServiceMessages[queue], y) ELSE ServiceMessages[queue]
BY SelectedLast DEF Types, ShareTypeOK, Queues

\* Switched off, or destroyed, the activity stops the service or leaves it alone.
LEMMA StopStep ==
  ASSUME Types, NEW q \in Queues, BringDownIfUnneeded(q), mpc = "idle",
         ServiceMessages[q] = ServiceMessages[queue], UNCHANGED <<mpc, serviceVars>>
  PROVE  [Service!Next]_(Service!vars)
<1>1. CASE requested /\ ~bound' /\ ~started'
  <2>1. requested' = FALSE /\ queue' = Append(q, "DESTROY")
    BY <1>1 DEF BringDownIfUnneeded
  <2>2. "DESTROY" \in Messages
    BY DEF Messages
  <2>3. ServiceMessages[queue'] = Append(ServiceMessages[queue], "DESTROY")
    BY <2>1, <2>2, SelectedLast
  <2>4. Service!RequestStop
    BY <1>1, <2>1, <2>3 DEF serviceVars, optionVars, projectionVars, settingVars, serverVars,
       Service!RequestStop, Service!optionVars, Service!projectionVars, Service!settingVars,
       Service!serverVars
  <2>5. QED BY <2>4 DEF Service!Android, Service!Next
<1>2. CASE ~(requested /\ ~bound' /\ ~started')
  <2>1. requested' = requested /\ queue' = q
    BY <1>2 DEF BringDownIfUnneeded
  <2>2. QED BY <2>1, Unseen
<1>3. QED BY <1>1, <1>2

\* The handlers of the activity
LEMMA ActivityStep ==
  ASSUME IInv, MainActivity
  PROVE  [Service!Next]_(Service!vars)
<1>1. queue \in Queues /\ Types
  BY DEF IInv, Types, ShareTypeOK, Queues
<1>2. \A m \in ActivityMessages : m \notin Messages
  BY DEF ActivityMessages, Messages
<1>3. {"GRANTED", "BOUND", "CONFIG", "FINISH", "RECREATE"} = ActivityMessages
  BY DEF ActivityMessages
<1>4. ASSUME NEW m \in ActivityMessages, Handles(m)
      PROVE  /\ ServiceMessages[Tail(queue)] = ServiceMessages[queue] /\ mpc = "idle"
             /\ Tail(queue) \in Queues /\ ServiceMessages[Tail(queue)] \in Seq(Messages)
             /\ Head(queue) = m /\ queue # <<>>
  <2>1. queue # <<>> /\ mpc = "idle" /\ Head(queue) = m
    BY <1>4 DEF Handles
  <2>2. Tail(queue) \in Queues
    BY <1>1, <2>1, InTail
  <2>3. QED BY <1>1, <1>2, <1>4, <2>1, <2>2, HandledBySelected, SelectedHead
<1>5. CASE onServiceConnected
  BY <1>3, <1>4, <1>5, Unseen DEF onServiceConnected
<1>6. CASE onConfigurationChanged
  BY <1>3, <1>4, <1>6, Unseen DEF onConfigurationChanged
<1>7. ASSUME NEW how \in {"FINISH", "RECREATE"}, DestroyActivity(how)
      PROVE  [Service!Next]_(Service!vars)
  <2>1. PICK s : s = ServiceMessages[Tail(queue)]
    OBVIOUS
  <2>2. Handles(how) /\ BringDownIfUnneeded(s) /\ UNCHANGED <<mpc, serviceVars>>
    BY <1>7, <2>1 DEF DestroyActivity
  <2>3. s \in Seq(Messages) /\ s = ServiceMessages[queue] /\ mpc = "idle"
    BY <1>3, <1>4, <2>1, <2>2
  <2>4. s \in Queues /\ ServiceMessages[s] = s
    BY <2>3, SelectedAll
  <2>5. QED BY <1>1, <2>2, <2>3, <2>4, StopStep
<1>8. CASE onActivityResult
  <2>1. /\ Handles("GRANTED") /\ requested' = TRUE /\ UNCHANGED <<mpc, serviceVars>>
        /\ queue' = Tail(queue) \o IF requested THEN <<>> ELSE <<"CREATE", "BIND">>
    BY <1>8 DEF onActivityResult
  <2>2. /\ ServiceMessages[Tail(queue)] = ServiceMessages[queue] /\ mpc = "idle"
        /\ Tail(queue) \in Queues /\ Head(queue) = "GRANTED" /\ queue # <<>>
    BY <1>3, <1>4, <2>1
  <2>3. CASE requested
    <3>1. Tail(queue) \o <<>> = Tail(queue)
      BY <2>2 DEF Queues
    <3>2. ServiceMessages[queue'] = ServiceMessages[queue] /\ requested' = requested
      BY <1>1, <2>1, <2>2, <2>3, <3>1 DEF Types
    <3>3. QED BY <2>1, <3>2, Unseen
  <2>4. CASE ~requested
    <3>1. PICK r : r = <<"CREATE", "BIND">>
      OBVIOUS
    <3>2. r \in Seq(Messages)
      BY <3>1 DEF Messages
    <3>3. r \in Queues /\ ServiceMessages[r] = r
      BY <3>2, SelectedAll
    <3>4. ServiceMessages[queue'] = ServiceMessages[queue] \o <<"CREATE", "BIND">>
      BY <2>1, <2>2, <2>4, <3>1, <3>3, SelectedJoin
    <3>5. ~In(queue, "DESTROY")
      <4>1. PICK q \in Queues : q = queue
        BY <1>1
      <4>2. "DESTROY" \in {"DESTROY"} /\ NoneBehind(q, "GRANTED", {"DESTROY"})
        BY <4>1 DEF IInv, InOrder
      <4>3. ~In(Tail(q), "DESTROY")
        BY <2>2, <4>1, <4>2, InTail
      <4>4. QED BY <2>2, <4>1, <4>3, InTail
    <3>6. ~In(ServiceMessages[queue], "DESTROY")
      BY <1>1, <3>5, InSelected DEF Messages
    <3>7. Service!RequestBind
      BY <2>1, <2>2, <2>4, <3>4, <3>6 DEF In, serviceVars, optionVars, projectionVars,
         settingVars, serverVars, Service!RequestBind, Service!Queued, Service!optionVars,
         Service!projectionVars, Service!settingVars, Service!serverVars
    <3>8. QED BY <3>7 DEF Service!Android, Service!Next
  <2>5. QED BY <2>3, <2>4
<1>9. QED BY <1>5, <1>6, <1>7, <1>8 DEF MainActivity

\* The user
LEMMA UserStep ==
  ASSUME IInv, User \/ ShowDialog \/ ServiceConnected
  PROVE  [Service!Next]_(Service!vars)
<1>1. queue \in Queues /\ Types
  BY DEF IInv, Types, ShareTypeOK, Queues
<1>2. ASSUME NEW y \in ActivityMessages, queue' = Append(queue, y)
      PROVE  ServiceMessages[queue'] = ServiceMessages[queue]
  <2>1. y \notin Messages /\ y \in Messages \cup ActivityMessages
    BY DEF ActivityMessages, Messages
  <2>2. QED BY <1>1, <1>2, <2>1, PostedSelected
<1>3. {"GRANTED", "BOUND", "CONFIG", "FINISH", "RECREATE"} = ActivityMessages
  BY DEF ActivityMessages
<1>4. CASE ToggleOn \/ ShowDialog
  BY <1>4, Unseen DEF ToggleOn, ShowDialog, vars, androidVars, serviceVars
<1>5. CASE ToggleOff
  BY <1>1, <1>5, StopStep DEF ToggleOff, CanClick
<1>6. CASE LaunchActivity
  <2>1. CASE Relaunch
    <3>1. Service!Relaunch
      BY <2>1 DEF Relaunch, Service!Relaunch, androidVars, optionVars, projectionVars,
         settingVars, serverVars, Service!androidVars, Service!optionVars,
         Service!projectionVars, Service!settingVars, Service!serverVars
    <3>2. QED BY <3>1 DEF Service!Android, Service!Next
  <2>2. CASE UNCHANGED vars
    BY <2>2, Unseen DEF vars, androidVars, serviceVars
  <2>3. QED BY <1>6, <2>1, <2>2 DEF LaunchActivity
<1>7. ASSUME NEW v, NEW r, Configure(v, r), UNCHANGED <<mpc, requested, serviceVars>>
      PROVE  [Service!Next]_(Service!vars)
  <2>1. queue' = queue \/ queue' = Append(queue, "CONFIG")
    BY <1>7 DEF Configure
  <2>2. ServiceMessages[queue'] = ServiceMessages[queue]
    BY <1>2, <1>3, <2>1
  <2>3. QED BY <1>7, <2>2, Unseen
<1>8. CASE Switch
  BY <1>7, <1>8 DEF Switch
<1>9. ASSUME NEW r \in Rotations, Rotate(r) PROVE [Service!Next]_(Service!vars)
  BY <1>7, <1>9 DEF Rotate
<1>10. ASSUME NEW granted \in BOOLEAN, Answer(granted) PROVE [Service!Next]_(Service!vars)
  <2>1. ServiceMessages[queue'] = ServiceMessages[queue]
    BY <1>2, <1>3, <1>10 DEF Answer
  <2>2. QED BY <1>10, <2>1, Unseen DEF Answer
<1>11. ASSUME NEW how \in {"FINISH", "RECREATE"}, Leave(how) PROVE [Service!Next]_(Service!vars)
  BY <1>2, <1>3, <1>11, Unseen DEF Leave
<1>12. CASE ServiceConnected
  BY <1>2, <1>3, <1>12, Unseen DEF ServiceConnected
<1>13. QED BY <1>4, <1>5, <1>6, <1>8, <1>9, <1>10, <1>11, <1>12 DEF User

\* The worker, and the permission to change the settings
LEMMA WorkerStep ==
  ASSUME IInv, Worker \/ GrantWrite
  PROVE  Service!Next
<1>1. queue \in Queues /\ Types
  BY DEF IInv, Types, ShareTypeOK, Queues
<1> USE DEF optionVars, projectionVars, settingVars, serverVars, androidVars,
       Service!androidVars, Service!optionVars, Service!projectionVars,
       Service!settingVars, Service!serverVars
<1>2. CASE WorkerExits
  BY <1>2 DEF WorkerExits, Service!WorkerExits, Service!Worker, Service!Next
<1>3. CASE GrantWrite
  BY <1>3 DEF GrantWrite, Service!GrantWrite, Service!Android, Service!Next
<1>4. ASSUME NEW what \in {"CONNECTED", "DISCONNECTED"}, postEventToUI(what)
      PROVE  Service!postEventToUI(what)
  <2>1. what \in Messages
    BY DEF Messages
  <2>2. CASE mListener
    BY <1>1, <1>4, <2>1, <2>2, PostedSelected DEF postEventToUI, Service!postEventToUI
  <2>3. CASE ~mListener
    BY <1>4, <2>3 DEF postEventToUI, Service!postEventToUI
  <2>4. QED BY <2>2, <2>3
<1>5. ASSUME NEW c \in Clients, clientHook(c) PROVE Service!Next
  <2>1. Len(ServiceMessages[queue]) < MaxQueue
    <3>1. PICK s \in Seq(Messages) : s = ServiceMessages[queue]
      BY <1>1, SelectedHead
    <3>2. Len(s) \in Nat /\ Len(queue) \in Nat /\ Len(s) <= Len(queue)
      BY <1>1, <3>1, SelectedShorter DEF Queues
    <3>3. Len(queue) < MaxQueue
      BY <1>5 DEF clientHook
    <3>4. QED BY <3>1, <3>2, <3>3, MaxQueueAssumption
  <2>2. Service!clientHook(c)
    BY <1>4, <1>5, <2>1 DEF clientHook, Service!clientHook
  <2>3. QED BY <2>2 DEF Service!Worker, Service!Next
<1>6. ASSUME NEW c \in Clients, clientGone(c) PROVE Service!Next
  <2>1. Service!clientGone(c)
    BY <1>4, <1>6 DEF clientGone, Service!clientGone
  <2>2. QED BY <2>1 DEF Service!Worker, Service!Next
<1>7. QED BY <1>2, <1>3, <1>5, <1>6 DEF Worker

\* Seen from the service, its queue being the messages that are for it, the
\* activity, the user and Android do what ProjectionService assumes: one onCreate
\* and one onBind for each instance, onDestroy after them, and no new instance
\* before the old one has handled its onDestroy.
THEOREM DrivesTheService == ShareSpec => ServiceSpec
<1>1. ShareInit => Service!Init
  <2> SUFFICES ASSUME ShareInit PROVE Service!Init
    OBVIOUS
  <2>1. ServiceMessages[queue] = <<>>
    <3>1. <<>> \in Queues
      BY DEF Queues
    <3>2. queue = <<>>
      BY DEF ShareInit, Init
    <3>3. QED BY <3>1, <3>2, SelectedHead
  <2>2. QED BY <2>1 DEF ShareInit, Init, Service!Init
<1>2. IInv /\ [ShareNext]_allVars => [Service!Next]_(Service!vars)
  <2> SUFFICES ASSUME IInv, [ShareNext]_allVars PROVE [Service!Next]_(Service!vars)
    OBVIOUS
  <2>1. CASE UNCHANGED allVars
    BY <2>1, Unseen DEF allVars, vars, androidVars, serviceVars
  <2>2. CASE MainActivity
    BY <2>2, ActivityStep
  <2>3. CASE MainService
    BY <2>3, ServiceStep
  <2>4. CASE User \/ ShowDialog \/ ServiceConnected
    BY <2>4, UserStep
  <2>5. CASE Worker \/ GrantWrite
    BY <2>5, WorkerStep
  <2>6. QED BY <2>1, <2>2, <2>3, <2>4, <2>5 DEF ShareNext
<1>3. QED BY <1>1, <1>2, AlwaysIInv, PTL DEF ShareSpec, ServiceSpec

=============================================================================
