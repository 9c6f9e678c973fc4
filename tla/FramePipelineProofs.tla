------------------------ MODULE FramePipelineProofs ------------------------
(***************************************************************************)
(* Proofs, for every set of clients and every number of pictures, of the   *)
(* safety properties of FramePipeline and of its refinement of the         *)
(* one-slot mailbox.                                                       *)
(***************************************************************************)
EXTENDS FramePipeline, TLAPS

\* No buffer plays two roles; without a compare buffer the roles are played by
\* the three buffers that exist.
Roles ==
  /\ mConsumer # mProducer /\ mConsumer # mClean /\ mProducer # mClean
  /\ mCompare \notin {mConsumer, mProducer, mClean}
  /\ mMode = "TRIPLE" => mCompare = 3

\* While a worker exists the cached pointers of VncServer agree with the roles
\* in the manager, and so does the renderer's target while it is projecting.
Pointers ==
  /\ wpc # "none" =>
       /\ mBound /\ mBuffers = BuffersOf(mMode)
       /\ mVncBuffer = mConsumer
       /\ mCmpBuffer = IF mMode = "WITH_COMPARE" THEN mCompare ELSE NULL
  /\ projecting => wpc # "none" /\ mGlBuffer = mProducer

\* Where the two threads can be at the same time.
Control ==
  /\ mpc \in {"draw", "swap", "notify"} => projecting
  /\ mpc \in {"start", "join"} => ~projecting /\ mBound
  /\ mpc = "start" => wpc = "none" /\ mBuffers = BuffersOf(mMode)
  /\ wpc = "mark" => mCmpBuffer = NULL
  /\ wpc \in {"cmpLock", "compare"} => mCmpBuffer # NULL
  /\ mFrameAvailableLock = "worker" <=> wpc \in {"unlock", "get", "lock"}
  /\ wpc \in {"unlock", "get", "lock"} => ~mFrameAvailable

\* Without a worker there is nothing to serve and nothing pending.
Stopped ==
  wpc = "none" =>
    /\ mVncBuffer = NULL /\ mCmpBuffer = NULL /\ frameBuffer = NULL
    /\ ~mFrameAvailable /\ published = 0 /\ ~fresh /\ clients = {}
    /\ \A b \in Buffers : content[b] = Blank

\* Only the producer's buffer is ever incomplete, and only while it is drawn;
\* after that it holds the newest picture.
Contents ==
  /\ \A b \in Buffers : content[b] = Torn => mpc = "draw" /\ b = mProducer
  /\ mpc = "swap" => content[mProducer] = drawn /\ published < drawn
  /\ published <= drawn
  /\ mpc = "draw" => drawn < MaxFrames

\* Where the newest picture is.  Once it is taken one more take may be under
\* way, and only that one can move it out of the served buffer.
Newest ==
  /\ fresh => published # 0
  /\ ~fresh => outstandingNow <= 1
  /\ published # 0 =>
       IF fresh THEN content[mClean] = published
       ELSE \/ content[mConsumer] = published
            \/ /\ outstandingNow = 0
               /\ content[IF mMode = "TRIPLE" THEN mClean ELSE mCompare] = published

\* While an exchange is not yet marked, the compare buffer is what a client
\* with an empty modifiedRegion has.
Served ==
  wpc \in {"lock", "cmpLock", "compare"} /\ mCmpBuffer # NULL =>
    \A c \in clients : modifiedRegion[c] \/ shown[c] = content[mCmpBuffer]

Structure == Roles /\ Pointers /\ Control /\ Stopped
PicturesInv == Contents /\ Newest
ClientsInv == Served /\ ClientsUpToDate

\* The inductive invariant.
IInv == TypeOK /\ Structure /\ LockDiscipline /\ PicturesInv /\ ClientsInv

USE MaxFramesAssumption, NULLAssumption
USE DEF bmVars, serverVars, rendererVars, clientVars, historyVars, WorkerGoes

-----------------------------------------------------------------------------
\* No step of startServer, stopServer, the renderer or the worker leaves the
\* types.
LEMMA TypeOKStep == IInv /\ [Next]_vars => TypeOK'
<1>. USE DEF IInv, TypeOK, BMTypeOK, WorkerPC, MainPC
<1>1. ASSUME NEW mode \in MODE, NEW n \in 0..4,
         IInv, StartServer(mode, 0..(n - 1))
      PROVE  TypeOK'
  <2>1. BMTypeOK'
    BY <1>1 DEF StartServer, Allocate, MODE, Buffers, BuffersOf
  <2>2. mBound' \in BOOLEAN /\ mpc' \in MainPC
    BY <1>1 DEF StartServer
  <2>3. /\ UNCHANGED <<mVncBuffer, mCmpBuffer, mGlBuffer, frameBuffer, mFrameAvailable>>
        /\ UNCHANGED <<mTerminated, mFrameAvailableLock, wpc, content, locked, projecting>>
        /\ UNCHANGED <<clients, modifiedRegion, requestedRegion, shown, drawn, published, fresh>>
    BY <1>1 DEF StartServer
  <2>4. TypeOK
    BY <1>1 DEF IInv
  <2>. HIDE DEF BMTypeOK, IInv
  <2>. QED BY <2>1, <2>2, <2>3, <2>4
<1>2. IInv /\ RunServer => TypeOK'
  BY DEF RunServer, TakeConsumer, GetConsumer
<1>3. IInv /\ StartProjection => TypeOK'
  <2>. SUFFICES ASSUME IInv, StartProjection PROVE TypeOK'  OBVIOUS
  <2>1. BMTypeOK' /\ mGlBuffer' \in Buffers
    BY DEF StartProjection, InitGL, BindNextProducerBuffer, GetProducer
  <2>2. published' \in 0..MaxFrames
    BY DEF StartProjection
  <2>3. projecting' \in BOOLEAN /\ fresh' \in BOOLEAN
    BY DEF StartProjection
  <2>4. /\ UNCHANGED <<mVncBuffer, mCmpBuffer, frameBuffer, mFrameAvailable, mTerminated>>
        /\ UNCHANGED <<mFrameAvailableLock, wpc, mpc, content, locked, mBound>>
        /\ UNCHANGED <<clients, modifiedRegion, requestedRegion, shown, drawn>>
    BY DEF StartProjection
  <2>. HIDE DEF BMTypeOK
  <2>. QED BY <2>1, <2>2, <2>3, <2>4
<1>4. IInv /\ StopProjection => TypeOK'
  <2>. SUFFICES ASSUME IInv, StopProjection PROVE TypeOK'  OBVIOUS
  <2>1. BMTypeOK'
    BY DEF StopProjection
  <2>2. projecting' \in BOOLEAN
    BY DEF StopProjection
  <2>3. /\ UNCHANGED <<mVncBuffer, mCmpBuffer, mGlBuffer, frameBuffer, mFrameAvailable>>
        /\ UNCHANGED <<mTerminated, mFrameAvailableLock, wpc, mpc, content, locked, mBound>>
        /\ UNCHANGED <<clients, modifiedRegion, requestedRegion, shown, drawn, published, fresh>>
    BY DEF StopProjection
  <2>. HIDE DEF BMTypeOK
  <2>. QED BY <2>1, <2>2, <2>3
<1>5. IInv /\ BeginDraw => TypeOK'
  <2>1. IInv /\ BeginDraw => content' \in [Buffers -> Pictures]
    BY DEF BeginDraw, Pictures, Torn
  <2>. QED BY <2>1 DEF BeginDraw
<1>6. IInv /\ FinishDraw => TypeOK'
  <2>1. IInv /\ FinishDraw => drawn' \in 0..MaxFrames
    BY DEF FinishDraw, PicturesInv, Contents
  <2>2. IInv /\ FinishDraw => content' \in [Buffers -> Pictures]
    BY <2>1 DEF FinishDraw, Pictures
  <2>. QED BY <2>1, <2>2 DEF FinishDraw
<1>7. IInv /\ SwapBuffers => TypeOK'
  BY DEF SwapBuffers, BindNextProducerBuffer, GetProducer
<1>8. IInv /\ FrameAvailable => TypeOK'
  BY DEF FrameAvailable
<1>9. IInv /\ StopServer => TypeOK'
  BY DEF StopServer
<1>10. IInv /\ Cleanup => TypeOK'
  <2>1. Cleanup => content' \in [Buffers -> Pictures] /\ shown' \in [Clients -> Pictures]
    BY DEF Cleanup, Pictures, Blank
  <2>2. 0 \in 0..MaxFrames
    OBVIOUS
  <2>. QED BY <2>1, <2>2 DEF Cleanup, Release
<1>11. IInv /\ WorkerLoop => TypeOK'
  BY DEF WorkerLoop
<1>12. IInv /\ FdsIdle => TypeOK'
  BY DEF FdsIdle
<1>13. ASSUME NEW gone \in SUBSET Clients, IInv, UpdateClients(gone)
      PROVE  TypeOK'
  BY <1>13 DEF UpdateClients, Pictures, Blank, Structure, Pointers, LockDiscipline
<1>14. IInv /\ NoFrame => TypeOK'
  BY DEF NoFrame
<1>15. IInv /\ FrameFound => TypeOK'
  BY DEF FrameFound
<1>16. IInv /\ UnlockBuffer => TypeOK'
  BY DEF UnlockBuffer
<1>17. IInv /\ TakeFrame => TypeOK'
  BY DEF TakeFrame, TakeConsumer, GetConsumer
<1>18. IInv /\ LockBuffer => TypeOK'
  BY DEF LockBuffer, Structure, Pointers
<1>19. IInv /\ MarkScreen => TypeOK'
  BY DEF MarkScreen, Mark
<1>20. IInv /\ LockCmpBuffer => TypeOK'
  BY DEF LockCmpBuffer, Structure, Control
<1>21. IInv /\ Compare => TypeOK'
  <2>1. IInv /\ Compare => modifiedRegion' \in [Clients -> BOOLEAN]
    BY DEF Compare, Mark
  <2>. QED BY <2>1 DEF Compare
<1>22. ASSUME NEW c \in Clients, IInv, NewClient(c)
      PROVE  TypeOK'
  BY <1>22 DEF NewClient, Pictures, Blank
<1>23. ASSUME NEW c \in Clients, NEW incremental \in BOOLEAN,
         IInv, UpdateRequest(c, incremental)
      PROVE  TypeOK'
  BY <1>23 DEF UpdateRequest
<1>24. IInv /\ UNCHANGED vars => TypeOK'
  BY DEF vars
<1>. QED BY <1>1, <1>2, <1>3, <1>4, <1>5, <1>6, <1>7, <1>8, <1>9, <1>10, <1>11,
       <1>12, <1>13, <1>14, <1>15, <1>16, <1>17, <1>18, <1>19, <1>20, <1>21, <1>22,
       <1>23, <1>24 DEF Next, Main, Worker, ClientInput

-----------------------------------------------------------------------------
\* Roles, cached pointers and control states stay consistent.
LEMMA StructureStep == IInv /\ [Next]_vars => Structure'
<1>. USE DEF IInv, TypeOK, BMTypeOK, Buffers, MODE, BuffersOf, Blank,
           Structure, Roles, Pointers, Control, Stopped
<1>1. ASSUME NEW mode \in MODE, NEW n \in 0..4,
         IInv, StartServer(mode, 0..(n - 1))
      PROVE  Structure'
  BY <1>1 DEF StartServer, Allocate
<1>2. IInv /\ RunServer => Structure'
  BY DEF RunServer, TakeConsumer, GetConsumer
<1>3. IInv /\ StartProjection => Structure'
  BY DEF StartProjection, InitGL, BindNextProducerBuffer, GetProducer
<1>4. IInv /\ StopProjection => Structure'
  BY DEF StopProjection
<1>5. IInv /\ BeginDraw => Structure'
  BY DEF BeginDraw
<1>6. IInv /\ FinishDraw => Structure'
  BY DEF FinishDraw
<1>7. IInv /\ SwapBuffers => Structure'
  BY DEF SwapBuffers, BindNextProducerBuffer, GetProducer
<1>8. IInv /\ FrameAvailable => Structure'
  BY DEF FrameAvailable
<1>9. IInv /\ StopServer => Structure'
  BY DEF StopServer
<1>10. IInv /\ Cleanup => Structure'
  BY DEF Cleanup, Release
<1>11. IInv /\ WorkerLoop => Structure'
  BY DEF WorkerLoop
<1>12. IInv /\ FdsIdle => Structure'
  BY DEF FdsIdle
<1>13. ASSUME NEW gone \in SUBSET Clients, IInv, UpdateClients(gone)
      PROVE  Structure'
  BY <1>13 DEF UpdateClients
<1>14. IInv /\ NoFrame => Structure'
  BY DEF NoFrame
<1>15. IInv /\ FrameFound => Structure'
  BY DEF FrameFound
<1>16. IInv /\ UnlockBuffer => Structure'
  BY DEF UnlockBuffer
<1>17. IInv /\ TakeFrame => Structure'
  BY DEF TakeFrame, TakeConsumer, GetConsumer
<1>18. IInv /\ LockBuffer => Structure'
  BY DEF LockBuffer
<1>19. IInv /\ MarkScreen => Structure'
  BY DEF MarkScreen, Mark
<1>20. IInv /\ LockCmpBuffer => Structure'
  BY DEF LockCmpBuffer
<1>21. IInv /\ Compare => Structure'
  BY DEF Compare, Mark
<1>22. ASSUME NEW c \in Clients, IInv, NewClient(c)
      PROVE  Structure'
  BY <1>22 DEF NewClient
<1>23. IInv /\ (\E c \in Clients, incremental \in BOOLEAN : UpdateRequest(c, incremental))
         => Structure'
  BY DEF UpdateRequest
<1>24. IInv /\ UNCHANGED vars => Structure'
  BY DEF vars
<1>. QED BY <1>1, <1>2, <1>3, <1>4, <1>5, <1>6, <1>7, <1>8, <1>9, <1>10, <1>11,
       <1>12, <1>13, <1>14, <1>15, <1>16, <1>17, <1>18, <1>19, <1>20, <1>21, <1>22,
       <1>23, <1>24 DEF Next, Main, Worker, ClientInput

-----------------------------------------------------------------------------
\* Locks and unlocks stay paired.
LEMMA LocksStep == IInv /\ [Next]_vars => LockDiscipline'
<1>. USE DEF IInv, TypeOK, BMTypeOK, MODE, Structure, Roles, Pointers, Control,
           Stopped, LockDiscipline
<1>1. IInv /\ RunServer => LockDiscipline'
  BY DEF RunServer, TakeConsumer, GetConsumer
<1>2. IInv /\ Cleanup => LockDiscipline'
  BY DEF Cleanup, Release
<1>3. IInv /\ WorkerLoop => LockDiscipline'
  BY DEF WorkerLoop
<1>4. IInv /\ FdsIdle => LockDiscipline'
  BY DEF FdsIdle
<1>5. ASSUME NEW gone \in SUBSET Clients, IInv, UpdateClients(gone)
      PROVE  LockDiscipline'
  BY <1>5 DEF UpdateClients
<1>6. IInv /\ NoFrame => LockDiscipline'
  BY DEF NoFrame
<1>7. IInv /\ FrameFound => LockDiscipline'
  BY DEF FrameFound
<1>8. IInv /\ UnlockBuffer => LockDiscipline'
  BY DEF UnlockBuffer
<1>9. IInv /\ TakeFrame => LockDiscipline'
  BY DEF TakeFrame, TakeConsumer, GetConsumer
<1>10. IInv /\ LockBuffer => LockDiscipline'
  BY DEF LockBuffer
<1>11. IInv /\ MarkScreen => LockDiscipline'
  BY DEF MarkScreen, Mark
<1>12. IInv /\ LockCmpBuffer => LockDiscipline'
  BY DEF LockCmpBuffer
<1>13. IInv /\ Compare => LockDiscipline'
  BY DEF Compare, Mark
<1>14. IInv /\ (\/ (\E mode \in MODE, n \in 0..4 : StartServer(mode, 0..(n - 1)))
                \/ StartProjection
                \/ StopProjection
                \/ BeginDraw
                \/ FinishDraw
                \/ SwapBuffers
                \/ FrameAvailable
                \/ StopServer
                \/ (\E c \in Clients : NewClient(c))
                \/ (\E c \in Clients, incremental \in BOOLEAN : UpdateRequest(c, incremental)))
          => LockDiscipline'
  BY DEF StartServer, StartProjection, StopProjection, BeginDraw, FinishDraw,
         SwapBuffers, FrameAvailable, StopServer, NewClient, UpdateRequest,
         Allocate, InitGL, BindNextProducerBuffer, GetProducer
<1>15. IInv /\ UNCHANGED vars => LockDiscipline'
  BY DEF vars
<1>. QED BY <1>1, <1>2, <1>3, <1>4, <1>5, <1>6, <1>7, <1>8, <1>9, <1>10, <1>11,
       <1>12, <1>13, <1>14, <1>15 DEF Next, Main, Worker, ClientInput

-----------------------------------------------------------------------------
\* Only the producer's buffer is ever incomplete, and the newest picture is kept.
LEMMA PicturesStep == IInv /\ [Next]_vars => PicturesInv'
<1>. USE DEF IInv, TypeOK, BMTypeOK, Buffers, MODE, BuffersOf, Pictures, Blank,
           Torn, outstandingNow, Structure, Roles, Pointers, Control, Stopped,
           PicturesInv, Contents, Newest
<1>1. ASSUME NEW mode \in MODE, NEW n \in 0..4,
         IInv, StartServer(mode, 0..(n - 1))
      PROVE  PicturesInv'
  BY <1>1 DEF StartServer, Allocate
<1>2. IInv /\ RunServer => PicturesInv'
  BY DEF RunServer, TakeConsumer, GetConsumer
<1>3. IInv /\ StartProjection => PicturesInv'
  BY DEF StartProjection, InitGL, BindNextProducerBuffer, GetProducer
<1>4. IInv /\ BeginDraw => PicturesInv'
  BY DEF BeginDraw
<1>5. IInv /\ FinishDraw => PicturesInv'
  BY DEF FinishDraw
<1>6. IInv /\ SwapBuffers => PicturesInv'
  BY DEF SwapBuffers, BindNextProducerBuffer, GetProducer
<1>7. IInv /\ FrameAvailable => PicturesInv'
  BY DEF FrameAvailable
<1>8. IInv /\ StopServer => PicturesInv'
  BY DEF StopServer
<1>9. IInv /\ Cleanup => PicturesInv'
  BY DEF Cleanup, Release
<1>10. IInv /\ WorkerLoop => PicturesInv'
  BY DEF WorkerLoop
<1>11. IInv /\ FdsIdle => PicturesInv'
  BY DEF FdsIdle
<1>12. ASSUME NEW gone \in SUBSET Clients, IInv, UpdateClients(gone)
      PROVE  PicturesInv'
  BY <1>12 DEF UpdateClients
<1>13. IInv /\ NoFrame => PicturesInv'
  BY DEF NoFrame
<1>14. IInv /\ FrameFound => PicturesInv'
  BY DEF FrameFound
<1>15. IInv /\ UnlockBuffer => PicturesInv'
  BY DEF UnlockBuffer
<1>16. IInv /\ TakeFrame => PicturesInv'
  BY DEF TakeFrame, TakeConsumer, GetConsumer
<1>17. IInv /\ LockBuffer => PicturesInv'
  BY DEF LockBuffer
<1>18. IInv /\ MarkScreen => PicturesInv'
  BY DEF MarkScreen, Mark
<1>19. IInv /\ LockCmpBuffer => PicturesInv'
  BY DEF LockCmpBuffer
<1>20. IInv /\ Compare => PicturesInv'
  BY DEF Compare, Mark
<1>21. IInv /\ (\/ StopProjection
                \/ (\E c \in Clients : NewClient(c))
                \/ (\E c \in Clients, incremental \in BOOLEAN : UpdateRequest(c, incremental)))
          => PicturesInv'
  BY DEF StopProjection, NewClient, UpdateRequest
<1>22. IInv /\ UNCHANGED vars => PicturesInv'
  BY DEF vars
<1>. QED BY <1>1, <1>2, <1>3, <1>4, <1>5, <1>6, <1>7, <1>8, <1>9, <1>10, <1>11,
       <1>12, <1>13, <1>14, <1>15, <1>16, <1>17, <1>18, <1>19, <1>20, <1>21, <1>22
       DEF Next, Main, Worker, ClientInput

-----------------------------------------------------------------------------
\* Clients with an empty modifiedRegion stay up to date.
LEMMA ClientsStep == IInv /\ [Next]_vars => ClientsInv'
<1>. USE DEF IInv, TypeOK, BMTypeOK, Buffers, MODE, Structure, Roles, Pointers,
           Control, Stopped, LockDiscipline, ClientsInv, Served, ClientsUpToDate
<1>1. IInv /\ RunServer => ClientsInv'
  BY DEF RunServer, TakeConsumer, GetConsumer
<1>2. IInv /\ BeginDraw => ClientsInv'
  <2>. SUFFICES ASSUME IInv, BeginDraw PROVE ClientsInv'  OBVIOUS
  <2>1. wpc # "none" /\ mGlBuffer = mProducer
    BY DEF BeginDraw
  <2>2. \A b \in Buffers \ {mGlBuffer} : content'[b] = content[b]
    BY DEF BeginDraw
  <2>3. wpc # "lock" => content'[frameBuffer] = content[frameBuffer]
    BY <2>1, <2>2
  <2>4. mCmpBuffer # NULL => content'[mCmpBuffer] = content[mCmpBuffer]
    BY <2>1, <2>2
  <2>5. Served'
    BY <2>4 DEF BeginDraw
  <2>6. ClientsUpToDate'
    BY <2>3 DEF BeginDraw
  <2>. QED BY <2>5, <2>6
<1>3. IInv /\ FinishDraw => ClientsInv'
  <2>. SUFFICES ASSUME IInv, FinishDraw PROVE ClientsInv'  OBVIOUS
  <2>1. wpc # "none" /\ mGlBuffer = mProducer
    BY DEF FinishDraw
  <2>2. \A b \in Buffers \ {mGlBuffer} : content'[b] = content[b]
    BY DEF FinishDraw
  <2>3. wpc # "lock" => content'[frameBuffer] = content[frameBuffer]
    BY <2>1, <2>2
  <2>4. mCmpBuffer # NULL => content'[mCmpBuffer] = content[mCmpBuffer]
    BY <2>1, <2>2
  <2>5. Served'
    BY <2>4 DEF FinishDraw
  <2>6. ClientsUpToDate'
    BY <2>3 DEF FinishDraw
  <2>. QED BY <2>5, <2>6
<1>4. IInv /\ Cleanup => ClientsInv'
  BY DEF Cleanup, Release
<1>5. IInv /\ WorkerLoop => ClientsInv'
  BY DEF WorkerLoop
<1>6. IInv /\ FdsIdle => ClientsInv'
  BY DEF FdsIdle
<1>7. ASSUME NEW gone \in SUBSET Clients, IInv, UpdateClients(gone)
      PROVE  ClientsInv'
  BY <1>7 DEF UpdateClients
<1>8. IInv /\ NoFrame => ClientsInv'
  BY DEF NoFrame
<1>9. IInv /\ FrameFound => ClientsInv'
  BY DEF FrameFound
<1>10. IInv /\ UnlockBuffer => ClientsInv'
  BY DEF UnlockBuffer
<1>11. IInv /\ TakeFrame => ClientsInv'
  <2>. SUFFICES ASSUME IInv, TakeFrame PROVE ClientsInv'  OBVIOUS
  <2>1. mCmpBuffer' # NULL => mCmpBuffer' = frameBuffer
    BY DEF TakeFrame, TakeConsumer, GetConsumer
  <2>2. \A c \in clients : modifiedRegion[c] \/ shown[c] = content[frameBuffer]
    BY DEF TakeFrame
  <2>. QED BY <2>1, <2>2 DEF TakeFrame
<1>12. IInv /\ LockBuffer => ClientsInv'
  BY DEF LockBuffer
<1>13. IInv /\ MarkScreen => ClientsInv'
  BY DEF MarkScreen, Mark
<1>14. IInv /\ LockCmpBuffer => ClientsInv'
  BY DEF LockCmpBuffer
<1>15. IInv /\ Compare => ClientsInv'
  <2>. SUFFICES ASSUME IInv, Compare PROVE ClientsInv'  OBVIOUS
  <2>1. CASE content[mCmpBuffer] = content[frameBuffer]
    BY <2>1 DEF Compare
  <2>2. CASE content[mCmpBuffer] # content[frameBuffer]
    BY <2>2 DEF Compare, Mark
  <2>. QED BY <2>1, <2>2
<1>16. ASSUME NEW c \in Clients, IInv, NewClient(c)
      PROVE  ClientsInv'
  BY <1>16 DEF NewClient
<1>17. ASSUME NEW c \in Clients, NEW incremental \in BOOLEAN,
         IInv, UpdateRequest(c, incremental)
      PROVE  ClientsInv'
  BY <1>17 DEF UpdateRequest
<1>18. IInv /\ (\/ (\E mode \in MODE, n \in 0..4 : StartServer(mode, 0..(n - 1)))
                \/ StartProjection
                \/ StopProjection
                \/ SwapBuffers
                \/ FrameAvailable
                \/ StopServer) => ClientsInv'
  BY DEF StartServer, StartProjection, StopProjection, SwapBuffers, FrameAvailable,
         StopServer, Allocate, InitGL, BindNextProducerBuffer, GetProducer
<1>19. IInv /\ UNCHANGED vars => ClientsInv'
  BY DEF vars
<1>. QED BY <1>1, <1>2, <1>3, <1>4, <1>5, <1>6, <1>7, <1>8, <1>9, <1>10, <1>11,
       <1>12, <1>13, <1>14, <1>15, <1>16, <1>17, <1>18, <1>19 DEF Next, Main,
       Worker, ClientInput

-----------------------------------------------------------------------------
\* The state before the first onBind satisfies the inductive invariant.
LEMMA IInvInit == Init => IInv
<1>. USE DEF Init, BMInit, Buffers, Blank
<1>1. Init => TypeOK
  <2>1. Init => BMTypeOK
    BY DEF BMTypeOK, MODE
  <2>2. 0 \in 0..MaxFrames /\ 0 \in Pictures
    BY DEF Pictures
  <2>3. Init => content \in [Buffers -> Pictures] /\ shown \in [Clients -> Pictures]
    BY <2>2
  <2>. QED BY <2>1, <2>2, <2>3 DEF TypeOK, WorkerPC, MainPC
<1>2. Init => Structure /\ LockDiscipline
  BY DEF Structure, Roles, Pointers, Control, Stopped, LockDiscipline
<1>3. Init => PicturesInv /\ ClientsInv
  BY DEF PicturesInv, Contents, Newest, outstandingNow, Torn, ClientsInv, Served,
         ClientsUpToDate
<1>. QED BY <1>1, <1>2, <1>3 DEF IInv

\* No step of the main thread, the worker or a client leaves the inductive
\* invariant.
LEMMA IInvStep == IInv /\ [Next]_vars => IInv'
  BY TypeOKStep, StructureStep, LocksStep, PicturesStep, ClientsStep DEF IInv

\* The inductive invariant holds in every reachable state.
THEOREM Invariance == Spec => []IInv
  BY IInvInit, IInvStep, PTL DEF Spec

\* Every variable keeps its type.
THEOREM TypeCorrect == Spec => []TypeOK
<1>1. IInv => TypeOK
  BY DEF IInv
<1>. QED BY <1>1, Invariance, PTL

\* The GPU never draws into a buffer that the worker serves from, compares with
\* or has locked, for any interleaving of renderer and worker.
THEOREM NeverTears == Spec => []NoTearing
<1>1. IInv => NoTearing
  BY DEF IInv, TypeOK, BMTypeOK, MODE, Structure, Roles, Pointers, Control, Stopped,
         LockDiscipline, NoTearing
<1>. QED BY <1>1, Invariance, PTL

\* AHardwareBuffer locks and unlocks are paired.
THEOREM LocksPaired == Spec => []LockDiscipline
<1>1. IInv => LockDiscipline
  BY DEF IInv
<1>. QED BY <1>1, Invariance, PTL

\* The newest picture of a projection is never overwritten before a newer one
\* has been swapped in.
THEOREM NewestIsKept == Spec => []NewestKept
<1>1. IInv => NewestKept
  <2>. SUFFICES ASSUME IInv, published # 0
                PROVE  \E b \in ({mClean, mConsumer, mCompare} \cap mBuffers)
                                  \ {mProducer} : content[b] = published
    BY DEF NewestKept
  <2>. USE DEF IInv, TypeOK, BMTypeOK, MODE, Buffers, BuffersOf, Structure, Roles,
               Pointers, Stopped
  <2>1. {mClean, mConsumer} \subseteq mBuffers \ {mProducer}
    OBVIOUS
  <2>2. mMode # "TRIPLE" => mCompare \in mBuffers \ {mProducer}
    OBVIOUS
  <2>. QED BY <2>1, <2>2 DEF PicturesInv, Newest
<1>. QED BY <1>1, Invariance, PTL

\* A client that lacks nothing according to its modifiedRegion has the picture
\* that is served.
THEOREM ClientsAreUpToDate == Spec => []ClientsUpToDate
<1>1. IInv => ClientsUpToDate
  BY DEF IInv, ClientsInv
<1>. QED BY <1>1, Invariance, PTL

-----------------------------------------------------------------------------
(***************************************************************************)
(* The pipeline implements the one-slot mailbox.                           *)
(***************************************************************************)
\* Before the first onBind the mailbox is empty.
LEMMA MailboxInit == Init => Mailbox!Init
  BY DEF Init, Mailbox!Init, outstandingNow, servedNow, Blank

\* A swap is a publication, raising a flag that is already up absorbs one
\* notification, getConsumer is a take, a new projection empties the slot and a
\* stop resets the mailbox; every other step leaves it alone.
LEMMA MailboxStep == IInv /\ [Next]_vars => [Mailbox!Next]_(Mailbox!mailbox)
<1>. USE DEF IInv, TypeOK, BMTypeOK, Structure, Roles, Pointers, Control, Stopped,
             Buffers, MODE, Blank, outstandingNow, servedNow, Mailbox!mailbox
<1>1. ASSUME NEW mode \in MODE, NEW n \in 0..4,
         IInv, StartServer(mode, 0..(n - 1))
      PROVE  UNCHANGED Mailbox!mailbox
  BY <1>1 DEF StartServer, Allocate
<1>2. IInv /\ RunServer => UNCHANGED Mailbox!mailbox
  BY DEF RunServer, TakeConsumer, GetConsumer
<1>3. IInv /\ StartProjection => Mailbox!Restart
  BY DEF StartProjection, InitGL, BindNextProducerBuffer, GetProducer, Mailbox!Restart,
         PicturesInv, Contents, Newest, Pictures, Torn
<1>4. IInv /\ StopProjection => UNCHANGED Mailbox!mailbox
  BY DEF StopProjection
<1>5. IInv /\ BeginDraw => UNCHANGED Mailbox!mailbox
  BY DEF BeginDraw
<1>6. IInv /\ FinishDraw => UNCHANGED Mailbox!mailbox
  BY DEF FinishDraw
<1>7. IInv /\ SwapBuffers => Mailbox!Publish
  BY DEF SwapBuffers, BindNextProducerBuffer, GetProducer, Mailbox!Publish,
         PicturesInv, Contents, Newest, Pictures, Torn
<1>8. IInv /\ FrameAvailable => Mailbox!Absorb \/ UNCHANGED Mailbox!mailbox
  BY DEF FrameAvailable, Mailbox!Absorb, PicturesInv, Contents, Newest, Pictures,
         Torn
<1>9. IInv /\ StopServer => UNCHANGED Mailbox!mailbox
  BY DEF StopServer
<1>10. IInv /\ Cleanup => Mailbox!Reset
  BY DEF Cleanup, Release, Mailbox!Reset, PicturesInv, Contents, Newest, Pictures,
         Torn
<1>11. IInv /\ WorkerLoop => UNCHANGED Mailbox!mailbox
  BY DEF WorkerLoop
<1>12. IInv /\ FdsIdle => UNCHANGED Mailbox!mailbox
  BY DEF FdsIdle
<1>13. ASSUME NEW gone \in SUBSET Clients, IInv, UpdateClients(gone)
      PROVE  UNCHANGED Mailbox!mailbox
  BY <1>13 DEF UpdateClients
<1>14. IInv /\ NoFrame => UNCHANGED Mailbox!mailbox
  BY DEF NoFrame
<1>15. IInv /\ FrameFound => UNCHANGED Mailbox!mailbox
  BY DEF FrameFound
<1>16. IInv /\ UnlockBuffer => UNCHANGED Mailbox!mailbox
  BY DEF UnlockBuffer
<1>17. IInv /\ TakeFrame => Mailbox!Take
  BY DEF TakeFrame, TakeConsumer, GetConsumer, Mailbox!Take, PicturesInv, Contents,
         Newest, Pictures, Torn
<1>18. IInv /\ LockBuffer => UNCHANGED Mailbox!mailbox
  BY DEF LockBuffer
<1>19. IInv /\ MarkScreen => UNCHANGED Mailbox!mailbox
  BY DEF MarkScreen, Mark
<1>20. IInv /\ LockCmpBuffer => UNCHANGED Mailbox!mailbox
  BY DEF LockCmpBuffer
<1>21. IInv /\ Compare => UNCHANGED Mailbox!mailbox
  BY DEF Compare, Mark
<1>22. ASSUME NEW c \in Clients, IInv, NewClient(c)
      PROVE  UNCHANGED Mailbox!mailbox
  BY <1>22 DEF NewClient
<1>23. ASSUME NEW c \in Clients, NEW incremental \in BOOLEAN,
         IInv, UpdateRequest(c, incremental)
      PROVE  UNCHANGED Mailbox!mailbox
  BY <1>23 DEF UpdateRequest
<1>24. IInv /\ UNCHANGED vars => UNCHANGED Mailbox!mailbox
  BY DEF vars
<1>. QED BY <1>1, <1>2, <1>3, <1>4, <1>5, <1>6, <1>7, <1>8, <1>9, <1>10, <1>11,
       <1>12, <1>13, <1>14, <1>15, <1>16, <1>17, <1>18, <1>19, <1>20, <1>21, <1>22,
       <1>23, <1>24 DEF Next, Main, Worker, ClientInput, Mailbox!Next

\* Every behaviour of the pipeline is a behaviour of the mailbox: the served
\* picture changes in takes only, a take serves the newest untaken picture and
\* never an incomplete one, and each swap is worth at most one take.
THEOREM PipelineIsMailbox == Spec => MailboxSpec
  BY MailboxInit, MailboxStep, Invariance, PTL DEF Spec, MailboxSpec, Mailbox!Spec
=============================================================================
