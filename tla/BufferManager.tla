--------------------------- MODULE BufferManager ---------------------------
(***************************************************************************)
(* The pool of graphic buffers that the GL renderer (producer) and the VNC *)
(* worker (consumer) exchange (buffermanager.cpp).  A buffer is known by   *)
(* its index in mBuffers; the four role variables say which buffer the     *)
(* renderer draws into, which one the VNC server serves, which one is free *)
(* to be taken by either side, and, in mode WITH_COMPARE, which one holds  *)
(* the previously served picture.  GetConsumer and GetProducer are the     *)
(* critical sections of mLock, hence single steps.                         *)
(***************************************************************************)
EXTENDS Integers

VARIABLES mMode,      \* TRIPLE or WITH_COMPARE
          mBuffers,   \* indices of the buffers whose memory is allocated
          mConsumer, mProducer, mClean, mCompare

bmVars == <<mMode, mBuffers, mConsumer, mProducer, mClean, mCompare>>

MODE == {"TRIPLE", "WITH_COMPARE"}
Buffers == 0..3
BuffersOf(mode) == IF mode = "TRIPLE" THEN 0..2 ELSE 0..3

BMTypeOK ==
  /\ mMode \in MODE
  /\ mBuffers \in SUBSET Buffers
  /\ mConsumer \in Buffers /\ mProducer \in Buffers
  /\ mClean \in Buffers /\ mCompare \in Buffers

BMInit ==
  /\ mMode = "WITH_COMPARE"
  /\ mBuffers = {}
  /\ mConsumer = 0 /\ mProducer = 1 /\ mClean = 2 /\ mCompare = 3

\* A new manager replaces the old one, so the roles are back at their
\* defaults; the loop stops at the first buffer that cannot be allocated,
\* and bufs, a prefix of the buffers, is what it got.
Allocate(mode, bufs) ==
  /\ bufs \subseteq BuffersOf(mode)
  /\ mMode' = mode
  /\ mBuffers' = bufs
  /\ mConsumer' = 0 /\ mProducer' = 1 /\ mClean' = 2 /\ mCompare' = 3

Release ==
  /\ mBuffers' = {}
  /\ UNCHANGED <<mMode, mConsumer, mProducer, mClean, mCompare>>

\* Mutant: the served buffer becomes the compare buffer and the clean one.
GetConsumerReusesCompare ==
  /\ mConsumer' = mClean
  /\ mClean' = mConsumer
  /\ mCompare' = IF mMode = "WITH_COMPARE" THEN mConsumer ELSE mCompare
  /\ UNCHANGED <<mMode, mBuffers, mProducer>>

GetConsumer ==
  /\ mConsumer' = mClean
  /\ IF mMode = "WITH_COMPARE"
       THEN mCompare' = mConsumer /\ mClean' = mCompare
       ELSE mCompare' = mCompare  /\ mClean' = mConsumer
  /\ UNCHANGED <<mMode, mBuffers, mProducer>>

GetProducer ==
  /\ mClean' = mProducer
  /\ mProducer' = mClean
  /\ UNCHANGED <<mMode, mBuffers, mConsumer, mCompare>>
=============================================================================
