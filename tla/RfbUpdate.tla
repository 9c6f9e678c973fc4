----------------------------- MODULE RfbUpdate -----------------------------
(***************************************************************************)
(* What the server remembers of one client's picture, and how it answers   *)
(* the client's requests for updates (rfbserver.c, cursor.c).  The VNC     *)
(* worker repeats three steps: it handles the client's messages, sends an  *)
(* update if one is due, and takes a new frame.                            *)
(*                                                                         *)
(* A region is the set of its pixels; module RfbRegion is about the lists  *)
(* of spans that stand for them.  The app never moves the cursor, copies   *)
(* no areas and has no keyboard LEDs; scaling is in module RfbScale.       *)
(***************************************************************************)
EXTENDS Integers, FiniteSets

CONSTANTS Width, Height,              \* of the screen
          Wrap,                       \* 2^16, the range of uint16_t
          CursorWidth, CursorHeight,  \* the part of the cursor on the screen
          Once,                       \* what is sent once per SetEncodings
          MaxFrames                   \* bound: frames taken

ASSUME SizeAssumption ==
  /\ Width \in Nat \ {0} /\ Height \in Nat \ {0}
  /\ Wrap \in Nat /\ Width < Wrap /\ Height < Wrap
ASSUME CursorAssumption ==
  CursorWidth \in 1..(Width - 1) /\ CursorHeight \in 1..(Height - 1)
ASSUME OnceAssumption == Once \cap {"shape", "pos", "cursor", "pointerPos"} = {}
ASSUME MaxFramesAssumption == MaxFrames \in Nat

VARIABLES
  pc,         \* the worker: "events", "update" or "frame"
  sock,       \* FALSE once the client is closed
  modified,   \* cl->modifiedRegion
  requested,  \* cl->requestedRegion
  shape, changed,  \* cl->enableCursorShapeUpdates, cl->cursorWasChanged
  pos, moved,      \* cl->enableCursorPosUpdates, cl->cursorWasMoved
  once,       \* the one-time messages enabled
  got,        \* how often the client got what since its last SetEncodings
  old,        \* pixels of the client's picture that are not of this frame
  drawn,      \* pixels of the client's picture that show the cursor
  frames      \* frames taken

cursor == <<shape, changed, pos, moved, once, got>>
vars == <<pc, sock, modified, requested, cursor, old, drawn, frames>>

Screen == (0..(Width - 1)) \X (0..(Height - 1))
Kinds == {"shape", "pos"} \cup Once
Encodings == {"cursor", "pointerPos"} \cup Once

Rect(x1, y1, x2, y2) == (x1..(x2 - 1)) \X (y1..(y2 - 1))

\* rfbRedrawAfterHideCursor marks the whole cursor, rfbShowCursor draws it up
\* to the last column and row but one.
CursorRect == Rect(0, 0, CursorWidth, CursorHeight)
ShownCursor == Rect(0, 0, CursorWidth, CursorHeight) \cap Rect(0, 0, Width - 1, Height - 1)

\* rfbNewTCPOrUDPClient.
Init ==
  /\ pc = "events" /\ sock = TRUE
  /\ modified = Screen /\ requested = {}
  /\ shape = FALSE /\ changed = FALSE /\ pos = FALSE /\ moved = FALSE
  /\ once = {} /\ got = [k \in Kinds |-> 0]
  /\ old = Screen /\ drawn = {} /\ frames = 0

-----------------------------------------------------------------------------
(***************************************************************************)
(* The client's messages                                                   *)
(***************************************************************************)

\* rectSwapIfLEAndClip in one dimension: the new length, and whether the
\* request stands.  The difference is an int, the length is a uint16_t.
Clipped(a, len, size) == IF len > size - a THEN (size - a) % Wrap ELSE len
Stands(a, len, size) == Clipped(a, len, size) <= size - a

\* A request the client may send.  One that is empty after clipping leaves a
\* region that has rectangles but no pixels: see RfbRegion.
Request(x, y, w, h) ==
  /\ x \in 0..(Wrap - 1) /\ y \in 0..(Wrap - 1)
  /\ w \in 1..(Wrap - 1) /\ h \in 1..(Wrap - 1)
  /\ x # Width /\ y # Height

FramebufferUpdateRequest(x, y, w, h, incremental) ==
  /\ pc = "events" /\ sock
  /\ Request(x, y, w, h)
  /\ IF Stands(x, w, Width) /\ Stands(y, h, Height)
     THEN LET tmp == Rect(x, y, x + Clipped(x, w, Width), y + Clipped(y, h, Height))
          IN /\ requested' = requested \cup tmp
             /\ modified' = IF incremental THEN modified ELSE modified \cup tmp
     ELSE UNCHANGED <<requested, modified>>
  /\ UNCHANGED <<pc, sock, cursor, old, drawn, frames>>

\* The cursor the client's picture may show is not marked for redrawing.
SetEncodingsNoRedraw(E) ==
  /\ pc = "events" /\ sock
  /\ shape' = ("cursor" \in E) /\ changed' = ("cursor" \in E)
  /\ pos' = ({"cursor", "pointerPos"} \subseteq E)
  /\ moved' = (moved \/ "pointerPos" \in E)
  /\ once' = E \cap Once
  /\ got' = [k \in Kinds |-> 0]
  /\ UNCHANGED <<pc, sock, modified, requested, old, drawn, frames>>

SetEncodings(E) ==
  /\ pc = "events" /\ sock
  /\ shape' = ("cursor" \in E) /\ changed' = ("cursor" \in E)
  /\ pos' = ({"cursor", "pointerPos"} \subseteq E)
  /\ moved' = (moved \/ "pointerPos" \in E)
  /\ once' = E \cap Once
  /\ got' = [k \in Kinds |-> 0]
  /\ modified' = IF "cursor" \in E THEN modified \cup CursorRect ELSE modified
  /\ UNCHANGED <<pc, sock, requested, old, drawn, frames>>

\* A message that cannot be read to its end.
ReadFails ==
  /\ pc = "events" /\ sock
  /\ sock' = FALSE
  /\ UNCHANGED <<pc, modified, requested, cursor, old, drawn, frames>>

\* No more messages for now.
EventsDone ==
  /\ pc = "events" /\ sock
  /\ pc' = "update"
  /\ UNCHANGED <<sock, modified, requested, cursor, old, drawn, frames>>

-----------------------------------------------------------------------------
(***************************************************************************)
(* The update                                                              *)
(***************************************************************************)
FB_UPDATE_PENDINGCursorOnly == (shape /\ changed) \/ (pos /\ moved)
FB_UPDATE_PENDING == (shape /\ changed) \/ (pos /\ moved) \/ modified # {}

\* What this update carries besides pixels.
SendsShape == shape /\ changed
SendsPos == pos /\ moved
Extras == {k \in Kinds : \/ k = "shape" /\ SendsShape
                         \/ k = "pos" /\ SendsPos
                         \/ k \in once}

\* Whether rfbUpdateClient calls rfbSendFramebufferUpdate, and whether that
\* finds something to send.
Due == sock /\ FB_UPDATE_PENDING /\ requested # {}
UpdateRegion == modified \cap requested
Sends == Due /\ (UpdateRegion # {} \/ Extras # {})

\* The bounding box of an area that is not empty.
BBox(area) == {p \in Screen : \E a, b, c, d \in area :
                 a[1] <= p[1] /\ p[1] <= b[1] /\ c[2] <= p[2] /\ p[2] <= d[2]}

NothingToSend ==
  /\ pc = "update" /\ ~Sends
  /\ pc' = "frame"
  /\ UNCHANGED <<sock, modified, requested, cursor, old, drawn, frames>>

\* The modified region is emptied, although not all of it is sent.
TakeOffAll == modified' = {} /\ requested' = {}

\* The pixels of the update are taken off the modified region and the request
\* is forgotten.
TakeOffUpdate == modified' = modified \ UpdateRegion /\ requested' = {}

\* What is sent now is not sent again.
ClearFlags ==
  /\ changed' = (changed /\ ~SendsShape)
  /\ moved' = (moved /\ ~SendsPos)
  /\ once' = {}

\* rfbSendFramebufferUpdate.  A plain encoding sends the bounding box instead
\* of too many rectangles; for a client without cursor shapes the cursor is
\* in the frame buffer while it is read.
rfbSendFramebufferUpdate ==
  /\ pc = "update" /\ Sends
  /\ TakeOffUpdate
  /\ ClearFlags
  /\ got' = [k \in Kinds |-> got[k] + IF k \in Extras THEN 1 ELSE 0]
  /\ \E sent \in {UpdateRegion, BBox(UpdateRegion)} :
       /\ old' = old \ sent
       /\ drawn' = (drawn \ sent) \cup (IF shape THEN {} ELSE sent \cap ShownCursor)
  /\ pc' = "frame"
  /\ UNCHANGED <<sock, shape, pos, frames>>

\* The same, with a write that fails on the way: the client is closed.
SendFails ==
  /\ pc = "update" /\ Sends
  /\ TakeOffUpdate
  /\ ClearFlags
  /\ sock' = FALSE
  /\ pc' = "frame"
  /\ UNCHANGED <<shape, pos, got, old, drawn, frames>>

-----------------------------------------------------------------------------
(***************************************************************************)
(* The frame                                                               *)
(***************************************************************************)
NoFrame ==
  /\ pc = "frame"
  /\ pc' = "events"
  /\ UNCHANGED <<sock, modified, requested, cursor, old, drawn, frames>>

\* A frame that differs from the last in some pixels, and the rectangle around
\* them that is marked (what compare leaves out is the subject of DirtyRect).
NewFrame ==
  /\ pc = "frame" /\ frames < MaxFrames
  /\ \E x1, x2 \in 0..Width, y1, y2 \in 0..Height :
       \E differ \in SUBSET Rect(x1, y1, x2, y2) :
         /\ old' = old \cup differ
         /\ modified' = modified \cup Rect(x1, y1, x2, y2)
  /\ frames' = frames + 1
  /\ pc' = "events"
  /\ UNCHANGED <<sock, requested, cursor, drawn>>

Worker == EventsDone \/ NothingToSend \/ rfbSendFramebufferUpdate \/ NoFrame

\* What a client asks for to keep its picture up to date.
AskForAll == FramebufferUpdateRequest(0, 0, Width, Height, TRUE)

Next ==
  \/ \E x, y, w, h \in 0..(Wrap - 1), i \in BOOLEAN : FramebufferUpdateRequest(x, y, w, h, i)
  \/ \E E \in SUBSET Encodings : SetEncodings(E)
  \/ ReadFails
  \/ Worker \/ SendFails \/ NewFrame

Spec == Init /\ [][Next]_vars

\* The worker goes on, and so does a client that keeps asking.  A client does
\* not talk so fast that the worker never gets past its messages.
Fairness == WF_vars(Worker) /\ SF_vars(AskForAll)
FairSpec == Spec /\ Fairness

-----------------------------------------------------------------------------
(***************************************************************************)
(* Properties                                                              *)
(***************************************************************************)

TypeOK ==
  /\ pc \in {"events", "update", "frame"} /\ sock \in BOOLEAN
  /\ modified \subseteq Screen /\ requested \subseteq Screen
  /\ shape \in BOOLEAN /\ changed \in BOOLEAN /\ pos \in BOOLEAN /\ moved \in BOOLEAN
  /\ once \subseteq Once /\ got \in [Kinds -> Nat]
  /\ old \subseteq Screen /\ drawn \subseteq Screen /\ frames \in 0..MaxFrames

\* Every pixel the client has of an earlier frame is still marked for it: no
\* combination of requests, frames and partial answers loses a change.
NoLostChange == sock => old \subseteq modified

\* A client that draws the cursor itself has none left in its picture, but for
\* pixels that are marked to be sent again.
NoGhostCursor == sock /\ shape => drawn \subseteq modified

\* A client that draws the cursor itself has been sent its shape (position)
\* since it last asked for it, or an update with it is due.
CursorAnnounced ==
  /\ sock /\ shape => changed \/ got["shape"] > 0
  /\ sock /\ pos => moved \/ got["pos"] > 0

\* "We only send this message ONCE <per setEncodings message received>".
OncePerSetEncodings == \A k \in Once : got[k] <= 1

\* A client that keeps asking and is not cut off has the last frame in the end.
PictureCatchesUp == <>[](~sock \/ old = {})

\* For a client that does not draw the cursor itself, rfbSendFramebufferUpdate
\* would "make sure it's put up": it is in the client's picture wherever no
\* update is due.
CursorPutUp == sock /\ ~shape => ShownCursor \subseteq (drawn \cup modified)
=============================================================================
