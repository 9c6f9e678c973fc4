-------------------------- MODULE RfbUpdateProofs --------------------------
(***************************************************************************)
(* Proofs about the updates sent to a client and the regions they are made *)
(* of.  First, for every size of the screen and of the cursor, every width *)
(* of the protocol's integers and every number of frames: no change is     *)
(* lost and no cursor is left behind in a client's picture (RfbUpdate).    *)
(* Then, for every size of the screen and any number of operations: the    *)
(* span lists of rfbregion.c stand for sets of pixels, as RfbUpdate has    *)
(* it, and are counted and bounded as they should be (RfbRegion).          *)
(***************************************************************************)
EXTENDS RfbUpdate, RfbRegion, SequenceTheorems, NaturalsInduction, WellFoundedInduction, TLAPS

\* What is painted into a client's picture lies where rfbRedrawAfterHideCursor
\* marks, so that marking this area makes it all good.
PaintWithinCursor == drawn \subseteq CursorRect

\* What is enabled once has not been sent since the last SetEncodings.
OnceUnsent == \A k \in once : got[k] = 0

IInv ==
  /\ TypeOK
  /\ NoLostChange /\ PaintWithinCursor /\ NoGhostCursor
  /\ CursorAnnounced /\ OnceUnsent /\ OncePerSetEncodings

-----------------------------------------------------------------------------
(***************************************************************************)
(* The areas                                                               *)
(***************************************************************************)

\* A rectangle that ends within the screen is part of it.
LEMMA RectOnScreen ==
  ASSUME NEW x1 \in Nat, NEW y1 \in Nat, NEW x2 \in Int, NEW y2 \in Int,
         x2 <= Width, y2 <= Height
  PROVE  Rect(x1, y1, x2, y2) \subseteq Screen
BY SizeAssumption DEF Rect, Screen

\* The cursor is on the screen, and what rfbShowCursor draws of it is part of
\* what rfbRedrawAfterHideCursor marks.
LEMMA CursorOnScreen ==
  CursorRect \subseteq Screen /\ ShownCursor \subseteq CursorRect
<1>1. CursorRect \subseteq Screen
  BY CursorAssumption, SizeAssumption DEF CursorRect, Rect, Screen
<1>2. QED BY <1>1 DEF CursorRect, ShownCursor

\* A request that rectSwapIfLEAndClip lets through ends within the screen,
\* although its length may have wrapped round.
LEMMA ClippedOnScreen ==
  ASSUME NEW x \in 0..(Wrap - 1), NEW y \in 0..(Wrap - 1),
         NEW w \in 1..(Wrap - 1), NEW h \in 1..(Wrap - 1),
         Stands(x, w, Width), Stands(y, h, Height)
  PROVE  Rect(x, y, x + Clipped(x, w, Width), y + Clipped(y, h, Height)) \subseteq Screen
<1>1. Clipped(x, w, Width) \in Int /\ Clipped(y, h, Height) \in Int
  BY SizeAssumption DEF Clipped
<1>2. /\ x + Clipped(x, w, Width) \in Int /\ x + Clipped(x, w, Width) <= Width
      /\ y + Clipped(y, h, Height) \in Int /\ y + Clipped(y, h, Height) <= Height
  BY <1>1, SizeAssumption DEF Stands
<1>3. x \in Nat /\ y \in Nat
  BY SizeAssumption
<1>4. QED BY <1>2, <1>3, RectOnScreen

\* The bounding box of an area contains the area.
LEMMA BBoxContains ==
  ASSUME NEW area \in SUBSET Screen
  PROVE  area \subseteq BBox(area) /\ BBox(area) \subseteq Screen
<1>1. ASSUME NEW p \in area PROVE p \in BBox(area)
  <2>1. p[1] \in Int /\ p[2] \in Int
    BY SizeAssumption DEF Screen
  <2>2. QED BY <2>1 DEF BBox
<1>2. QED BY <1>1 DEF BBox

-----------------------------------------------------------------------------
(***************************************************************************)
(* The inductive invariant                                                 *)
(***************************************************************************)

\* A new client has been sent nothing, and everything is marked for it.
LEMMA InitInv == Init => IInv
<1> SUFFICES ASSUME Init PROVE IInv
  OBVIOUS
<1> USE DEF Init
<1>1. TypeOK
  <2>1. frames \in 0..MaxFrames /\ got \in [Kinds -> Nat]
    BY MaxFramesAssumption
  <2>2. QED BY <2>1 DEF TypeOK
<1>2. NoLostChange /\ PaintWithinCursor /\ NoGhostCursor /\ CursorAnnounced
  BY DEF NoLostChange, PaintWithinCursor, NoGhostCursor, CursorAnnounced
<1>3. OnceUnsent /\ OncePerSetEncodings
  BY DEF OnceUnsent, OncePerSetEncodings, Kinds
<1>4. QED BY <1>1, <1>2, <1>3 DEF IInv

\* FramebufferUpdateRequest only adds to the two regions.
LEMMA RequestInv ==
  ASSUME IInv, NEW x, NEW y, NEW w, NEW h, NEW i \in BOOLEAN,
         FramebufferUpdateRequest(x, y, w, h, i)
  PROVE  IInv'
<1> USE DEF FramebufferUpdateRequest, IInv, cursor
<1>1. /\ modified \subseteq modified' /\ modified' \subseteq Screen
      /\ requested' \subseteq Screen
  BY ClippedOnScreen DEF Request, TypeOK
<1>2. TypeOK'
  BY <1>1 DEF TypeOK
<1>3. NoLostChange' /\ PaintWithinCursor' /\ NoGhostCursor'
  BY <1>1 DEF NoLostChange, PaintWithinCursor, NoGhostCursor
<1>4. CursorAnnounced' /\ OnceUnsent' /\ OncePerSetEncodings'
  BY DEF CursorAnnounced, OnceUnsent, OncePerSetEncodings
<1>5. QED BY <1>2, <1>3, <1>4

\* SetEncodings starts anew, and marks the cursor for a client that is going to
\* draw its own.
LEMMA SetEncodingsInv ==
  ASSUME IInv, NEW E \in SUBSET Encodings, SetEncodings(E)
  PROVE  IInv'
<1> USE DEF SetEncodings, IInv
<1>1. modified \subseteq modified' /\ modified' \subseteq Screen
  BY CursorOnScreen DEF TypeOK
<1>2. TypeOK'
  BY <1>1 DEF TypeOK
<1>3. NoLostChange' /\ PaintWithinCursor'
  BY <1>1 DEF NoLostChange, PaintWithinCursor
<1>4. NoGhostCursor'
  BY DEF NoGhostCursor, PaintWithinCursor
<1>5. CursorAnnounced'
  BY DEF CursorAnnounced
<1>6. OnceUnsent' /\ OncePerSetEncodings'
  BY DEF OnceUnsent, OncePerSetEncodings, Kinds
<1>7. QED BY <1>2, <1>3, <1>4, <1>5, <1>6

\* An update takes off the modified region what is sent, or less.
LEMMA UpdateInv ==
  ASSUME IInv, rfbSendFramebufferUpdate
  PROVE  IInv'
<1> USE DEF rfbSendFramebufferUpdate, TakeOffUpdate, ClearFlags, IInv
<1>1. PICK sent \in {UpdateRegion, BBox(UpdateRegion)} :
        /\ old' = old \ sent
        /\ drawn' = (drawn \ sent) \cup (IF shape THEN {} ELSE sent \cap ShownCursor)
  OBVIOUS
<1>2. UpdateRegion \subseteq sent /\ sent \subseteq Screen
  BY BBoxContains DEF UpdateRegion, TypeOK
<1>3. TypeOK'
  <2>1. /\ modified' \subseteq Screen /\ requested' \subseteq Screen
        /\ old' \subseteq Screen /\ drawn' \subseteq Screen
    BY <1>1, <1>2 DEF TypeOK, UpdateRegion
  <2>2. got' \in [Kinds -> Nat]
    BY DEF TypeOK
  <2>3. /\ changed' \in BOOLEAN /\ moved' \in BOOLEAN /\ shape' \in BOOLEAN
        /\ pos' \in BOOLEAN
    BY DEF TypeOK, SendsShape, SendsPos
  <2>4. QED BY <2>1, <2>2, <2>3 DEF TypeOK
<1>4. NoLostChange'
  BY <1>1, <1>2 DEF NoLostChange
<1>5. PaintWithinCursor'
  BY <1>1, CursorOnScreen DEF PaintWithinCursor
<1>6. NoGhostCursor'
  BY <1>1, <1>2 DEF NoGhostCursor
<1>7. CursorAnnounced'
  BY DEF CursorAnnounced, TypeOK, Extras, Kinds, SendsShape, SendsPos
<1>8. OnceUnsent' /\ OncePerSetEncodings'
  <2>1. ASSUME NEW k \in Once PROVE got'[k] <= 1
    <3>1. k \in Kinds /\ (k \in Extras <=> k \in once)
      BY OnceAssumption DEF Kinds, Extras
    <3>2. got[k] \in Nat /\ got[k] <= 1 /\ (k \in once => got[k] = 0)
      BY <3>1 DEF TypeOK, OncePerSetEncodings, OnceUnsent
    <3>3. QED BY <3>1, <3>2
  <2>2. QED BY <2>1 DEF OnceUnsent, OncePerSetEncodings
<1>9. QED BY <1>3, <1>4, <1>5, <1>6, <1>7, <1>8

\* A write that fails closes the client, about which nothing is promised then.
LEMMA SendFailsInv ==
  ASSUME IInv, SendFails
  PROVE  IInv'
<1> USE DEF SendFails, TakeOffUpdate, ClearFlags, IInv
<1>1. TypeOK'
  BY DEF TypeOK, SendsShape, SendsPos
<1>2. NoLostChange' /\ NoGhostCursor' /\ CursorAnnounced'
  BY DEF NoLostChange, NoGhostCursor, CursorAnnounced
<1>3. PaintWithinCursor' /\ OnceUnsent' /\ OncePerSetEncodings'
  BY DEF PaintWithinCursor, OnceUnsent, OncePerSetEncodings
<1>4. QED BY <1>1, <1>2, <1>3

\* What differs in a new frame is within the rectangle that is marked.
LEMMA NewFrameInv ==
  ASSUME IInv, NewFrame
  PROVE  IInv'
<1> USE DEF NewFrame, IInv, cursor
<1>1. PICK x1 \in 0..Width, x2 \in 0..Width, y1 \in 0..Height, y2 \in 0..Height :
        \E differ \in SUBSET Rect(x1, y1, x2, y2) :
          /\ old' = old \cup differ
          /\ modified' = modified \cup Rect(x1, y1, x2, y2)
  OBVIOUS
<1>2. Rect(x1, y1, x2, y2) \subseteq Screen
  <2>1. x1 \in Nat /\ y1 \in Nat /\ x2 \in Int /\ y2 \in Int /\ x2 <= Width /\ y2 <= Height
    BY SizeAssumption
  <2>2. QED BY <2>1, RectOnScreen
<1>3. TypeOK'
  BY <1>1, <1>2, MaxFramesAssumption DEF TypeOK
<1>4. NoLostChange' /\ PaintWithinCursor' /\ NoGhostCursor'
  BY <1>1 DEF NoLostChange, PaintWithinCursor, NoGhostCursor
<1>5. CursorAnnounced' /\ OnceUnsent' /\ OncePerSetEncodings'
  BY DEF CursorAnnounced, OnceUnsent, OncePerSetEncodings
<1>6. QED BY <1>3, <1>4, <1>5

\* No request, no SetEncodings and no step of the worker leaves the inductive
\* invariant.
LEMMA NextInv == IInv /\ [Next]_vars => IInv'
<1> SUFFICES ASSUME IInv, [Next]_vars PROVE IInv'
  OBVIOUS
<1>1. ASSUME NEW x \in 0..(Wrap - 1), NEW y \in 0..(Wrap - 1), NEW w \in 0..(Wrap - 1),
             NEW h \in 0..(Wrap - 1), NEW i \in BOOLEAN,
             FramebufferUpdateRequest(x, y, w, h, i)
      PROVE  IInv'
  BY <1>1, RequestInv
<1>2. ASSUME NEW E \in SUBSET Encodings, SetEncodings(E) PROVE IInv'
  BY <1>2, SetEncodingsInv
<1>3. CASE rfbSendFramebufferUpdate
  BY <1>3, UpdateInv
<1>4. CASE SendFails
  BY <1>4, SendFailsInv
<1>5. CASE NewFrame
  BY <1>5, NewFrameInv
<1>6. CASE ReadFails \/ EventsDone \/ NothingToSend \/ NoFrame \/ UNCHANGED vars
  <2> USE <1>6 DEF ReadFails, EventsDone, NothingToSend, NoFrame, vars, cursor, IInv
  <2>1. TypeOK'
    BY DEF TypeOK
  <2>2. NoLostChange' /\ PaintWithinCursor' /\ NoGhostCursor'
    BY DEF NoLostChange, PaintWithinCursor, NoGhostCursor
  <2>3. CursorAnnounced' /\ OnceUnsent' /\ OncePerSetEncodings'
    BY DEF CursorAnnounced, OnceUnsent, OncePerSetEncodings
  <2>4. QED BY <2>1, <2>2, <2>3
<1>7. QED BY <1>1, <1>2, <1>3, <1>4, <1>5, <1>6 DEF Next, Worker

\* The inductive invariant of regions, cursor and one-time messages holds in
\* every reachable state.
THEOREM Invariance == Spec => []IInv
BY InitInv, NextInv, PTL DEF Spec

-----------------------------------------------------------------------------
(***************************************************************************)
(* The results                                                             *)
(***************************************************************************)

\* The regions stay within the screen, whatever a client asks for.
THEOREM RegionsOnScreen == Spec => []TypeOK
<1>1. IInv => TypeOK
  BY DEF IInv
<1>2. QED BY <1>1, Invariance, PTL

\* Every pixel a client has of an earlier frame is still marked for it.
THEOREM NoChangeIsLost == Spec => []NoLostChange
<1>1. IInv => NoLostChange
  BY DEF IInv
<1>2. QED BY <1>1, Invariance, PTL

\* A client that draws the cursor itself has none left in its picture, but for
\* pixels that are marked.
THEOREM NoCursorStaysBehind == Spec => []NoGhostCursor
<1>1. IInv => NoGhostCursor
  BY DEF IInv
<1>2. QED BY <1>1, Invariance, PTL

\* A client that draws the cursor itself has its shape and position, or is
\* about to get them; and what is sent once per SetEncodings is sent once.
THEOREM CursorIsAnnounced == Spec => [](CursorAnnounced /\ OncePerSetEncodings)
<1>1. IInv => CursorAnnounced /\ OncePerSetEncodings
  BY DEF IInv
<1>2. QED BY <1>1, Invariance, PTL

-----------------------------------------------------------------------------
(***************************************************************************)
(* Regions.  A region is correct because both loops that compute it are:   *)
(* at every iteration, what is done and what the operation would make of   *)
(* the lists that remain is the result.                                    *)
(***************************************************************************)

\* A set of natural numbers that is not empty has a least element.
LEMMA LeastExists ==
  ASSUME NEW S \in SUBSET Nat, S # {}
  PROVE  \E n \in S : \A m \in S : n <= m
<1>1. PICK n \in S : \A m \in S : ~(<<m, n>> \in OpToRel(<, Nat))
  BY NatLessThanWellFounded, WFMin
<1>2. \A m \in S : ~(m < n)
  BY <1>1, Zenon DEF OpToRel
<1>3. \A m \in S : n <= m
  BY <1>2
<1>4. QED BY <1>3

\* A bounded one has a greatest.
LEMMA GreatestExists ==
  ASSUME NEW k \in Nat, NEW S \in SUBSET (0..k), S # {}
  PROVE  \E n \in S : \A m \in S : m <= n
<1> DEFINE R == {n \in Nat : k - n \in S}
<1>1. R \in SUBSET Nat /\ R # {}
  <2>1. PICK n \in S : TRUE
    OBVIOUS
  <2>2. k - n \in R
    BY <2>1
  <2>3. QED BY <2>2
<1>2. PICK r \in R : \A m \in R : r <= m
  <2> HIDE DEF R
  <2> QED BY <1>1, LeastExists
<1>3. k - r \in S /\ r \in Nat
  OBVIOUS
<1>4. ASSUME NEW m \in S PROVE m <= k - r
  <2>1. k - m \in R
    OBVIOUS
  <2>2. r <= k - m
    BY <2>1, <1>2
  <2>3. r \in Int /\ m \in Int /\ k \in Int
    OBVIOUS
  <2>4. QED BY ONLY <2>2, <2>3
<1>5. QED BY <1>3, <1>4

-----------------------------------------------------------------------------
(***************************************************************************)
(* Lists of spans                                                          *)
(***************************************************************************)

\* The spans of a list with ends up to n and subspans of a set.
Spans(n, subspans) ==
  {d \in [start : 0..n, end : 0..n, subspan : subspans] : d.start + MinSide <= d.end}
Lists(n, subspans) == {list \in Seq(Spans(n, subspans)) : Ordered(list)}

\* A list ends, or begins, at v.
EndsBy(list, v) == \A k \in 1..Len(list) : list[k].end <= v
StartsAt(list, v) == \A k \in 1..Len(list) : v <= list[k].start

\* u is in the subspans of a span, (t, u) in a span, in a list.  A horizontal
\* span has all of them.
Has(sub, u) == sub = NULL \/ \E k \in 1..Len(sub) : sub[k].start <= u /\ u < sub[k].end
Within(d, t, u) == d.start <= t /\ t < d.end /\ Has(d.subspan, u)
In(list, t, u) == \E k \in 1..Len(list) : Within(list[k], t, u)

\* The fields of a span.
LEMMA SpanIs ==
  ASSUME NEW n \in Nat, NEW subspans, NEW d \in Spans(n, subspans)
  PROVE  /\ d.start \in 0..n /\ d.end \in 0..n /\ d.subspan \in subspans
         /\ d.start \in Nat /\ d.end \in Nat /\ d.start + MinSide <= d.end /\ d.start <= d.end
         /\ d = Span(d.start, d.end, d.subspan)
BY RegionAssumption DEF Spans, Span

\* A new span.
LEMMA SpanNew ==
  ASSUME NEW n \in Nat, NEW subspans, NEW a \in 0..n, NEW b \in 0..n, a + MinSide <= b,
         NEW sub \in subspans
  PROVE  /\ Span(a, b, sub) \in Spans(n, subspans)
         /\ Span(a, b, sub).start = a /\ Span(a, b, sub).end = b /\ Span(a, b, sub).subspan = sub
BY DEF Spans, Span

\* Spans are changed one field at a time.
LEMMA SpanSet ==
  ASSUME NEW n \in Nat, NEW subspans, NEW d \in Spans(n, subspans), NEW v
  PROVE  /\ [d EXCEPT !.start = v] = Span(v, d.end, d.subspan)
         /\ [d EXCEPT !.end = v] = Span(d.start, v, d.subspan)
         /\ [d EXCEPT !.subspan = v] = Span(d.start, d.end, v)
BY DEF Spans, Span

\* The elements of a list.
LEMMA ListIs ==
  ASSUME NEW n \in Nat, NEW subspans, NEW list \in Lists(n, subspans)
  PROVE  /\ list \in Seq(Spans(n, subspans)) /\ Len(list) \in Nat
         /\ \A k \in 1..Len(list) : list[k] \in Spans(n, subspans)
         /\ \A j, k \in 1..Len(list) : j < k => list[j].end <= list[k].start
         /\ list # <<>> => 1 \in 1..Len(list)
BY DEF Lists, Ordered

\* The empty list.
LEMMA ListEmpty ==
  ASSUME NEW n \in Nat, NEW subspans
  PROVE  /\ <<>> \in Lists(n, subspans)
         /\ \A t, u : ~In(<<>>, t, u)
         /\ \A v : EndsBy(<<>>, v) /\ StartsAt(<<>>, v)
BY DEF Lists, Ordered, In, EndsBy, StartsAt

\* A list of one span.
LEMMA ListOne ==
  ASSUME NEW n \in Nat, NEW subspans, NEW d \in Spans(n, subspans)
  PROVE  /\ <<d>> \in Lists(n, subspans)
         /\ \A t, u : In(<<d>>, t, u) <=> Within(d, t, u)
         /\ \A v : EndsBy(<<d>>, v) <=> d.end <= v
         /\ \A v : StartsAt(<<d>>, v) <=> v <= d.start
<1>1. <<d>> \in Seq(Spans(n, subspans)) /\ Len(<<d>>) = 1 /\ <<d>>[1] = d
  OBVIOUS
<1>2. 1..Len(<<d>>) = {1}
  BY <1>1
<1> DEFINE list == <<d>>
<1> HIDE DEF list
<1>3. /\ list \in Seq(Spans(n, subspans)) /\ 1..Len(list) = {1} /\ list[1] = d
  BY <1>1, <1>2 DEF list
<1>4. Ordered(list)
  BY <1>3 DEF Ordered
<1>5. \A t, u : In(list, t, u) <=> Within(d, t, u)
  BY <1>3 DEF In
<1>6. \A v : (EndsBy(list, v) <=> d.end <= v) /\ (StartsAt(list, v) <=> v <= d.start)
  BY <1>3 DEF EndsBy, StartsAt
<1>7. list \in Lists(n, subspans)
  BY <1>3, <1>4 DEF Lists
<1>8. QED BY <1>5, <1>6, <1>7 DEF list

\* Two lists, one after the other.
LEMMA ListConcat ==
  ASSUME NEW n \in Nat, NEW subspans, NEW a \in Lists(n, subspans), NEW b \in Lists(n, subspans),
         NEW v \in Nat, EndsBy(a, v), StartsAt(b, v)
  PROVE  /\ a \o b \in Lists(n, subspans)
         /\ \A t, u : In(a \o b, t, u) <=> In(a, t, u) \/ In(b, t, u)
         /\ \A w : EndsBy(a \o b, w) <=> EndsBy(a, w) /\ EndsBy(b, w)
         /\ \A w : StartsAt(a \o b, w) <=> StartsAt(a, w) /\ StartsAt(b, w)
         /\ a \o b = <<>> => a = <<>> /\ b = <<>>
<1> DEFINE c == a \o b
<1>1. /\ a \in Seq(Spans(n, subspans)) /\ b \in Seq(Spans(n, subspans))
      /\ Len(a) \in Nat /\ Len(b) \in Nat
  BY ListIs
<1>2. /\ c \in Seq(Spans(n, subspans)) /\ Len(c) = Len(a) + Len(b)
      /\ \A k \in 1..Len(a) : k \in 1..Len(c) /\ c[k] = a[k]
      /\ \A k \in 1..Len(b) : k + Len(a) \in 1..Len(c) /\ c[k + Len(a)] = b[k]
  BY <1>1
<1>3. ASSUME NEW k \in 1..Len(c)
      PROVE  \/ k \in 1..Len(a) /\ c[k] = a[k]
             \/ k - Len(a) \in 1..Len(b) /\ c[k] = b[k - Len(a)]
  BY <1>1
<1>4. c = <<>> => a = <<>> /\ b = <<>>
  BY <1>1
<1> HIDE DEF c
<1>5. ASSUME NEW j \in 1..Len(c), NEW k \in 1..Len(c), j < k PROVE c[j].end <= c[k].start
  <2>1. CASE k \in 1..Len(a) /\ c[k] = a[k]
    <3>1. j \in 1..Len(a) /\ c[j] = a[j]
      BY <1>1, <1>2, <1>5, <2>1
    <3>2. QED BY <2>1, <3>1, <1>5, ListIs
  <2>2. CASE k - Len(a) \in 1..Len(b) /\ c[k] = b[k - Len(a)]
    <3>1. CASE j \in 1..Len(a) /\ c[j] = a[j]
      <4>1. a[j].end <= v /\ v <= b[k - Len(a)].start
        BY <2>2, <3>1 DEF EndsBy, StartsAt
      <4>2. /\ a[j].end \in Nat /\ b[k - Len(a)].start \in Nat
        BY <2>2, <3>1, ListIs, SpanIs
      <4>3. QED BY <4>1, <4>2, <2>2, <3>1
    <3>2. CASE j - Len(a) \in 1..Len(b) /\ c[j] = b[j - Len(a)]
      <4>1. j - Len(a) < k - Len(a)
        BY <1>1, <1>2, <1>5
      <4>2. b[j - Len(a)].end <= b[k - Len(a)].start
        BY <4>1, <2>2, <3>2, ListIs
      <4>3. QED BY <4>2, <2>2, <3>2
    <3>3. QED BY <3>1, <3>2, <1>3
  <2>3. QED BY <2>1, <2>2, <1>3
<1>6. c \in Lists(n, subspans)
  BY <1>2, <1>5 DEF Lists, Ordered
<1>7. ASSUME NEW t, NEW u PROVE In(c, t, u) <=> In(a, t, u) \/ In(b, t, u)
  <2>1. ASSUME In(c, t, u) PROVE In(a, t, u) \/ In(b, t, u)
    <3>1. PICK k \in 1..Len(c) : Within(c[k], t, u)
      BY <2>1 DEF In
    <3>2. QED BY <3>1, <1>3 DEF In
  <2>2. ASSUME In(a, t, u) PROVE In(c, t, u)
    BY <2>2, <1>2 DEF In
  <2>3. ASSUME In(b, t, u) PROVE In(c, t, u)
    BY <2>3, <1>2 DEF In
  <2>4. QED BY <2>1, <2>2, <2>3
<1>8. ASSUME NEW w PROVE EndsBy(c, w) <=> EndsBy(a, w) /\ EndsBy(b, w)
  <2>1. ASSUME EndsBy(c, w) PROVE EndsBy(a, w) /\ EndsBy(b, w)
    BY <2>1, <1>2 DEF EndsBy
  <2>2. ASSUME EndsBy(a, w), EndsBy(b, w) PROVE EndsBy(c, w)
    BY <2>2, <1>3 DEF EndsBy
  <2>3. QED BY <2>1, <2>2
<1>9. ASSUME NEW w PROVE StartsAt(c, w) <=> StartsAt(a, w) /\ StartsAt(b, w)
  <2>1. ASSUME StartsAt(c, w) PROVE StartsAt(a, w) /\ StartsAt(b, w)
    BY <2>1, <1>2 DEF StartsAt
  <2>2. ASSUME StartsAt(a, w), StartsAt(b, w) PROVE StartsAt(c, w)
    BY <2>2, <1>3 DEF StartsAt
  <2>3. QED BY <2>1, <2>2
<1>10. QED BY <1>4, <1>6, <1>7, <1>8, <1>9 DEF c

\* A span after a list.
LEMMA ListAppend ==
  ASSUME NEW n \in Nat, NEW subspans, NEW a \in Lists(n, subspans), NEW d \in Spans(n, subspans),
         EndsBy(a, d.start)
  PROVE  /\ Append(a, d) \in Lists(n, subspans)
         /\ \A t, u : In(Append(a, d), t, u) <=> In(a, t, u) \/ Within(d, t, u)
         /\ \A w : EndsBy(Append(a, d), w) <=> EndsBy(a, w) /\ d.end <= w
         /\ \A w : StartsAt(Append(a, d), w) <=> StartsAt(a, w) /\ w <= d.start
         /\ Append(a, d) # <<>> /\ Front1(Append(a, d)) = a /\ Last1(Append(a, d)) = d
<1>1. a \in Seq(Spans(n, subspans)) /\ Append(a, d) = a \o <<d>>
  BY ListIs
<1>2. d.start \in Nat /\ d.start <= d.start
  BY SpanIs
<1> DEFINE b == <<d>>
<1>3. /\ b \in Lists(n, subspans) /\ StartsAt(b, d.start)
      /\ \A t, u : In(b, t, u) <=> Within(d, t, u)
      /\ \A w : (EndsBy(b, w) <=> d.end <= w) /\ (StartsAt(b, w) <=> w <= d.start)
  BY <1>2, ListOne
<1>4. Append(a, d) # <<>> /\ Front1(Append(a, d)) = a /\ Last1(Append(a, d)) = d
  BY <1>1 DEF Front1, Last1
<1>5. Append(a, d) = a \o b
  BY <1>1
<1> HIDE DEF b
<1>6. QED BY <1>2, <1>3, <1>4, <1>5, ListConcat

\* A span before a list.
LEMMA ListPrepend ==
  ASSUME NEW n \in Nat, NEW subspans, NEW d \in Spans(n, subspans), NEW b \in Lists(n, subspans),
         StartsAt(b, d.end)
  PROVE  /\ <<d>> \o b \in Lists(n, subspans)
         /\ \A t, u : In(<<d>> \o b, t, u) <=> Within(d, t, u) \/ In(b, t, u)
         /\ \A w : EndsBy(<<d>> \o b, w) <=> d.end <= w /\ EndsBy(b, w)
         /\ \A w : StartsAt(<<d>> \o b, w) <=> w <= d.start /\ StartsAt(b, w)
         /\ <<d>> \o b # <<>> /\ (<<d>> \o b)[1] = d /\ Tail(<<d>> \o b) = b
<1>1. b \in Seq(Spans(n, subspans)) /\ d.end \in Nat
  BY ListIs, SpanIs
<1>2. d.end <= d.end
  BY <1>1
<1> DEFINE a == <<d>>
<1>3. /\ a \in Lists(n, subspans) /\ EndsBy(a, d.end)
      /\ \A t, u : In(a, t, u) <=> Within(d, t, u)
      /\ \A w : (EndsBy(a, w) <=> d.end <= w) /\ (StartsAt(a, w) <=> w <= d.start)
  BY <1>2, ListOne
<1>4. a \o b # <<>> /\ (a \o b)[1] = d /\ Tail(a \o b) = b
  BY <1>1
<1> HIDE DEF a
<1>5. QED BY <1>1, <1>3, <1>4, ListConcat DEF a

\* The first span of a list and the others.
LEMMA ListTail ==
  ASSUME NEW n \in Nat, NEW subspans, NEW list \in Lists(n, subspans), list # <<>>
  PROVE  /\ list[1] \in Spans(n, subspans) /\ Tail(list) \in Lists(n, subspans)
         /\ StartsAt(Tail(list), list[1].end) /\ list = <<list[1]>> \o Tail(list)
         /\ \A t, u : In(list, t, u) <=> Within(list[1], t, u) \/ In(Tail(list), t, u)
<1> DEFINE b == Tail(list)
<1>1. /\ list \in Seq(Spans(n, subspans)) /\ 1 \in 1..Len(list) /\ Len(list) \in Nat
      /\ list[1] \in Spans(n, subspans)
  BY ListIs
<1>2. /\ b \in Seq(Spans(n, subspans)) /\ Len(b) = Len(list) - 1
      /\ \A k \in 1..Len(b) : k + 1 \in 1..Len(list) /\ b[k] = list[k + 1]
  BY <1>1
<1>3. list = <<list[1]>> \o b
  BY <1>1
<1> HIDE DEF b
<1>4. ASSUME NEW j \in 1..Len(b), NEW k \in 1..Len(b), j < k PROVE b[j].end <= b[k].start
  <2>1. j + 1 < k + 1
    BY <1>1, <1>2, <1>4
  <2>2. list[j + 1].end <= list[k + 1].start
    BY <2>1, <1>2, ListIs
  <2>3. QED BY <2>2, <1>2
<1>5. b \in Lists(n, subspans)
  BY <1>2, <1>4 DEF Lists, Ordered
<1>6. StartsAt(b, list[1].end)
  <2> SUFFICES ASSUME NEW k \in 1..Len(b) PROVE list[1].end <= b[k].start
    BY DEF StartsAt
  <2>1. 1 < k + 1
    BY <1>1, <1>2
  <2>2. QED BY <2>1, <1>1, <1>2, ListIs
<1>7. \A t, u : In(<<list[1]>> \o b, t, u) <=> Within(list[1], t, u) \/ In(b, t, u)
  BY <1>1, <1>5, <1>6, ListPrepend
<1>8. QED BY <1>1, <1>3, <1>5, <1>6, <1>7 DEF b

\* What is in a list that ends, or begins, at v.
LEMMA InBounds ==
  ASSUME NEW n \in Nat, NEW subspans, NEW list \in Lists(n, subspans), NEW v \in Nat, NEW t \in Nat,
         NEW u, In(list, t, u)
  PROVE  (EndsBy(list, v) => t < v) /\ (StartsAt(list, v) => v <= t)
<1>1. PICK k \in 1..Len(list) : Within(list[k], t, u)
  BY DEF In
<1>2. list[k] \in Spans(n, subspans)
  BY ListIs
<1>3. list[k].start \in Nat /\ list[k].end \in Nat
  BY <1>2, SpanIs
<1>4. QED BY <1>1, <1>3 DEF EndsBy, StartsAt, Within

\* Bounds that are further away.
LEMMA BoundsWiden ==
  ASSUME NEW n \in Nat, NEW subspans, NEW list \in Lists(n, subspans), NEW v \in Nat, NEW w \in Nat,
         v <= w
  PROVE  (EndsBy(list, v) => EndsBy(list, w)) /\ (StartsAt(list, w) => StartsAt(list, v))
<1>1. \A k \in 1..Len(list) : list[k].start \in Nat /\ list[k].end \in Nat
  BY ListIs, SpanIs
<1>2. QED BY <1>1 DEF EndsBy, StartsAt

\* The first span of what follows a span begins behind it.
LEMMA NextStarts ==
  ASSUME NEW n \in Nat, NEW subspans, NEW list \in Lists(n, subspans), list # <<>>,
         NEW v, StartsAt(list, v)
  PROVE  v <= list[1].start /\ list[1].start \in Nat
<1>1. list[1] \in Spans(n, subspans) /\ 1 \in 1..Len(list)
  BY ListIs
<1>2. QED BY <1>1, SpanIs DEF StartsAt

\* A list that ends before v ends before the first span of one that begins at v.
LEMMA EndsByNext ==
  ASSUME NEW n \in Nat, NEW subspans, NEW list \in Lists(n, subspans), list # <<>>,
         NEW v \in Nat, StartsAt(list, v),
         NEW front \in Lists(n, subspans), NEW w \in Nat, EndsBy(front, w), w <= v
  PROVE  EndsBy(front, list[1].start)
<1> DEFINE z == list[1].start
<1>1. v <= z /\ z \in Nat
  BY NextStarts
<1> HIDE DEF z
<1>2. w <= z
  BY <1>1
<1>3. EndsBy(front, z)
  BY <1>1, <1>2, BoundsWiden
<1>4. QED BY <1>3 DEF z

-----------------------------------------------------------------------------
(***************************************************************************)
(* Merging                                                                 *)
(***************************************************************************)

\* A part of a list.
LEMMA ListPart ==
  ASSUME NEW n \in Nat, NEW subspans, NEW list \in Lists(n, subspans),
         NEW a \in 1..(Len(list) + 1), NEW b \in (a - 1)..Len(list)
  PROVE  /\ SubSeq(list, a, b) \in Lists(n, subspans)
         /\ \A t, u : In(SubSeq(list, a, b), t, u) <=> \E k \in a..b : Within(list[k], t, u)
         /\ \A v : EndsBy(SubSeq(list, a, b), v) <=> \A k \in a..b : list[k].end <= v
         /\ \A v : StartsAt(SubSeq(list, a, b), v) <=> \A k \in a..b : v <= list[k].start
<1> DEFINE part == SubSeq(list, a, b)
<1>1. list \in Seq(Spans(n, subspans)) /\ Len(list) \in Nat
  BY ListIs
<1>2. part \in Seq(Spans(n, subspans)) /\ Len(part) = b - a + 1
  <2>1. \A k \in a..b : list[k] \in Spans(n, subspans)
    BY ListIs, <1>1
  <2>2. a \in Int /\ b \in Int /\ a - 1 <= b
    BY <1>1
  <2>3. QED BY <2>1, <2>2, <1>1, SubSeqProperties
<1>3. \A k \in 1..Len(part) : k + a - 1 \in a..b /\ part[k] = list[k + a - 1]
  BY <1>1, <1>2
<1>4. \A k \in a..b : /\ k \in 1..Len(list) /\ k - a + 1 \in 1..Len(part)
                      /\ part[k - a + 1] = list[k]
  BY <1>1, <1>2
<1> HIDE DEF part
<1>5. ASSUME NEW j \in 1..Len(part), NEW k \in 1..Len(part), j < k PROVE part[j].end <= part[k].start
  <2>1. j + a - 1 \in 1..Len(list) /\ k + a - 1 \in 1..Len(list)
    BY <1>3, <1>4
  <2>2. j \in Int /\ k \in Int /\ a \in Int
    BY <1>1
  <2>3. j + a - 1 < k + a - 1
    BY <2>2, <1>5
  <2>4. QED BY <2>1, <2>3, <1>3, ListIs
<1>6. part \in Lists(n, subspans)
  BY <1>2, <1>5 DEF Lists, Ordered
<1>7. ASSUME NEW t, NEW u PROVE In(part, t, u) <=> \E k \in a..b : Within(list[k], t, u)
  <2>1. ASSUME In(part, t, u) PROVE \E k \in a..b : Within(list[k], t, u)
    <3>1. PICK k \in 1..Len(part) : Within(part[k], t, u)
      BY <2>1 DEF In
    <3>2. QED BY <3>1, <1>3
  <2>2. ASSUME NEW k \in a..b, Within(list[k], t, u) PROVE In(part, t, u)
    BY <2>2, <1>4 DEF In
  <2>3. QED BY <2>1, <2>2
<1>8. ASSUME NEW v PROVE EndsBy(part, v) <=> \A k \in a..b : list[k].end <= v
  <2>1. ASSUME EndsBy(part, v), NEW k \in a..b PROVE list[k].end <= v
    BY <2>1, <1>4 DEF EndsBy
  <2>2. ASSUME \A k \in a..b : list[k].end <= v PROVE EndsBy(part, v)
    BY <2>2, <1>3 DEF EndsBy
  <2>3. QED BY <2>1, <2>2
<1>9. ASSUME NEW v PROVE StartsAt(part, v) <=> \A k \in a..b : v <= list[k].start
  <2>1. ASSUME StartsAt(part, v), NEW k \in a..b PROVE v <= list[k].start
    BY <2>1, <1>4 DEF StartsAt
  <2>2. ASSUME \A k \in a..b : v <= list[k].start PROVE StartsAt(part, v)
    BY <2>2, <1>3 DEF StartsAt
  <2>3. QED BY <2>1, <2>2
<1>10. QED BY <1>6, <1>7, <1>8, <1>9 DEF part

\* Spans that touch each other and have the same subspans are as good as one span.
LEMMA Chain ==
  ASSUME NEW n \in Nat, NEW subspans, NEW list \in Lists(n, subspans),
         NEW a \in 1..Len(list), NEW b \in a..Len(list), NEW sub, Touching(list, a, b, sub)
  PROVE  /\ list[a].start <= list[b].start /\ list[a].end <= list[b].end
         /\ \A t \in Nat : \A u : (\E k \in a..b : Within(list[k], t, u)) <=>
                                list[a].start <= t /\ t < list[b].end /\ Has(sub, u)
<1>1. Len(list) \in Nat /\ a \in Nat /\ b \in Nat /\ a <= b /\ \A k \in a..b : k \in 1..Len(list)
  BY ListIs
<1>2. \A k \in a..b : /\ list[k].start \in Nat /\ list[k].end \in Nat
                      /\ list[k].start <= list[k].end
  BY <1>1, ListIs, SpanIs
<1>3. \A k \in a..b : list[k].subspan = sub
  BY DEF Touching
<1>4. ASSUME NEW k \in a..b PROVE list[a].start <= list[k].start /\ list[a].end <= list[k].end
  <2>1. CASE a = k
    BY <2>1, <1>1, <1>2
  <2>2. CASE a # k
    <3>1. a < k /\ a \in 1..Len(list) /\ k \in 1..Len(list)
      BY <2>2, <1>1
    <3>2. list[a].end <= list[k].start
      BY <3>1, ListIs
    <3>3. a \in a..b
      BY <1>1
    <3>4. QED BY <3>2, <3>3, <1>2
  <2>3. QED BY <2>1, <2>2
<1>5. ASSUME NEW k \in a..b PROVE list[k].end <= list[b].end
  <2>1. CASE b = k
    BY <2>1, <1>2
  <2>2. CASE b # k
    <3>1. k < b /\ b \in 1..Len(list) /\ k \in 1..Len(list) /\ b \in a..b
      BY <2>2, <1>1
    <3>2. list[k].end <= list[b].start
      BY <3>1, ListIs
    <3>3. QED BY <3>1, <3>2, <1>2
  <2>3. QED BY <2>1, <2>2
<1>6. ASSUME NEW t \in Nat, NEW u, NEW k \in a..b, Within(list[k], t, u)
      PROVE  list[a].start <= t /\ t < list[b].end /\ Has(sub, u)
  <2>1. list[k].start <= t /\ t < list[k].end /\ Has(sub, u)
    BY <1>6, <1>3 DEF Within
  <2>2. list[a].start <= list[k].start /\ list[k].end <= list[b].end
    BY <1>4, <1>5
  <2>3. a \in a..b /\ b \in a..b
    BY <1>1
  <2>4. QED BY <2>1, <2>2, <2>3, <1>2
<1>7. ASSUME NEW t \in Nat, NEW u, list[a].start <= t, t < list[b].end, Has(sub, u)
      PROVE  \E k \in a..b : Within(list[k], t, u)
  <2> DEFINE K == {k \in a..b : list[k].start <= t}
  <2>1. K # {} /\ K \in SUBSET (0..b)
    BY <1>1, <1>7
  <2> HIDE DEF K
  <2>2. PICK g \in K : \A m \in K : m <= g
    BY <2>1, <1>1, GreatestExists
  <2>3. g \in a..b /\ list[g].start <= t /\ g \in Nat
    BY <1>1 DEF K
  <2>4. t < list[g].end
    <3>1. CASE g = b
      BY <3>1, <1>7
    <3>2. CASE g # b
      <4>1. g + 1 \in a..b /\ g \in a..(b - 1) /\ ~(g + 1 <= g)
        BY <2>3, <3>2, <1>1
      <4>2. g + 1 \notin K
        BY <2>2, <4>1
      <4>3. ~(list[g + 1].start <= t)
        BY <4>1, <4>2 DEF K
      <4>4. list[g].end = list[g + 1].start
        BY <4>1 DEF Touching
      <4>5. list[g].end \in Nat
        BY <2>3, <1>2
      <4>6. QED BY <4>3, <4>4, <4>5
    <3>3. QED BY <3>1, <3>2
  <2>5. Has(list[g].subspan, u)
    BY <2>3, <1>3, <1>7
  <2>6. QED BY <2>3, <2>4, <2>5 DEF Within
<1>8. list[a].start <= list[b].start /\ list[a].end <= list[b].end
  BY <1>1, <1>4
<1>9. QED BY <1>6, <1>7, <1>8

\* d with the spans before it that it swallows.
MergedBack(n, subspans, done, d, front, last) ==
  /\ front \in Lists(n, subspans) /\ last \in Spans(n, subspans)
  /\ last.end = d.end /\ last.subspan = d.subspan /\ last.start <= d.start
  /\ EndsBy(front, last.start)
  /\ \A v : EndsBy(done, v) => EndsBy(front, v)
  /\ \A t \in Nat : \A u : In(front, t, u) \/ Within(last, t, u) <=> In(done, t, u) \/ Within(d, t, u)

\* sraSpanMergePrevious.
LEMMA MergePreviousIs ==
  ASSUME NEW n \in Nat, NEW subspans, NEW done \in Lists(n, subspans),
         NEW d \in Spans(n, subspans), EndsBy(done, d.start)
  PROVE  LET p == MergePrevious(done, d)
         IN MergedBack(n, subspans, done, d, Front1(p), Last1(p)) /\ p = Append(Front1(p), Last1(p))
<1> DEFINE list == Append(done, d)
           l == Len(list)
           same == {k \in 1..Len(list) : Touching(list, k, Len(list), d.subspan)}
           first == CHOOSE k \in same : \A m \in same : k <= m
           front == SubSeq(done, 1, first - 1)
           last == [d EXCEPT !.start = list[first].start]
<1>1. /\ done \in Seq(Spans(n, subspans)) /\ Len(done) \in Nat /\ l = Len(done) + 1
      /\ list[l] = d /\ \A k \in 1..Len(done) : list[k] = done[k]
  BY ListIs
<1>2. /\ list \in Lists(n, subspans)
      /\ \A t, u : In(list, t, u) <=> In(done, t, u) \/ Within(d, t, u)
  BY ListAppend
<1> HIDE DEF list
<1>3. l \in same
  <2>1. l \in 1..Len(list) /\ l..l = {l} /\ l..(l - 1) = {}
    BY <1>1
  <2>2. Touching(list, l, l, d.subspan)
    BY <2>1, <1>1 DEF Touching
  <2>3. QED BY <2>1, <2>2
<1>4. first \in same
  <2>1. same # {} /\ same \in SUBSET Nat
    BY <1>3
  <2> HIDE DEF same
  <2>2. QED BY <2>1, LeastExists
<1> HIDE DEF first
<1>5. first \in 1..l /\ l \in first..l /\ Touching(list, first, l, d.subspan)
  BY <1>1, <1>4
<1>6. /\ list[first].start <= d.start
      /\ \A t \in Nat : \A u : (\E k \in first..l : Within(list[k], t, u)) <=>
                             list[first].start <= t /\ t < d.end /\ Has(d.subspan, u)
  BY <1>1, <1>2, <1>5, Chain
<1>7. list[first] \in Spans(n, subspans)
  BY <1>2, <1>5, ListIs
<1>8. /\ last = Span(list[first].start, d.end, d.subspan)
      /\ last.start = list[first].start /\ last.end = d.end /\ last.subspan = d.subspan
      /\ last \in Spans(n, subspans)
  <2>1. PICK a \in 0..n : a = list[first].start /\ a <= d.start
    BY <1>6, <1>7, SpanIs
  <2>2. /\ d.start \in Nat /\ d.end \in 0..n /\ d.subspan \in subspans
        /\ d.start + MinSide <= d.end
    BY SpanIs
  <2>3. a + MinSide <= d.end
    BY <2>1, <2>2, RegionAssumption
  <2>4. last = Span(a, d.end, d.subspan)
    BY <2>1 DEF Spans, Span
  <2> HIDE DEF last
  <2>5. QED BY <2>1, <2>2, <2>3, <2>4, SpanNew
<1>9. /\ front \in Lists(n, subspans)
      /\ \A t, u : In(front, t, u) <=> \E k \in 1..(first - 1) : Within(list[k], t, u)
      /\ \A v : EndsBy(front, v) <=> \A k \in 1..(first - 1) : list[k].end <= v
  <2>1. 1 \in 1..(Len(done) + 1) /\ first - 1 \in (1 - 1)..Len(done)
    BY <1>1, <1>5
  <2>2. \A k \in 1..(first - 1) : list[k] = done[k]
    BY <1>1, <2>1
  <2>3. /\ front \in Lists(n, subspans)
        /\ \A t, u : In(front, t, u) <=> \E k \in 1..(first - 1) : Within(done[k], t, u)
        /\ \A v : EndsBy(front, v) <=> \A k \in 1..(first - 1) : done[k].end <= v
    BY <2>1, ListPart
  <2>4. QED BY <2>2, <2>3
<1>10. MergePrevious(done, d) = Append(front, last)
  BY DEF MergePrevious, list, first
<1>11. Front1(MergePrevious(done, d)) = front /\ Last1(MergePrevious(done, d)) = last
  <2> HIDE DEF front, last
  <2>1. front \in Seq(Spans(n, subspans))
    BY <1>9, ListIs
  <2>2. QED BY <2>1, <1>10 DEF Front1, Last1
<1>12. EndsBy(front, last.start)
  <2>1. \A k \in 1..(first - 1) : k \in 1..Len(list) /\ k < first
    BY <1>1, <1>5
  <2>2. \A k \in 1..(first - 1) : list[k].end <= list[first].start
    BY <2>1, <1>2, <1>5, ListIs
  <2>3. QED BY <2>2, <1>8, <1>9
<1>13. ASSUME NEW v, EndsBy(done, v) PROVE EndsBy(front, v)
  <2>1. \A k \in 1..(first - 1) : k \in 1..Len(done)
    BY <1>1, <1>5
  <2>2. \A k \in 1..(first - 1) : list[k].end <= v
    BY <2>1, <1>1, <1>13 DEF EndsBy
  <2>3. QED BY <2>2, <1>9
<1>14. ASSUME NEW t \in Nat, NEW u
       PROVE  In(front, t, u) \/ Within(last, t, u) <=> In(done, t, u) \/ Within(d, t, u)
  <2>1. Within(last, t, u) <=> \E k \in first..l : Within(list[k], t, u)
    BY <1>6, <1>8 DEF Within
  <2>2. \A k \in 1..l : k \in 1..(first - 1) \/ k \in first..l
    BY <1>1, <1>5
  <2>3. \A k : k \in 1..(first - 1) \/ k \in first..l => k \in 1..l
    BY <1>1, <1>5
  <2>4. In(list, t, u) <=> \E k \in 1..l : Within(list[k], t, u)
    BY DEF In
  <2> HIDE DEF l, front, last
  <2>5. In(list, t, u) <=> In(front, t, u) \/ Within(last, t, u)
    BY <2>1, <2>2, <2>3, <2>4, <1>9
  <2>6. QED BY <2>5, <1>2
<1> HIDE DEF front, last
<1>15. QED BY <1>6, <1>8, <1>9, <1>10, <1>11, <1>12, <1>13, <1>14 DEF MergedBack

\* d with the spans after it that it swallows.
MergedOn(n, subspans, d, rest, first, others) ==
  /\ first \in Spans(n, subspans) /\ others \in Lists(n, subspans)
  /\ first.start = d.start /\ first.subspan = d.subspan /\ d.end <= first.end
  /\ StartsAt(others, first.end)
  /\ \A t \in Nat : \A u : Within(first, t, u) \/ In(others, t, u) <=> Within(d, t, u) \/ In(rest, t, u)

\* sraSpanMergeNext.
LEMMA MergeNextIs ==
  ASSUME NEW n \in Nat, NEW subspans, NEW d \in Spans(n, subspans),
         NEW rest \in Lists(n, subspans), StartsAt(rest, d.end)
  PROVE  /\ MergedOn(n, subspans, d, rest, MergeNext(d, rest)[1], Tail(MergeNext(d, rest)))
         /\ MergeNext(d, rest) \in Lists(n, subspans) /\ MergeNext(d, rest) # <<>>
<1> DEFINE list == <<d>> \o rest
           l == Len(list)
           same == {k \in 1..Len(list) : Touching(list, 1, k, d.subspan)}
           last == CHOOSE k \in same : \A m \in same : m <= k
           others == SubSeq(list, last + 1, Len(list))
           first == [d EXCEPT !.end = list[last].end]
<1>1. /\ rest \in Seq(Spans(n, subspans)) /\ Len(rest) \in Nat /\ l = Len(rest) + 1
      /\ list[1] = d
  BY ListIs
<1>2. /\ list \in Lists(n, subspans)
      /\ \A t, u : In(list, t, u) <=> Within(d, t, u) \/ In(rest, t, u)
  BY ListPrepend
<1> HIDE DEF list
<1>3. 1 \in same
  <2>1. 1 \in 1..Len(list) /\ 1..1 = {1} /\ 1..(1 - 1) = {}
    BY <1>1
  <2>2. Touching(list, 1, 1, d.subspan)
    BY <2>1, <1>1 DEF Touching
  <2>3. QED BY <2>1, <2>2
<1>4. last \in same
  <2>1. same # {} /\ same \in SUBSET (0..l) /\ l \in Nat
    BY <1>1, <1>3
  <2> HIDE DEF same, l
  <2>2. QED BY <2>1, GreatestExists
<1> HIDE DEF last
<1>5. /\ last \in 1..l /\ 1 \in 1..l /\ last \in 1..Len(list) /\ Touching(list, 1, last, d.subspan)
  BY <1>1, <1>4
<1>6. /\ d.end <= list[last].end
      /\ \A t \in Nat : \A u : (\E k \in 1..last : Within(list[k], t, u)) <=>
                             d.start <= t /\ t < list[last].end /\ Has(d.subspan, u)
  BY <1>1, <1>2, <1>5, Chain
<1>7. list[last] \in Spans(n, subspans)
  BY <1>2, <1>5, ListIs
<1>8. /\ first.start = d.start /\ first.end = list[last].end /\ first.subspan = d.subspan
      /\ first \in Spans(n, subspans)
  <2>1. PICK b \in 0..n : b = list[last].end /\ d.end <= b
    BY <1>6, <1>7, SpanIs
  <2>2. /\ d.start \in 0..n /\ d.end \in Nat /\ d.subspan \in subspans
        /\ d.start + MinSide <= d.end
    BY SpanIs
  <2>3. d.start + MinSide <= b
    BY <2>1, <2>2, RegionAssumption
  <2>4. first = Span(d.start, b, d.subspan)
    BY <2>1 DEF Spans, Span
  <2> HIDE DEF first
  <2>5. QED BY <2>1, <2>2, <2>3, <2>4, SpanNew
<1>9. /\ others \in Lists(n, subspans)
      /\ \A t, u : In(others, t, u) <=> \E k \in (last + 1)..l : Within(list[k], t, u)
      /\ \A v : StartsAt(others, v) <=> \A k \in (last + 1)..l : v <= list[k].start
  <2>1. PICK i \in 1..(Len(list) + 1) : i = last + 1
    BY <1>1, <1>5
  <2>2. PICK j \in (i - 1)..Len(list) : j = Len(list)
    BY <2>1, <1>1, <1>5
  <2>3. /\ SubSeq(list, i, j) \in Lists(n, subspans)
        /\ \A t, u : In(SubSeq(list, i, j), t, u) <=> \E k \in i..j : Within(list[k], t, u)
        /\ \A v : StartsAt(SubSeq(list, i, j), v) <=> \A k \in i..j : v <= list[k].start
    BY <1>2, ListPart
  <2>4. QED BY <2>1, <2>2, <2>3
<1>10. MergeNext(d, rest) = <<first>> \o others
  BY DEF MergeNext, list, last
<1>11. StartsAt(others, first.end)
  <2>1. \A k \in (last + 1)..l : k \in 1..Len(list) /\ last < k
    BY <1>1, <1>5
  <2>2. \A k \in (last + 1)..l : list[last].end <= list[k].start
    BY <2>1, <1>2, <1>5, ListIs
  <2>3. QED BY <2>2, <1>8, <1>9
<1>12. ASSUME NEW t \in Nat, NEW u
       PROVE  Within(first, t, u) \/ In(others, t, u) <=> Within(d, t, u) \/ In(rest, t, u)
  <2>1. Within(first, t, u) <=> \E k \in 1..last : Within(list[k], t, u)
    BY <1>6, <1>8 DEF Within
  <2>2. \A k \in 1..l : k \in 1..last \/ k \in (last + 1)..l
    BY <1>1, <1>5
  <2>3. \A k : k \in 1..last \/ k \in (last + 1)..l => k \in 1..l
    BY <1>1, <1>5
  <2>4. In(list, t, u) <=> \E k \in 1..l : Within(list[k], t, u)
    BY DEF In
  <2> HIDE DEF l, first, others
  <2>5. In(list, t, u) <=> Within(first, t, u) \/ In(others, t, u)
    BY <2>1, <2>2, <2>3, <2>4, <1>9
  <2>6. QED BY <2>5, <1>2
<1> HIDE DEF first, others
<1>13. /\ <<first>> \o others \in Lists(n, subspans) /\ <<first>> \o others # <<>>
       /\ (<<first>> \o others)[1] = first /\ Tail(<<first>> \o others) = others
  BY <1>8, <1>9, <1>11, ListPrepend
<1>14. QED BY <1>6, <1>8, <1>9, <1>10, <1>11, <1>12, <1>13 DEF MergedOn

-----------------------------------------------------------------------------
(***************************************************************************)
(* One iteration                                                           *)
(***************************************************************************)

\* What the operation does with a point of the destination and of the source.
Both(op, a, b) == CASE op = "or" -> a \/ b [] op = "and" -> a /\ b [] OTHER -> a /\ ~b

\* The point (t, u) is in the result of the loop: in what is done, or in what the
\* operation makes of the remaining lists.
Holds(op, f, t, u) == In(f.done, t, u) \/ Both(op, In(f.rest, t, u), In(f.src, t, u))
Agree(op, f, g) == \A t \in Nat : \A u \in Nat : Holds(op, g, t, u) <=> Holds(op, f, t, u)

\* The loop before an iteration.
LoopOK(op, f, n, subspans) ==
  /\ f.done \in Lists(n, subspans) /\ f.rest \in Lists(n, subspans) /\ f.src \in Lists(n, subspans)
  /\ f.rest # <<>> => EndsBy(f.done, DCurr(f).start)
  /\ op = "or" /\ f.src # <<>> => EndsBy(f.done, SCurr(f).start)

\* Or sees to it that what s has before d has been done.
Ahead(f) ==
  \A t \in Nat : \A u : SCurr(f).start <= t /\ t < DCurr(f).start /\ Has(SCurr(f).subspan, u) =>
                          In(f.done, t, u)

\* The loop when d lies within s.
SplitOK(op, f, n, subspans) ==
  /\ f.done \in Lists(n, subspans) /\ f.rest \in Lists(n, subspans) /\ f.src \in Lists(n, subspans)
  /\ f.rest # <<>> /\ f.src # <<>>
  /\ EndsBy(f.done, DCurr(f).start)
  /\ SCurr(f).start <= DCurr(f).start /\ DCurr(f).end <= SCurr(f).end
  /\ op = "or" => Ahead(f)

\* d and s of a loop with both.
LEMMA Currents ==
  ASSUME NEW n \in Nat, NEW subspans, NEW f, f.rest \in Lists(n, subspans), f.rest # <<>>,
         f.src \in Lists(n, subspans), f.src # <<>>
  PROVE  /\ DCurr(f) \in Spans(n, subspans) /\ SCurr(f) \in Spans(n, subspans)
         /\ Tail(f.rest) \in Lists(n, subspans) /\ Tail(f.src) \in Lists(n, subspans)
         /\ StartsAt(Tail(f.rest), DCurr(f).end) /\ StartsAt(Tail(f.src), SCurr(f).end)
         /\ \A t, u : In(f.rest, t, u) <=> Within(DCurr(f), t, u) \/ In(Tail(f.rest), t, u)
         /\ \A t, u : In(f.src, t, u) <=> Within(SCurr(f), t, u) \/ In(Tail(f.src), t, u)
BY ListTail DEF DCurr, SCurr

\* l cut into what is before s, in s and after s.
CutAt(n, subspans, front, l, tail, s, before, d, after) ==
  /\ before \in Lists(n, subspans) /\ d \in Spans(n, subspans) /\ after \in Lists(n, subspans)
  /\ EndsBy(before, d.start) /\ StartsAt(after, d.end)
  /\ s.start <= d.start /\ d.end <= s.end /\ d.subspan = l.subspan
  /\ l.start <= d.start /\ (d.start = s.start \/ d.start = l.start)
  /\ \A t \in Nat : \A u : In(before, t, u) <=> In(front, t, u) \/ (Within(l, t, u) /\ t < s.start)
  /\ \A t \in Nat : \A u : Within(d, t, u) \/ In(after, t, u) <=>
                             (Within(l, t, u) /\ s.start <= t) \/ In(tail, t, u)

\* A span that overlaps s is cut so.
LEMMA Cut ==
  ASSUME NEW n \in Nat, NEW subspans, NEW front \in Lists(n, subspans),
         NEW l \in Spans(n, subspans), NEW tail \in Lists(n, subspans), NEW s \in Spans(n, subspans),
         EndsBy(front, l.start), StartsAt(tail, l.end), l.start < s.end, s.start < l.end
  PROVE  CutAt(n, subspans, front, l, tail, s,
               Before(front, l, s.start), Overlap(l, s), After(l, s.end, tail))
<1>1. /\ l.start \in 0..n /\ l.end \in 0..n /\ l.subspan \in subspans
      /\ l.start \in Nat /\ l.end \in Nat /\ l.start + MinSide <= l.end /\ l.start <= l.end
      /\ s.start \in 0..n /\ s.end \in 0..n /\ s.start \in Nat /\ s.end \in Nat
      /\ s.start + MinSide <= s.end /\ s.start <= s.end
  BY SpanIs
<1> DEFINE a == Later(l.start, s.start)
           b == Sooner(l.end, s.end)
           before == Before(front, l, s.start)
           d == Overlap(l, s)
           after == After(l, s.end, tail)
<1>2. /\ a \in 0..n /\ b \in 0..n /\ a + MinSide <= b /\ a \in Nat /\ b \in Nat /\ a <= b
      /\ s.start <= a /\ b <= s.end /\ l.start <= a /\ b <= l.end
      /\ a = s.start \/ a = l.start
      /\ b = s.end \/ b = l.end
  BY <1>1, RegionAssumption DEF Later, Sooner
<1>3. /\ d = Span(a, b, l.subspan)
      /\ d \in Spans(n, subspans) /\ d.start = a /\ d.end = b /\ d.subspan = l.subspan
  <2>1. d = Span(a, b, l.subspan)
    BY DEF Overlap
  <2> HIDE DEF a, b, d
  <2>2. QED BY <2>1, <1>1, <1>2, SpanNew
<1>4. /\ before \in Lists(n, subspans) /\ EndsBy(before, a)
      /\ \A t \in Nat : \A u : In(before, t, u) <=>
                                 In(front, t, u) \/ (Within(l, t, u) /\ t < s.start)
  <2>1. CASE s.start > l.start
    <3> DEFINE x == Span(l.start, s.start, l.subspan)
    <3>1. l.start + MinSide <= s.start
      BY <1>1, <2>1, RegionAssumption
    <3>2. x \in Spans(n, subspans) /\ x.start = l.start /\ x.end = s.start /\ x.subspan = l.subspan
      BY <1>1, <3>1, SpanNew
    <3> HIDE DEF x
    <3>3. before = Append(front, x)
      BY <2>1 DEF Before, x
    <3> HIDE DEF before, a
    <3>4. EndsBy(front, s.start) /\ EndsBy(front, a)
      BY <1>1, <1>2, <2>1, BoundsWiden
    <3>5. /\ before \in Lists(n, subspans)
          /\ EndsBy(before, a) <=> EndsBy(front, a) /\ x.end <= a
          /\ \A t, u : In(before, t, u) <=> In(front, t, u) \/ Within(x, t, u)
      BY <3>2, <3>3, ListAppend
    <3>6. ASSUME NEW t \in Nat, NEW u
          PROVE  Within(x, t, u) <=> Within(l, t, u) /\ t < s.start
      BY <1>1, <3>2 DEF Within
    <3>7. QED BY <1>2, <3>2, <3>4, <3>5, <3>6
  <2>2. CASE ~(s.start > l.start)
    <3>1. before = front
      BY <2>2 DEF Before
    <3>2. EndsBy(front, a)
      <4> HIDE DEF a
      <4> QED BY <1>1, <1>2, BoundsWiden
    <3>3. ASSUME NEW t \in Nat, NEW u PROVE ~(Within(l, t, u) /\ t < s.start)
      BY <1>1, <2>2 DEF Within
    <3> HIDE DEF before, a
    <3>4. QED BY <3>1, <3>2, <3>3
  <2>3. QED BY <2>1, <2>2
<1>5. /\ after \in Lists(n, subspans) /\ StartsAt(after, b)
      /\ \A t \in Nat : \A u : In(after, t, u) <=>
                                 In(tail, t, u) \/ (Within(l, t, u) /\ s.end <= t)
  <2>1. CASE s.end < l.end
    <3> DEFINE x == Span(s.end, l.end, l.subspan)
    <3>1. s.end + MinSide <= l.end
      BY <1>1, <2>1, RegionAssumption
    <3>2. x \in Spans(n, subspans) /\ x.start = s.end /\ x.end = l.end /\ x.subspan = l.subspan
      BY <1>1, <3>1, SpanNew
    <3> HIDE DEF x
    <3>3. after = <<x>> \o tail
      BY <2>1 DEF After, x
    <3> HIDE DEF after, b
    <3>4. StartsAt(tail, b)
      BY <1>1, <1>2, BoundsWiden
    <3>5. /\ after \in Lists(n, subspans)
          /\ StartsAt(after, b) <=> b <= x.start /\ StartsAt(tail, b)
          /\ \A t, u : In(after, t, u) <=> Within(x, t, u) \/ In(tail, t, u)
      BY <3>2, <3>3, ListPrepend
    <3>6. ASSUME NEW t \in Nat, NEW u
          PROVE  Within(x, t, u) <=> Within(l, t, u) /\ s.end <= t
      BY <1>1, <2>1, <3>2 DEF Within
    <3>7. QED BY <1>2, <3>2, <3>4, <3>5, <3>6
  <2>2. CASE ~(s.end < l.end)
    <3>1. after = tail
      BY <2>2 DEF After
    <3>2. StartsAt(tail, b)
      <4> HIDE DEF b
      <4> QED BY <1>1, <1>2, BoundsWiden
    <3>3. ASSUME NEW t \in Nat, NEW u PROVE ~(Within(l, t, u) /\ s.end <= t)
      BY <1>1, <2>2 DEF Within
    <3> HIDE DEF after, b
    <3>4. QED BY <3>1, <3>2, <3>3
  <2>3. QED BY <2>1, <2>2
<1>6. ASSUME NEW t \in Nat, NEW u
      PROVE  Within(d, t, u) <=> Within(l, t, u) /\ s.start <= t /\ t < s.end
  <2>1. a <= t <=> l.start <= t /\ s.start <= t
    BY <1>1 DEF Later
  <2>2. t < b <=> t < l.end /\ t < s.end
    BY <1>1 DEF Sooner
  <2> HIDE DEF a, b, d
  <2>3. QED BY <1>3, <2>1, <2>2 DEF Within
<1> HIDE DEF a, b, d, before, after
<1>7. ASSUME NEW t \in Nat, NEW u
      PROVE  Within(d, t, u) \/ In(after, t, u) <=>
               (Within(l, t, u) /\ s.start <= t) \/ In(tail, t, u)
  <2>1. (t < s.end <=> ~(s.end <= t)) /\ (s.end <= t => s.start <= t)
    BY <1>1
  <2>2. QED BY <2>1, <1>5, <1>6
<1>8. QED BY <1>2, <1>3, <1>4, <1>5, <1>7 DEF CutAt, a, b, d, before, after

\* A loop whose d has been cut so that it lies within s.
Splits(op, f, g, n, subspans) ==
  /\ SplitOK(op, g, n, subspans)
  /\ DCurr(g).subspan = DCurr(f).subspan /\ SCurr(g) = SCurr(f)
  /\ Agree(op, f, g)

\* The loop after the subspans have been joined.
Joins(op, f, g, n, subspans) ==
  /\ LoopOK(op, g, n, subspans)
  /\ Agree(op, f, g)
  /\ op = "or" => g.done # <<>> \/ g.rest # <<>>

\* The iteration up to the call: Or.
LEMMA OrSplitIs ==
  ASSUME NEW n \in Nat, NEW subspans, NEW f, LoopOK("or", f, n, subspans),
         f.rest # <<>>, f.src # <<>>, Overlapping(f)
  PROVE  Splits("or", f, OrSplit(f), n, subspans)
<1> DEFINE d == DCurr(f)
           s == SCurr(f)
           x == Span(s.start, d.start, s.subspan)
           p == IF s.start < d.start THEN MergePrevious(Append(f.done, x), d) ELSE Append(f.done, d)
           front == Front1(p)
           last == Last1(p)
           g == OrSplit(f)
<1>1. /\ f.done \in Lists(n, subspans) /\ f.rest \in Lists(n, subspans) /\ f.src \in Lists(n, subspans)
      /\ EndsBy(f.done, d.start) /\ EndsBy(f.done, s.start) /\ d.start < s.end /\ s.start < d.end
  BY DEF LoopOK, Overlapping
<1>2. /\ d \in Spans(n, subspans) /\ s \in Spans(n, subspans)
      /\ Tail(f.rest) \in Lists(n, subspans) /\ StartsAt(Tail(f.rest), d.end)
      /\ \A t, u : In(f.rest, t, u) <=> Within(d, t, u) \/ In(Tail(f.rest), t, u)
      /\ \A t, u : In(f.src, t, u) <=> Within(s, t, u) \/ In(Tail(f.src), t, u)
  BY <1>1, Currents
<1> HIDE DEF d, s
<1>3. /\ d.start \in 0..n /\ d.start \in Nat /\ d.end \in Nat /\ d.start <= d.end
      /\ s.start \in 0..n /\ s.start \in Nat /\ s.end \in Nat /\ s.subspan \in subspans
  BY <1>2, SpanIs
<1>4. /\ front \in Lists(n, subspans) /\ last \in Spans(n, subspans)
      /\ last.end = d.end /\ last.subspan = d.subspan /\ last.start <= d.start
      /\ EndsBy(front, last.start)
      /\ \A t \in Nat : \A u : In(front, t, u) \/ Within(last, t, u) <=>
           \/ In(f.done, t, u) \/ Within(d, t, u)
           \/ s.start <= t /\ t < d.start /\ Has(s.subspan, u)
  <2>1. CASE s.start < d.start
    <3>1. s.start + MinSide <= d.start
      BY <1>3, <2>1, RegionAssumption
    <3>2. x \in Spans(n, subspans) /\ x.start = s.start /\ x.end = d.start /\ x.subspan = s.subspan
      <4>1. PICK a \in 0..n, b \in 0..n, sub \in subspans : a = s.start /\ b = d.start /\ sub = s.subspan
        BY <1>3
      <4>2. a + MinSide <= b
        BY <3>1, <4>1
      <4>3. /\ Span(a, b, sub) \in Spans(n, subspans) /\ Span(a, b, sub).start = a
            /\ Span(a, b, sub).end = b /\ Span(a, b, sub).subspan = sub
        BY <4>2, SpanNew
      <4>4. QED BY <4>1, <4>3
    <3> DEFINE done == Append(f.done, x)
    <3> HIDE DEF x
    <3>3. /\ done \in Lists(n, subspans) /\ EndsBy(done, d.start)
          /\ \A t, u : In(done, t, u) <=> In(f.done, t, u) \/ Within(x, t, u)
      <4>1. d.start <= d.start
        BY <1>3
      <4>2. QED BY <1>1, <3>2, <4>1, ListAppend
    <3>4. p = MergePrevious(done, d)
      BY <2>1
    <3> HIDE DEF done, p
    <3>5. MergedBack(n, subspans, done, d, front, last)
      BY <1>2, <3>3, <3>4, MergePreviousIs
    <3> HIDE DEF front, last
    <3>6. ASSUME NEW t \in Nat, NEW u
          PROVE  Within(x, t, u) <=> s.start <= t /\ t < d.start /\ Has(s.subspan, u)
      BY <3>2 DEF Within
    <3>7. QED BY <3>3, <3>5, <3>6 DEF MergedBack
  <2>2. CASE ~(s.start < d.start)
    <3>1. p = Append(f.done, d)
      BY <2>2
    <3> HIDE DEF p
    <3>2. front = f.done /\ last = d
      BY <1>1, <1>2, <3>1, ListAppend
    <3>3. ASSUME NEW t \in Nat PROVE ~(s.start <= t /\ t < d.start)
      BY <1>3, <2>2
    <3> HIDE DEF front, last
    <3>4. d.start <= d.start
      BY <1>3
    <3>5. QED BY <1>1, <1>2, <3>2, <3>3, <3>4
  <2>3. QED BY <2>1, <2>2
<1> DEFINE before == Before(front, last, s.start)
           cut == Overlap(last, s)
           after == After(last, s.end, Tail(f.rest))
<1>5. g = Frame(before, <<cut>> \o after, f.src)
  <2>1. after = After(d, s.end, Tail(f.rest))
    <3> HIDE DEF front, last
    <3> QED BY <1>4 DEF After
  <2>2. g = Frame(before, <<cut>> \o After(d, s.end, Tail(f.rest)), f.src)
    BY DEF OrSplit, d, s
  <2>3. QED BY <2>1, <2>2
<1>6. CutAt(n, subspans, front, last, Tail(f.rest), s, before, cut, after)
  <2> HIDE DEF front, last
  <2>1. last.start < s.end /\ s.start < last.end /\ StartsAt(Tail(f.rest), last.end)
    <3>1. last.start \in Nat
      BY <1>4, SpanIs
    <3>2. QED BY <3>1, <1>1, <1>2, <1>3, <1>4
  <2>2. QED BY <1>2, <1>4, <2>1, Cut
<1> HIDE DEF front, last, before, cut, after, g
<1>7. /\ before \in Lists(n, subspans) /\ cut \in Spans(n, subspans) /\ after \in Lists(n, subspans)
      /\ EndsBy(before, cut.start) /\ StartsAt(after, cut.end)
      /\ s.start <= cut.start /\ cut.end <= s.end /\ cut.subspan = d.subspan
      /\ cut.start = s.start \/ cut.start = last.start
      /\ \A t \in Nat : \A u : In(before, t, u) <=>
                                 In(front, t, u) \/ (Within(last, t, u) /\ t < s.start)
      /\ \A t \in Nat : \A u : Within(cut, t, u) \/ In(after, t, u) <=>
                                 (Within(last, t, u) /\ s.start <= t) \/ In(Tail(f.rest), t, u)
  BY <1>4, <1>6 DEF CutAt
<1>8. /\ g.done = before /\ g.rest = <<cut>> \o after /\ g.src = f.src
      /\ g.rest \in Lists(n, subspans) /\ g.rest # <<>> /\ DCurr(g) = cut /\ SCurr(g) = s
      /\ \A t, u : In(g.rest, t, u) <=> Within(cut, t, u) \/ In(after, t, u)
  <2>1. g.done = before /\ g.rest = <<cut>> \o after /\ g.src = f.src
    BY <1>5 DEF Frame
  <2>2. SCurr(g) = s
    BY <2>1 DEF SCurr, s
  <2>3. QED BY <1>7, <2>1, <2>2, ListPrepend DEF DCurr
<1>9. Ahead(g)
  <2> SUFFICES ASSUME NEW t \in Nat, NEW u, s.start <= t, t < cut.start, Has(s.subspan, u)
               PROVE  In(before, t, u)
    BY <1>8 DEF Ahead
  <2>1. cut.start \in Nat /\ last.start \in Nat
    BY <1>4, <1>7, SpanIs
  <2>2. cut.start = last.start /\ t < last.start /\ t < d.start
    BY <1>3, <1>4, <1>7, <2>1
  <2>3. ~Within(last, t, u)
    BY <2>1, <2>2 DEF Within
  <2>4. In(front, t, u)
    BY <1>4, <2>2, <2>3
  <2>5. QED BY <1>7, <2>4
<1>10. ASSUME NEW t \in Nat, NEW u PROVE Holds("or", g, t, u) <=> Holds("or", f, t, u)
  <2>1. s.start <= t /\ t < d.start /\ Has(s.subspan, u) => In(f.src, t, u)
    BY <1>1, <1>2, <1>3 DEF Within
  <2>2. s.start <= t \/ t < s.start
    BY <1>3
  <2>3. In(before, t, u) \/ In(g.rest, t, u) <=>
          In(front, t, u) \/ Within(last, t, u) \/ In(Tail(f.rest), t, u)
    BY <1>7, <1>8, <2>2
  <2>4. QED BY <1>2, <1>4, <1>8, <2>1, <2>3 DEF Holds, Both
<1>11. SplitOK("or", g, n, subspans)
  BY <1>1, <1>7, <1>8, <1>9 DEF SplitOK
<1>12. QED BY <1>7, <1>8, <1>10, <1>11 DEF Splits, Agree, g, d, s

\* And, Subtract: d is cut to its part within s; Subtract keeps what is before.
LEMMA OthersSplitIs ==
  ASSUME NEW n \in Nat, NEW subspans, NEW f, NEW op \in {"and", "subtract"},
         LoopOK(op, f, n, subspans), f.rest # <<>>, f.src # <<>>, Overlapping(f)
  PROVE  Splits(op, f, IF op = "and" THEN AndSplit(f) ELSE SubtractSplit(f), n, subspans)
<1> DEFINE d == DCurr(f)
           s == SCurr(f)
           before == Before(f.done, d, s.start)
           cut == Overlap(d, s)
           after == After(d, s.end, Tail(f.rest))
           g == IF op = "and" THEN AndSplit(f) ELSE SubtractSplit(f)
<1>1. /\ f.done \in Lists(n, subspans) /\ f.rest \in Lists(n, subspans) /\ f.src \in Lists(n, subspans)
      /\ EndsBy(f.done, d.start) /\ d.start < s.end /\ s.start < d.end
  BY DEF LoopOK, Overlapping
<1>2. /\ d \in Spans(n, subspans) /\ s \in Spans(n, subspans)
      /\ Tail(f.rest) \in Lists(n, subspans) /\ StartsAt(Tail(f.rest), d.end)
      /\ Tail(f.src) \in Lists(n, subspans) /\ StartsAt(Tail(f.src), s.end)
      /\ \A t, u : In(f.rest, t, u) <=> Within(d, t, u) \/ In(Tail(f.rest), t, u)
      /\ \A t, u : In(f.src, t, u) <=> Within(s, t, u) \/ In(Tail(f.src), t, u)
  BY <1>1, Currents
<1>3. /\ d.start \in Nat /\ d.end \in Nat /\ s.start \in Nat /\ s.end \in Nat /\ s.start <= s.end
  <2> HIDE DEF d, s
  <2> QED BY <1>2, SpanIs
<1>4. g = Frame(IF op = "and" THEN f.done ELSE before, <<cut>> \o after, f.src)
  BY DEF AndSplit, SubtractSplit
<1> HIDE DEF d, s
<1>5. CutAt(n, subspans, f.done, d, Tail(f.rest), s, before, cut, after)
  BY <1>1, <1>2, Cut
<1> HIDE DEF before, cut, after, g
<1>6. /\ before \in Lists(n, subspans) /\ cut \in Spans(n, subspans) /\ after \in Lists(n, subspans)
      /\ EndsBy(before, cut.start) /\ StartsAt(after, cut.end)
      /\ s.start <= cut.start /\ cut.end <= s.end /\ cut.subspan = d.subspan
      /\ d.start <= cut.start
      /\ \A t \in Nat : \A u : In(before, t, u) <=>
                                 In(f.done, t, u) \/ (Within(d, t, u) /\ t < s.start)
      /\ \A t \in Nat : \A u : Within(cut, t, u) \/ In(after, t, u) <=>
                                 (Within(d, t, u) /\ s.start <= t) \/ In(Tail(f.rest), t, u)
  BY <1>5 DEF CutAt
<1>7. /\ g.done = (IF op = "and" THEN f.done ELSE before) /\ g.rest = <<cut>> \o after
      /\ g.src = f.src /\ g.rest \in Lists(n, subspans) /\ g.rest # <<>>
      /\ DCurr(g) = cut /\ SCurr(g) = s
      /\ \A t, u : In(g.rest, t, u) <=> Within(cut, t, u) \/ In(after, t, u)
  <2>1. /\ g.done = (IF op = "and" THEN f.done ELSE before) /\ g.rest = <<cut>> \o after
        /\ g.src = f.src
    BY <1>4 DEF Frame
  <2>2. SCurr(g) = s
    BY <2>1 DEF SCurr, s
  <2>3. QED BY <1>6, <2>1, <2>2, ListPrepend DEF DCurr
<1>8. g.done \in Lists(n, subspans) /\ EndsBy(g.done, cut.start)
  <2>1. cut.start \in Nat
    BY <1>6, SpanIs
  <2>2. EndsBy(f.done, cut.start)
    BY <1>1, <1>3, <1>6, <2>1, BoundsWiden
  <2>3. QED BY <1>1, <1>6, <1>7, <2>2
<1>9. ASSUME NEW t \in Nat, NEW u PROVE Holds(op, g, t, u) <=> Holds(op, f, t, u)
  <2>1. In(f.src, t, u) => s.start <= t
    <3>1. Within(s, t, u) => s.start <= t
      BY DEF Within
    <3>2. In(Tail(f.src), t, u) => s.end <= t
      BY <1>2, <1>3, InBounds
    <3>3. QED BY <1>2, <1>3, <3>1, <3>2
  <2>2. t < s.start <=> ~(s.start <= t)
    BY <1>3
  <2>3. CASE op = "and"
    BY <1>2, <1>6, <1>7, <2>1, <2>3 DEF Holds, Both
  <2>4. CASE op = "subtract"
    BY <1>2, <1>6, <1>7, <2>1, <2>2, <2>4 DEF Holds, Both
  <2>5. QED BY <2>3, <2>4
<1>10. SplitOK(op, g, n, subspans)
  BY <1>1, <1>6, <1>7, <1>8 DEF SplitOK
<1>11. QED BY <1>6, <1>7, <1>9, <1>10 DEF Splits, Agree, g, d, s

\* d with its new subspans.
LEMMA NewSubspan ==
  ASSUME NEW n \in Nat, NEW subspans, NEW d \in Spans(n, subspans), NEW sub \in subspans
  PROVE  LET e == [d EXCEPT !.subspan = sub]
         IN e \in Spans(n, subspans) /\ e.start = d.start /\ e.end = d.end /\ e.subspan = sub
BY DEF Spans

\* d with its new subspans merged with the spans before and after it.
MergedAround(n, subspans, f, sub, front, m, others) ==
  /\ front \in Lists(n, subspans) /\ m \in Spans(n, subspans) /\ others \in Lists(n, subspans)
  /\ m.start <= DCurr(f).start /\ DCurr(f).end <= m.end /\ m.subspan = sub
  /\ EndsBy(front, m.start) /\ StartsAt(others, m.end)
  /\ \A v : EndsBy(f.done, v) => EndsBy(front, v)
  /\ \A t \in Nat : \A u : In(front, t, u) \/ Within(m, t, u) \/ In(others, t, u) <=>
       \/ In(f.done, t, u) \/ In(Tail(f.rest), t, u)
       \/ DCurr(f).start <= t /\ t < DCurr(f).end /\ Has(sub, u)

\* The merges before and after d have that result.
LEMMA MergeAround ==
  ASSUME NEW n \in Nat, NEW subspans, NEW f, NEW op, SplitOK(op, f, n, subspans), NEW sub \in subspans
  PROVE  LET p == MergePrevious(f.done, [DCurr(f) EXCEPT !.subspan = sub])
             q == MergeNext(Last1(p), Tail(f.rest))
         IN /\ MergedAround(n, subspans, f, sub, Front1(p), q[1], Tail(q))
            /\ q \in Lists(n, subspans) /\ q # <<>>
<1> DEFINE d == DCurr(f)
           e == [d EXCEPT !.subspan = sub]
           p == MergePrevious(f.done, e)
           front == Front1(p)
           last == Last1(p)
           q == MergeNext(last, Tail(f.rest))
           m == q[1]
           others == Tail(q)
<1>1. /\ f.done \in Lists(n, subspans) /\ d \in Spans(n, subspans) /\ EndsBy(f.done, d.start)
      /\ Tail(f.rest) \in Lists(n, subspans) /\ StartsAt(Tail(f.rest), d.end)
  BY Currents DEF SplitOK
<1> HIDE DEF d
<1>2. e \in Spans(n, subspans) /\ e.start = d.start /\ e.end = d.end /\ e.subspan = sub
  BY <1>1, NewSubspan
<1> HIDE DEF e
<1>3. MergedBack(n, subspans, f.done, e, front, last)
  BY <1>1, <1>2, MergePreviousIs
<1> HIDE DEF p, front, last
<1>4. /\ front \in Lists(n, subspans) /\ last \in Spans(n, subspans)
      /\ last.end = d.end /\ last.subspan = sub /\ last.start <= d.start
      /\ EndsBy(front, last.start)
      /\ \A v : EndsBy(f.done, v) => EndsBy(front, v)
      /\ \A t \in Nat : \A u : In(front, t, u) \/ Within(last, t, u) <=>
                                 In(f.done, t, u) \/ Within(e, t, u)
  BY <1>2, <1>3 DEF MergedBack
<1>5. /\ MergedOn(n, subspans, last, Tail(f.rest), m, others)
      /\ q \in Lists(n, subspans) /\ q # <<>>
  BY <1>1, <1>4, MergeNextIs
<1> HIDE DEF q, m, others
<1>6. /\ m \in Spans(n, subspans) /\ others \in Lists(n, subspans)
      /\ m.start = last.start /\ m.subspan = sub /\ d.end <= m.end
      /\ StartsAt(others, m.end)
      /\ \A t \in Nat : \A u : Within(m, t, u) \/ In(others, t, u) <=>
                                 Within(last, t, u) \/ In(Tail(f.rest), t, u)
  BY <1>4, <1>5 DEF MergedOn
<1>7. ASSUME NEW t \in Nat, NEW u
      PROVE  In(front, t, u) \/ Within(m, t, u) \/ In(others, t, u) <=>
               \/ In(f.done, t, u) \/ In(Tail(f.rest), t, u)
               \/ d.start <= t /\ t < d.end /\ Has(sub, u)
  <2>1. Within(e, t, u) <=> d.start <= t /\ t < d.end /\ Has(sub, u)
    BY <1>2 DEF Within
  <2>2. QED BY <2>1, <1>4, <1>6
<1>8. MergedAround(n, subspans, f, sub, front, m, others)
  BY <1>4, <1>6, <1>7 DEF MergedAround, d
<1>9. QED BY <1>5, <1>8 DEF e, d, p, front, last, q, m, others

\* What is between d and the end of the span it has been merged into.
LEMMA AroundParts ==
  ASSUME NEW n \in Nat, NEW subspans, NEW f, NEW op, SplitOK(op, f, n, subspans), NEW sub \in subspans,
         NEW front, NEW m, NEW others, MergedAround(n, subspans, f, sub, front, m, others),
         NEW t \in Nat, NEW u
  PROVE  /\ t < DCurr(f).end =>
              /\ ~In(Tail(f.rest), t, u) /\ ~In(others, t, u)
              /\ In(front, t, u) \/ Within(m, t, u) <=>
                   In(f.done, t, u) \/ (DCurr(f).start <= t /\ Has(sub, u))
         /\ DCurr(f).end <= t =>
              /\ ~In(f.done, t, u) /\ ~In(front, t, u)
              /\ Within(m, t, u) \/ In(others, t, u) <=> In(Tail(f.rest), t, u)
              /\ Within(m, t, u) <=> t < m.end /\ Has(sub, u)
         /\ In(others, t, u) => m.end <= t
<1> DEFINE d == DCurr(f)
<1>1. /\ f.done \in Lists(n, subspans) /\ d \in Spans(n, subspans) /\ EndsBy(f.done, d.start)
      /\ Tail(f.rest) \in Lists(n, subspans) /\ StartsAt(Tail(f.rest), d.end)
  BY Currents DEF SplitOK
<1>2. /\ front \in Lists(n, subspans) /\ m \in Spans(n, subspans) /\ others \in Lists(n, subspans)
      /\ m.start <= d.start /\ d.end <= m.end /\ m.subspan = sub
      /\ EndsBy(front, m.start) /\ StartsAt(others, m.end)
      /\ In(front, t, u) \/ Within(m, t, u) \/ In(others, t, u) <=>
           \/ In(f.done, t, u) \/ In(Tail(f.rest), t, u)
           \/ d.start <= t /\ t < d.end /\ Has(sub, u)
  BY DEF MergedAround
<1> HIDE DEF d
<1>3. /\ d.start \in Nat /\ d.end \in Nat /\ d.start <= d.end /\ m.start \in Nat /\ m.end \in Nat
  BY <1>1, <1>2, SpanIs
<1>4. /\ In(f.done, t, u) => t < d.start
      /\ In(Tail(f.rest), t, u) => d.end <= t
      /\ In(front, t, u) => t < m.start
      /\ In(others, t, u) => m.end <= t
  BY <1>1, <1>2, <1>3, InBounds
<1>5. Within(m, t, u) <=> m.start <= t /\ t < m.end /\ Has(sub, u)
  BY <1>2 DEF Within
<1>6. QED BY <1>2, <1>3, <1>4, <1>5 DEF d

\* The rest of the iteration: Or.
LEMMA OrJoinIs ==
  ASSUME NEW n \in Nat, NEW subspans, NEW f, SplitOK("or", f, n, subspans), NEW sub \in subspans,
         \A u \in Nat : Has(sub, u) <=> Has(DCurr(f).subspan, u) \/ Has(SCurr(f).subspan, u)
  PROVE  Joins("or", f, OrJoin(f, sub), n, subspans)
<1> DEFINE d == DCurr(f)
           s == SCurr(f)
           p == MergePrevious(f.done, [d EXCEPT !.subspan = sub])
           front == Front1(p)
           q == MergeNext(Last1(p), Tail(f.rest))
           m == q[1]
           others == Tail(q)
           g == OrJoin(f, sub)
<1>0. /\ f.done \in Lists(n, subspans) /\ f.rest \in Lists(n, subspans) /\ f.src \in Lists(n, subspans)
      /\ f.rest # <<>> /\ f.src # <<>>
      /\ EndsBy(f.done, d.start) /\ s.start <= d.start /\ d.end <= s.end
      /\ Ahead(f)
  BY DEF SplitOK
<1>1. /\ d \in Spans(n, subspans) /\ s \in Spans(n, subspans)
      /\ Tail(f.rest) \in Lists(n, subspans) /\ StartsAt(Tail(f.rest), d.end)
      /\ Tail(f.src) \in Lists(n, subspans) /\ StartsAt(Tail(f.src), s.end)
      /\ \A t, u : In(f.rest, t, u) <=> Within(d, t, u) \/ In(Tail(f.rest), t, u)
      /\ \A t, u : In(f.src, t, u) <=> Within(s, t, u) \/ In(Tail(f.src), t, u)
  BY <1>0, Currents
<1>2. /\ MergedAround(n, subspans, f, sub, front, m, others)
      /\ q \in Lists(n, subspans) /\ q # <<>>
  BY MergeAround
<1>3. g = IF s.end > m.end
          THEN Frame(Append(front, m), others, <<[s EXCEPT !.start = m.end]>> \o Tail(f.src))
          ELSE Frame(front, q, Tail(f.src))
  BY DEF OrJoin
<1> HIDE DEF g, p
<1>4. DCurr(f) = d /\ SCurr(f) = s
  OBVIOUS
<1>5. q = <<m>> \o others /\ \A t, u : In(q, t, u) <=> Within(m, t, u) \/ In(others, t, u)
  <2> HIDE DEF q
  <2>1. QED BY <1>2, ListTail
<1> HIDE DEF d, s, front, q, m, others
<1>6. /\ front \in Lists(n, subspans) /\ m \in Spans(n, subspans) /\ others \in Lists(n, subspans)
      /\ m.start <= d.start /\ d.end <= m.end /\ m.subspan = sub
      /\ EndsBy(front, m.start) /\ StartsAt(others, m.end)
      /\ \A v : EndsBy(f.done, v) => EndsBy(front, v)
      /\ \A t \in Nat : \A u : In(front, t, u) \/ Within(m, t, u) \/ In(others, t, u) <=>
           \/ In(f.done, t, u) \/ In(Tail(f.rest), t, u)
           \/ d.start <= t /\ t < d.end /\ Has(sub, u)
  BY <1>2, <1>4 DEF MergedAround
<1>7. /\ d.start \in Nat /\ d.end \in Nat /\ d.start <= d.end
      /\ m.start \in Nat /\ m.end \in 0..n /\ m.end \in Nat /\ m.start <= m.end
      /\ s.start \in Nat /\ s.end \in 0..n /\ s.end \in Nat /\ s.start + MinSide <= s.end
      /\ s.subspan \in subspans
      /\ m.start <= d.start /\ d.end <= m.end /\ s.start <= d.start /\ d.end <= s.end
  BY <1>0, <1>1, <1>6, SpanIs
\* What becomes of the points.
<1>8. ASSUME NEW t \in Nat, NEW u \in Nat
      PROVE  /\ In(front, t, u) \/ Within(m, t, u) \/ In(others, t, u) \/ In(Tail(f.src), t, u)
                  => In(f.done, t, u) \/ In(f.rest, t, u) \/ In(f.src, t, u)
             /\ In(f.done, t, u) \/ In(f.rest, t, u) \/ In(Tail(f.src), t, u)
                  => In(front, t, u) \/ Within(m, t, u) \/ In(others, t, u) \/ In(Tail(f.src), t, u)
             /\ Within(s, t, u) /\ t < m.end => In(front, t, u) \/ Within(m, t, u) \/ In(others, t, u)
  <2>1. Has(sub, u) <=> Has(d.subspan, u) \/ Has(s.subspan, u)
    BY <1>4
  <2>2. /\ Within(d, t, u) <=> d.start <= t /\ t < d.end /\ Has(d.subspan, u)
        /\ Within(s, t, u) <=> s.start <= t /\ t < s.end /\ Has(s.subspan, u)
        /\ Within(m, t, u) <=> m.start <= t /\ t < m.end /\ Has(sub, u)
    BY <1>6 DEF Within
  <2>3. s.start <= t /\ t < d.start /\ Has(s.subspan, u) => In(f.done, t, u)
    BY <1>0, <1>4 DEF Ahead
  <2>4. d.start <= t /\ t < d.end => s.start <= t /\ t < s.end
    BY <1>0, <1>7
  <2>5. In(f.rest, t, u) <=> Within(d, t, u) \/ In(Tail(f.rest), t, u)
    BY <1>1
  <2>6. In(f.src, t, u) <=> Within(s, t, u) \/ In(Tail(f.src), t, u)
    BY <1>1
  <2>7. In(front, t, u) \/ Within(m, t, u) \/ In(others, t, u) <=>
           \/ In(f.done, t, u) \/ In(Tail(f.rest), t, u)
           \/ d.start <= t /\ t < d.end /\ Has(sub, u)
    BY <1>6
  <2>8. d.start <= t \/ t < d.start
    BY <1>7
  <2>9. d.start <= t => m.start <= t
    BY <1>6, <1>7
  <2>10. QED BY <2>1, <2>2, <2>3, <2>4, <2>5, <2>6, <2>7, <2>8, <2>9
<1>9. CASE s.end > m.end
  <2> DEFINE s1 == [s EXCEPT !.start = m.end]
  <2>1. /\ s1 = Span(m.end, s.end, s.subspan)
        /\ s1 \in Spans(n, subspans) /\ s1.start = m.end /\ s1.end = s.end /\ s1.subspan = s.subspan
    <3>1. s1 = Span(m.end, s.end, s.subspan)
      BY <1>1 DEF Spans, Span
    <3>2. PICK a \in 0..n, b \in 0..n, c \in subspans : a = m.end /\ b = s.end /\ c = s.subspan
      BY <1>7
    <3>3. a + MinSide <= b
      BY <1>7, <1>9, <3>2, RegionAssumption
    <3>4. /\ Span(a, b, c) \in Spans(n, subspans)
          /\ Span(a, b, c).start = a /\ Span(a, b, c).end = b /\ Span(a, b, c).subspan = c
      BY <3>3, SpanNew
    <3> HIDE DEF s1
    <3>5. QED BY <3>1, <3>2, <3>4
  <2> HIDE DEF s1
  <2>2. g.done = Append(front, m) /\ g.rest = others /\ g.src = <<s1>> \o Tail(f.src)
    BY <1>3, <1>9 DEF Frame, s1
  <2>3. /\ g.done \in Lists(n, subspans) /\ g.done # <<>>
        /\ \A t, u : In(g.done, t, u) <=> In(front, t, u) \/ Within(m, t, u)
        /\ EndsBy(g.done, m.end)
    <3>1. EndsBy(front, m.end) /\ m.end <= m.end
      BY <1>6, <1>7, BoundsWiden
    <3>2. QED BY <1>6, <2>2, <3>1, ListAppend
  <2>4. /\ g.src \in Lists(n, subspans) /\ g.src # <<>> /\ SCurr(g) = s1
        /\ \A t, u : In(g.src, t, u) <=> Within(s1, t, u) \/ In(Tail(f.src), t, u)
    BY <1>1, <2>1, <2>2, ListPrepend DEF SCurr
  <2>5. g.rest # <<>> => EndsBy(g.done, DCurr(g).start)
    <3> SUFFICES ASSUME others # <<>> PROVE EndsBy(g.done, others[1].start)
      BY <2>2 DEF DCurr
    <3>1. m.end <= m.end
      BY <1>7
    <3>2. QED BY <1>6, <1>7, <2>3, <3>1, EndsByNext
  <2>6. LoopOK("or", g, n, subspans)
    BY <1>6, <2>1, <2>2, <2>3, <2>4, <2>5 DEF LoopOK
  <2>7. ASSUME NEW t \in Nat, NEW u \in Nat PROVE Holds("or", g, t, u) <=> Holds("or", f, t, u)
    <3>1. Within(s1, t, u) <=> m.end <= t /\ Within(s, t, u)
      BY <1>0, <1>6, <1>7, <2>1 DEF Within
    <3>2. m.end <= t \/ t < m.end
      BY <1>7
    <3>3. In(f.src, t, u) <=> Within(s, t, u) \/ In(Tail(f.src), t, u)
      BY <1>1
    <3>4. Holds("or", g, t, u) <=> \/ In(front, t, u) \/ Within(m, t, u) \/ In(others, t, u)
                                   \/ Within(s1, t, u) \/ In(Tail(f.src), t, u)
      BY <2>2, <2>3, <2>4 DEF Holds, Both
    <3>5. Holds("or", f, t, u) <=> In(f.done, t, u) \/ In(f.rest, t, u) \/ In(f.src, t, u)
      BY DEF Holds, Both
    <3>6. QED BY <1>8, <3>1, <3>2, <3>3, <3>4, <3>5
  <2>8. QED BY <2>3, <2>6, <2>7 DEF Joins, Agree, g
<1>10. CASE ~(s.end > m.end)
  <2>1. g.done = front /\ g.rest = q /\ g.src = Tail(f.src)
    BY <1>3, <1>10 DEF Frame
  <2>2. DCurr(g) = m
    BY <2>1 DEF DCurr, m
  <2>3. g.src # <<>> => EndsBy(g.done, SCurr(g).start)
    <3> SUFFICES ASSUME Tail(f.src) # <<>> PROVE EndsBy(front, Tail(f.src)[1].start)
      BY <2>1 DEF SCurr
    <3>1. d.start <= s.end
      BY <1>7
    <3>2. EndsBy(front, d.start)
      BY <1>0, <1>6
    <3>3. QED BY <1>1, <1>6, <1>7, <3>1, <3>2, EndsByNext
  <2>4. LoopOK("or", g, n, subspans)
    BY <1>1, <1>2, <1>6, <2>1, <2>2, <2>3 DEF LoopOK
  <2>5. ASSUME NEW t \in Nat, NEW u \in Nat PROVE Holds("or", g, t, u) <=> Holds("or", f, t, u)
    <3>1. Within(s, t, u) => t < m.end
      BY <1>7, <1>10 DEF Within
    <3>2. In(f.src, t, u) <=> Within(s, t, u) \/ In(Tail(f.src), t, u)
      BY <1>1
    <3>3. Holds("or", g, t, u) <=> \/ In(front, t, u) \/ Within(m, t, u) \/ In(others, t, u)
                                   \/ In(Tail(f.src), t, u)
      BY <1>5, <2>1 DEF Holds, Both
    <3>4. Holds("or", f, t, u) <=> In(f.done, t, u) \/ In(f.rest, t, u) \/ In(f.src, t, u)
      BY DEF Holds, Both
    <3>5. QED BY <1>8, <3>1, <3>2, <3>3, <3>4
  <2>6. QED BY <1>2, <2>1, <2>4, <2>5 DEF Joins, Agree, g
<1>11. QED BY <1>9, <1>10

\* Nothing is in an empty list of subspans.
LEMMA HasNone == \A u : ~Has(<<>>, u)
<1>1. <<>> \in Seq([start : Nat, end : Nat, subspan : {NULL}])
  OBVIOUS
<1>2. <<>> # NULL
  BY <1>1, RegionAssumption
<1>3. QED BY <1>2 DEF Has

\* The rest of the iteration: And.
LEMMA AndJoinIs ==
  ASSUME NEW n \in Nat, NEW subspans, NEW f, SplitOK("and", f, n, subspans),
         NEW sub \in subspans \cup {<<>>},
         \A u \in Nat : Has(sub, u) <=> Has(DCurr(f).subspan, u) /\ Has(SCurr(f).subspan, u)
  PROVE  Joins("and", f, AndJoin(f, sub), n, subspans)
<1> DEFINE d == DCurr(f)
           s == SCurr(f)
           e == [d EXCEPT !.subspan = sub]
           p == MergePrevious(f.done, e)
           g == AndJoin(f, sub)
<1>0. /\ f.done \in Lists(n, subspans) /\ f.rest \in Lists(n, subspans) /\ f.src \in Lists(n, subspans)
      /\ f.rest # <<>> /\ f.src # <<>>
      /\ EndsBy(f.done, d.start) /\ s.start <= d.start /\ d.end <= s.end
  BY DEF SplitOK
<1>1. /\ d \in Spans(n, subspans) /\ s \in Spans(n, subspans)
      /\ Tail(f.rest) \in Lists(n, subspans) /\ StartsAt(Tail(f.rest), d.end)
      /\ Tail(f.src) \in Lists(n, subspans) /\ StartsAt(Tail(f.src), s.end)
      /\ \A t, u : In(f.rest, t, u) <=> Within(d, t, u) \/ In(Tail(f.rest), t, u)
      /\ \A t, u : In(f.src, t, u) <=> Within(s, t, u) \/ In(Tail(f.src), t, u)
  BY <1>0, Currents
<1>2. \A u \in Nat : Has(sub, u) <=> Has(d.subspan, u) /\ Has(s.subspan, u)
  OBVIOUS
<1>3. g = IF sub = <<>> THEN Frame(f.done, Tail(f.rest), f.src)
          ELSE Frame(p, Tail(f.rest), IF s.end <= d.end THEN Tail(f.src) ELSE f.src)
  BY DEF AndJoin
<1> HIDE DEF g, p, d, s
<1>4. /\ d.start \in Nat /\ d.end \in Nat /\ d.start <= d.end /\ s.start \in Nat /\ s.end \in Nat
      /\ s.start <= d.start /\ d.end <= s.end
  BY <1>0, <1>1, SpanIs
\* What is done.
<1>5. /\ g.done \in Lists(n, subspans) /\ EndsBy(g.done, d.end)
      /\ g.rest = Tail(f.rest) /\ g.src \in {f.src, Tail(f.src)}
      /\ g.src # f.src => s.end <= d.end
      /\ \A t \in Nat : \A u : In(g.done, t, u) <=>
           In(f.done, t, u) \/ (d.start <= t /\ t < d.end /\ Has(sub, u))
  <2>1. CASE sub = <<>>
    <3>1. g.done = f.done /\ g.rest = Tail(f.rest) /\ g.src = f.src
      BY <1>3, <2>1 DEF Frame
    <3>2. EndsBy(f.done, d.end)
      BY <1>0, <1>4, BoundsWiden
    <3>3. QED BY <1>0, <2>1, <3>1, <3>2, HasNone
  <2>2. CASE sub # <<>>
    <3>1. /\ g.done = p /\ g.rest = Tail(f.rest)
          /\ g.src = IF s.end <= d.end THEN Tail(f.src) ELSE f.src
      BY <1>3, <2>2 DEF Frame
    <3>2. /\ e \in Spans(n, subspans) /\ e.start = d.start /\ e.end = d.end /\ e.subspan = sub
      BY <1>1, <2>2, NewSubspan
    <3> HIDE DEF e
    <3> DEFINE front == Front1(p)
               last == Last1(p)
    <3>3. MergedBack(n, subspans, f.done, e, front, last) /\ p = Append(front, last)
      BY <1>0, <3>2, MergePreviousIs DEF p
    <3> HIDE DEF front, last
    <3>4. /\ front \in Lists(n, subspans) /\ last \in Spans(n, subspans)
          /\ last.end = d.end /\ last.start <= d.start
          /\ EndsBy(front, last.start)
          /\ \A t \in Nat : \A u : In(front, t, u) \/ Within(last, t, u) <=>
                                     In(f.done, t, u) \/ Within(e, t, u)
      BY <3>2, <3>3 DEF MergedBack
    <3>5. last.start \in Nat /\ last.start <= d.end
      BY <1>4, <3>4, SpanIs
    <3>6. EndsBy(front, d.end) /\ last.end <= d.end
      BY <1>4, <3>4, <3>5, BoundsWiden
    <3>7. /\ p \in Lists(n, subspans) /\ EndsBy(p, d.end)
          /\ \A t, u : In(p, t, u) <=> In(front, t, u) \/ Within(last, t, u)
      BY <3>3, <3>4, <3>6, ListAppend
    <3>8. \A t, u : Within(e, t, u) <=> d.start <= t /\ t < d.end /\ Has(sub, u)
      BY <3>2 DEF Within
    <3>9. QED BY <3>1, <3>4, <3>7, <3>8
  <2>3. QED BY <2>1, <2>2
<1>6. g.rest # <<>> => EndsBy(g.done, DCurr(g).start)
  <2> SUFFICES ASSUME Tail(f.rest) # <<>> PROVE EndsBy(g.done, Tail(f.rest)[1].start)
    BY <1>5 DEF DCurr
  <2>1. d.end <= d.end
    BY <1>4
  <2>2. QED BY <1>1, <1>4, <1>5, <2>1, EndsByNext
<1>7. LoopOK("and", g, n, subspans)
  BY <1>0, <1>1, <1>5, <1>6 DEF LoopOK
<1>8. ASSUME NEW t \in Nat, NEW u \in Nat PROVE Holds("and", g, t, u) <=> Holds("and", f, t, u)
  <2>1. /\ Within(d, t, u) <=> d.start <= t /\ t < d.end /\ Has(d.subspan, u)
        /\ Within(s, t, u) <=> s.start <= t /\ t < s.end /\ Has(s.subspan, u)
    BY DEF Within
  <2>2. In(Tail(f.rest), t, u) => d.end <= t
    BY <1>1, <1>4, InBounds
  <2>3. In(Tail(f.src), t, u) => s.end <= t
    BY <1>1, <1>4, InBounds
  <2>4. d.start <= t /\ t < d.end => s.start <= t /\ t < s.end /\ ~(s.end <= t)
    BY <1>4
  <2>5. Has(sub, u) <=> Has(d.subspan, u) /\ Has(s.subspan, u)
    BY <1>2
  <2>6. In(f.rest, t, u) <=> Within(d, t, u) \/ In(Tail(f.rest), t, u)
    BY <1>1
  <2>7. In(f.src, t, u) <=> Within(s, t, u) \/ In(Tail(f.src), t, u)
    BY <1>1
  <2>8. In(Tail(f.rest), t, u) => (In(g.src, t, u) <=> In(f.src, t, u))
    <3>1. CASE g.src = f.src
      BY <3>1
    <3>2. CASE g.src # f.src
      <4>1. g.src = Tail(f.src) /\ s.end <= d.end
        BY <1>5, <3>2
      <4>2. d.end <= t => ~(t < s.end)
        BY <1>4, <4>1
      <4>3. QED BY <2>1, <2>2, <2>7, <4>1, <4>2
    <3>3. QED BY <3>1, <3>2
  <2>9. Holds("and", f, t, u) <=> In(f.done, t, u) \/ (In(f.rest, t, u) /\ In(f.src, t, u))
    BY DEF Holds, Both
  <2>10. Holds("and", g, t, u) <=>
           \/ In(f.done, t, u) \/ (d.start <= t /\ t < d.end /\ Has(sub, u))
           \/ In(Tail(f.rest), t, u) /\ In(g.src, t, u)
    BY <1>5 DEF Holds, Both
  <2>11. QED BY <2>1, <2>2, <2>3, <2>4, <2>5, <2>6, <2>7, <2>8, <2>9, <2>10
<1>9. QED BY <1>7, <1>8 DEF Joins, Agree, g

\* The rest of the iteration: Subtract.
LEMMA SubtractJoinIs ==
  ASSUME NEW n \in Nat, NEW subspans, NEW f, SplitOK("subtract", f, n, subspans),
         NEW sub \in subspans \cup {<<>>},
         \A u \in Nat : Has(sub, u) <=> Has(DCurr(f).subspan, u) /\ ~Has(SCurr(f).subspan, u)
  PROVE  Joins("subtract", f, SubtractJoin(f, sub), n, subspans)
<1> DEFINE d == DCurr(f)
           s == SCurr(f)
           p == MergePrevious(f.done, [d EXCEPT !.subspan = sub])
           front == Front1(p)
           q == MergeNext(Last1(p), Tail(f.rest))
           m == q[1]
           others == Tail(q)
           g == SubtractJoin(f, sub)
<1>0. /\ f.done \in Lists(n, subspans) /\ f.rest \in Lists(n, subspans) /\ f.src \in Lists(n, subspans)
      /\ f.rest # <<>> /\ f.src # <<>>
      /\ EndsBy(f.done, d.start) /\ s.start <= d.start /\ d.end <= s.end
  BY DEF SplitOK
<1>1. /\ d \in Spans(n, subspans) /\ s \in Spans(n, subspans)
      /\ Tail(f.rest) \in Lists(n, subspans) /\ StartsAt(Tail(f.rest), d.end)
      /\ Tail(f.src) \in Lists(n, subspans) /\ StartsAt(Tail(f.src), s.end)
      /\ \A t, u : In(f.rest, t, u) <=> Within(d, t, u) \/ In(Tail(f.rest), t, u)
      /\ \A t, u : In(f.src, t, u) <=> Within(s, t, u) \/ In(Tail(f.src), t, u)
  BY <1>0, Currents
<1>2. \A u \in Nat : Has(sub, u) <=> Has(d.subspan, u) /\ ~Has(s.subspan, u)
  OBVIOUS
<1>3. g = IF sub = <<>> THEN Frame(f.done, Tail(f.rest), f.src)
          ELSE IF s.end > m.end THEN Frame(Append(front, m), others, f.src)
          ELSE Frame(front, q, Tail(f.src))
  BY DEF SubtractJoin
<1>4. sub # <<>> => /\ MergedAround(n, subspans, f, sub, front, m, others)
                    /\ q \in Lists(n, subspans) /\ q # <<>>
  <2>1. SUFFICES ASSUME sub \in subspans
                 PROVE  /\ MergedAround(n, subspans, f, sub, front, m, others)
                        /\ q \in Lists(n, subspans) /\ q # <<>>
    OBVIOUS
  <2>2. QED BY <2>1, MergeAround
<1>5. q \in Lists(n, subspans) /\ q # <<>> =>
        q = <<m>> \o others /\ \A t, u : In(q, t, u) <=> Within(m, t, u) \/ In(others, t, u)
  <2> HIDE DEF q
  <2>1. QED BY ListTail
<1>6. DCurr(f) = d /\ SCurr(f) = s
  OBVIOUS
<1> HIDE DEF g, p, d, s, front, q, m, others
<1>7. /\ d.start \in Nat /\ d.end \in Nat /\ d.start <= d.end /\ s.start \in Nat /\ s.end \in Nat
      /\ s.start <= d.start /\ d.end <= s.end
  BY <1>0, <1>1, SpanIs
\* The points of the loop before.
<1>8. ASSUME NEW t \in Nat, NEW u \in Nat
      PROVE  /\ Holds("subtract", f, t, u) <=>
                  \/ In(f.done, t, u)
                  \/ d.start <= t /\ t < d.end /\ Has(sub, u)
                  \/ In(Tail(f.rest), t, u) /\ ~In(f.src, t, u)
             /\ In(f.src, t, u) <=> Within(s, t, u) \/ In(Tail(f.src), t, u)
             /\ Within(s, t, u) <=> s.start <= t /\ t < s.end /\ Has(s.subspan, u)
             /\ In(Tail(f.src), t, u) => s.end <= t
             /\ In(Tail(f.rest), t, u) => d.end <= t
             /\ Has(sub, u) => ~Has(s.subspan, u)
  <2>1. /\ Within(d, t, u) <=> d.start <= t /\ t < d.end /\ Has(d.subspan, u)
        /\ Within(s, t, u) <=> s.start <= t /\ t < s.end /\ Has(s.subspan, u)
    BY DEF Within
  <2>2. In(Tail(f.rest), t, u) => d.end <= t
    BY <1>1, <1>7, InBounds
  <2>3. In(Tail(f.src), t, u) => s.end <= t
    BY <1>1, <1>7, InBounds
  <2>4. d.start <= t /\ t < d.end => s.start <= t /\ t < s.end /\ ~(s.end <= t)
    BY <1>7
  <2>5. Has(sub, u) <=> Has(d.subspan, u) /\ ~Has(s.subspan, u)
    BY <1>2
  <2>6. In(f.rest, t, u) <=> Within(d, t, u) \/ In(Tail(f.rest), t, u)
    BY <1>1
  <2>7. In(f.src, t, u) <=> Within(s, t, u) \/ In(Tail(f.src), t, u)
    BY <1>1
  <2>8. Holds("subtract", f, t, u) <=> In(f.done, t, u) \/ (In(f.rest, t, u) /\ ~In(f.src, t, u))
    BY DEF Holds, Both
  <2>9. QED BY <2>1, <2>2, <2>3, <2>4, <2>5, <2>6, <2>7, <2>8
<1>9. CASE sub = <<>>
  <2>1. g.done = f.done /\ g.rest = Tail(f.rest) /\ g.src = f.src
    BY <1>3, <1>9 DEF Frame
  <2>2. g.rest # <<>> => EndsBy(g.done, DCurr(g).start)
    <3> SUFFICES ASSUME Tail(f.rest) # <<>> PROVE EndsBy(f.done, Tail(f.rest)[1].start)
      BY <2>1 DEF DCurr
    <3>1. QED BY <1>0, <1>1, <1>7, EndsByNext
  <2>3. LoopOK("subtract", g, n, subspans)
    BY <1>0, <1>1, <2>1, <2>2 DEF LoopOK
  <2>4. ASSUME NEW t \in Nat, NEW u \in Nat
        PROVE  Holds("subtract", g, t, u) <=> Holds("subtract", f, t, u)
    <3>1. ~Has(sub, u)
      BY <1>9, HasNone
    <3>2. Holds("subtract", g, t, u) <=>
            In(f.done, t, u) \/ (In(Tail(f.rest), t, u) /\ ~In(f.src, t, u))
      BY <2>1 DEF Holds, Both
    <3>3. QED BY <1>8, <3>1, <3>2
  <2>5. QED BY <2>3, <2>4 DEF Joins, Agree, g
<1>10. CASE sub # <<>>
  <2>0. /\ MergedAround(n, subspans, f, sub, front, m, others)
        /\ q \in Lists(n, subspans) /\ q # <<>>
        /\ q = <<m>> \o others /\ \A t, u : In(q, t, u) <=> Within(m, t, u) \/ In(others, t, u)
    BY <1>4, <1>5, <1>10
  <2>1. /\ front \in Lists(n, subspans) /\ m \in Spans(n, subspans) /\ others \in Lists(n, subspans)
        /\ m.start <= d.start /\ d.end <= m.end /\ m.subspan = sub
        /\ EndsBy(front, m.start) /\ StartsAt(others, m.end)
    BY <1>6, <2>0 DEF MergedAround
  <2>2. m.start \in Nat /\ m.end \in Nat /\ m.start <= m.end
    BY <2>1, SpanIs
  <2>3. ASSUME NEW t \in Nat, NEW u \in Nat
        PROVE  /\ t < d.end =>
                    /\ ~In(Tail(f.rest), t, u) /\ ~In(others, t, u)
                    /\ In(front, t, u) \/ Within(m, t, u) <=>
                         In(f.done, t, u) \/ (d.start <= t /\ Has(sub, u))
               /\ d.end <= t =>
                    /\ ~In(f.done, t, u) /\ ~In(front, t, u)
                    /\ Within(m, t, u) \/ In(others, t, u) <=> In(Tail(f.rest), t, u)
                    /\ Within(m, t, u) <=> t < m.end /\ Has(sub, u)
               /\ In(others, t, u) => m.end <= t
    <3>1. sub \in subspans
      BY <1>10
    <3>2. QED BY <1>6, <2>0, <3>1, AroundParts
  <2>4. CASE s.end > m.end
    <3>1. g.done = Append(front, m) /\ g.rest = others /\ g.src = f.src
      BY <1>3, <1>10, <2>4 DEF Frame
    <3>2. /\ g.done \in Lists(n, subspans)
          /\ \A t, u : In(g.done, t, u) <=> In(front, t, u) \/ Within(m, t, u)
          /\ EndsBy(g.done, m.end)
      <4>1. EndsBy(front, m.end) /\ m.end <= m.end
        BY <2>1, <2>2, BoundsWiden
      <4>2. QED BY <2>1, <3>1, <4>1, ListAppend
    <3>3. g.rest # <<>> => EndsBy(g.done, DCurr(g).start)
      <4> SUFFICES ASSUME others # <<>> PROVE EndsBy(g.done, others[1].start)
        BY <3>1 DEF DCurr
      <4>1. m.end <= m.end
        BY <2>2
      <4>2. QED BY <2>1, <2>2, <3>2, <4>1, EndsByNext
    <3>4. LoopOK("subtract", g, n, subspans)
      BY <1>0, <2>1, <3>1, <3>2, <3>3 DEF LoopOK
    <3>5. ASSUME NEW t \in Nat, NEW u \in Nat
          PROVE  Holds("subtract", g, t, u) <=> Holds("subtract", f, t, u)
      <4>1. Holds("subtract", g, t, u) <=>
              In(front, t, u) \/ Within(m, t, u) \/ (In(others, t, u) /\ ~In(f.src, t, u))
        BY <3>1, <3>2 DEF Holds, Both
      <4>2. CASE t < d.end
        BY <1>8, <2>3, <4>1, <4>2
      <4>3. CASE d.end <= t
        <5>1. t < m.end => t < s.end /\ ~(s.end <= t)
          BY <1>7, <2>2, <2>4
        <5>2. Within(m, t, u) => ~In(f.src, t, u)
          BY <1>8, <2>3, <4>3, <5>1
        <5>3. ~(t < d.end)
          BY <1>7, <4>3
        <5>4. QED BY <1>8, <2>3, <4>1, <4>3, <5>2, <5>3
      <4>4. QED BY <1>7, <4>2, <4>3
    <3>6. QED BY <3>4, <3>5 DEF Joins, Agree, g
  <2>5. CASE ~(s.end > m.end)
    <3>1. g.done = front /\ g.rest = q /\ g.src = Tail(f.src)
      BY <1>3, <1>10, <2>5 DEF Frame
    <3>2. DCurr(g) = m
      BY <3>1 DEF DCurr, m
    <3>3. LoopOK("subtract", g, n, subspans)
      BY <1>1, <2>0, <2>1, <3>1, <3>2 DEF LoopOK
    <3>4. ASSUME NEW t \in Nat, NEW u \in Nat
          PROVE  Holds("subtract", g, t, u) <=> Holds("subtract", f, t, u)
      <4>1. Holds("subtract", g, t, u) <=>
              In(front, t, u) \/ ((Within(m, t, u) \/ In(others, t, u)) /\ ~In(Tail(f.src), t, u))
        BY <2>0, <3>1 DEF Holds, Both
      <4>2. CASE t < d.end
        <5>1. ~(s.end <= t)
          BY <1>7, <4>2
        <5>2. ~In(Tail(f.src), t, u)
          BY <1>8, <5>1
        <5>3. QED BY <1>8, <2>3, <4>1, <4>2, <5>2
      <4>3. CASE d.end <= t
        <5>1. ~(t < d.end) /\ (t < s.end => t < m.end /\ ~(m.end <= t)) /\ (s.end <= t => ~(t < s.end))
          BY <1>7, <2>2, <2>5, <4>3
        <5>2. t < s.end \/ s.end <= t
          BY <1>7
        <5>3. In(Tail(f.rest), t, u) => (In(f.src, t, u) <=> In(Tail(f.src), t, u))
          <6>1. SUFFICES ASSUME In(Tail(f.rest), t, u), t < s.end PROVE ~Within(s, t, u)
            BY <1>8, <5>1, <5>2
          <6>2. Within(m, t, u)
            BY <2>3, <4>3, <5>1, <6>1
          <6>3. Has(sub, u)
            BY <2>3, <4>3, <6>2
          <6>4. QED BY <1>8, <6>3
        <5>4. QED BY <1>8, <2>3, <4>1, <4>3, <5>1, <5>3
      <4>4. QED BY <1>7, <4>2, <4>3
    <3>5. QED BY <3>3, <3>4 DEF Joins, Agree, g
  <2>6. QED BY <2>4, <2>5
<1>11. QED BY <1>9, <1>10

-----------------------------------------------------------------------------
(***************************************************************************)
(* The iterations without a call                                           *)
(***************************************************************************)
Steps(op, f, g, n, subspans) ==
  /\ LoopOK(op, g, n, subspans)
  /\ Agree(op, f, g)
  /\ op = "or" /\ (f.done # <<>> \/ f.rest # <<>>) => g.done # <<>> \/ g.rest # <<>>

\* Or at the end of the destination.
LEMMA OrAtEndIs ==
  ASSUME NEW n \in Nat, NEW subspans, NEW f, LoopOK("or", f, n, subspans),
         f.rest = <<>>, f.src # <<>>
  PROVE  Steps("or", f, Frame(Append(f.done, SCurr(f)), <<>>, Tail(f.src)), n, subspans)
<1> DEFINE s == SCurr(f)
           g == Frame(Append(f.done, s), <<>>, Tail(f.src))
<1>1. /\ f.done \in Lists(n, subspans) /\ f.src \in Lists(n, subspans) /\ EndsBy(f.done, s.start)
  BY DEF LoopOK
<1>2. /\ s \in Spans(n, subspans) /\ Tail(f.src) \in Lists(n, subspans)
      /\ StartsAt(Tail(f.src), s.end)
      /\ \A t, u : In(f.src, t, u) <=> Within(s, t, u) \/ In(Tail(f.src), t, u)
  BY <1>1, ListTail DEF SCurr
<1>3. g.done = Append(f.done, s) /\ g.rest = <<>> /\ g.src = Tail(f.src)
  BY DEF Frame
<1> HIDE DEF s, g
<1>4. s.start \in Nat /\ s.end \in Nat /\ s.start <= s.end
  BY <1>2, SpanIs
<1>5. /\ g.done \in Lists(n, subspans) /\ g.done # <<>>
      /\ \A t, u : In(g.done, t, u) <=> In(f.done, t, u) \/ Within(s, t, u)
      /\ \A w : EndsBy(g.done, w) <=> EndsBy(f.done, w) /\ s.end <= w
  BY <1>1, <1>2, <1>3, ListAppend
<1>6. g.src # <<>> => EndsBy(g.done, SCurr(g).start)
  <2> SUFFICES ASSUME Tail(f.src) # <<>> PROVE EndsBy(g.done, Tail(f.src)[1].start)
    BY <1>3 DEF SCurr
  <2>1. EndsBy(f.done, s.end) /\ s.end <= s.end
    BY <1>1, <1>4, BoundsWiden
  <2>2. EndsBy(g.done, s.end)
    BY <1>5, <2>1
  <2>3. QED BY <1>2, <1>4, <1>5, <2>1, <2>2, EndsByNext
<1>7. LoopOK("or", g, n, subspans)
  BY <1>2, <1>3, <1>5, <1>6, ListEmpty DEF LoopOK
<1>8. ASSUME NEW t \in Nat, NEW u \in Nat PROVE Holds("or", g, t, u) <=> Holds("or", f, t, u)
  BY <1>2, <1>3, <1>5, ListEmpty DEF Holds, Both
<1>9. QED BY <1>5, <1>7, <1>8 DEF Steps, Agree, g, s

\* Or before the destination's current span.
LEMMA OrBeforeIs ==
  ASSUME NEW n \in Nat, NEW subspans, NEW f, LoopOK("or", f, n, subspans),
         f.rest # <<>>, f.src # <<>>, DCurr(f).start >= SCurr(f).end
  PROVE  LET p == MergePrevious(Append(f.done, SCurr(f)), DCurr(f))
         IN Steps("or", f, Frame(Front1(p), <<Last1(p)>> \o Tail(f.rest), Tail(f.src)), n, subspans)
<1> DEFINE d == DCurr(f)
           s == SCurr(f)
           done == Append(f.done, s)
           p == MergePrevious(done, d)
           front == Front1(p)
           last == Last1(p)
           g == Frame(front, <<last>> \o Tail(f.rest), Tail(f.src))
<1>1. /\ f.done \in Lists(n, subspans) /\ f.rest \in Lists(n, subspans)
      /\ f.src \in Lists(n, subspans) /\ EndsBy(f.done, s.start) /\ d.start >= s.end
  BY DEF LoopOK
<1>2. /\ d \in Spans(n, subspans) /\ s \in Spans(n, subspans)
      /\ Tail(f.rest) \in Lists(n, subspans) /\ StartsAt(Tail(f.rest), d.end)
      /\ Tail(f.src) \in Lists(n, subspans) /\ StartsAt(Tail(f.src), s.end)
      /\ \A t, u : In(f.rest, t, u) <=> Within(d, t, u) \/ In(Tail(f.rest), t, u)
      /\ \A t, u : In(f.src, t, u) <=> Within(s, t, u) \/ In(Tail(f.src), t, u)
  BY <1>1, Currents
<1>3. g.done = front /\ g.rest = <<last>> \o Tail(f.rest) /\ g.src = Tail(f.src)
  BY DEF Frame
<1> HIDE DEF d, s, g
<1>4. /\ d.start \in Nat /\ s.start \in Nat /\ s.end \in Nat /\ s.start <= s.end /\ s.end <= d.start
  BY <1>1, <1>2, SpanIs
<1>5. /\ done \in Lists(n, subspans)
      /\ \A t, u : In(done, t, u) <=> In(f.done, t, u) \/ Within(s, t, u)
      /\ \A w : EndsBy(done, w) <=> EndsBy(f.done, w) /\ s.end <= w
  BY <1>1, <1>2, ListAppend
<1> HIDE DEF done
<1>6. ASSUME NEW v \in Nat, s.end <= v PROVE EndsBy(done, v)
  <2>1. s.start <= v
    BY <1>4, <1>6
  <2>2. EndsBy(f.done, v)
    BY <1>1, <1>4, <2>1, BoundsWiden
  <2>3. QED BY <1>5, <1>6, <2>2
<1>7. MergedBack(n, subspans, done, d, front, last)
  BY <1>2, <1>4, <1>5, <1>6, MergePreviousIs
<1> HIDE DEF p, front, last
<1>8. /\ front \in Lists(n, subspans) /\ last \in Spans(n, subspans) /\ last.end = d.end
      /\ EndsBy(front, last.start)
      /\ \A v : EndsBy(done, v) => EndsBy(front, v)
      /\ \A t \in Nat : \A u : In(front, t, u) \/ Within(last, t, u) <=>
                                 In(done, t, u) \/ Within(d, t, u)
  BY <1>7 DEF MergedBack
<1>9. /\ g.rest \in Lists(n, subspans) /\ g.rest # <<>> /\ DCurr(g) = last
      /\ \A t, u : In(g.rest, t, u) <=> Within(last, t, u) \/ In(Tail(f.rest), t, u)
  BY <1>2, <1>3, <1>8, ListPrepend DEF DCurr
<1>10. g.src # <<>> => EndsBy(g.done, SCurr(g).start)
  <2> SUFFICES ASSUME Tail(f.src) # <<>> PROVE EndsBy(front, Tail(f.src)[1].start)
    BY <1>3 DEF SCurr
  <2>1. s.end <= s.end
    BY <1>4
  <2>2. EndsBy(front, s.end)
    BY <1>4, <1>6, <1>8, <2>1
  <2>3. QED BY <1>2, <1>4, <1>8, <2>1, <2>2, EndsByNext
<1>11. LoopOK("or", g, n, subspans)
  BY <1>2, <1>3, <1>8, <1>9, <1>10 DEF LoopOK
<1>12. ASSUME NEW t \in Nat, NEW u \in Nat PROVE Holds("or", g, t, u) <=> Holds("or", f, t, u)
  BY <1>2, <1>3, <1>5, <1>8, <1>9 DEF Holds, Both
<1>13. QED BY <1>9, <1>11, <1>12 DEF Steps, Agree, g, front, last, p, done, d, s

\* A span of the source that is behind the destination.
LEMMA SkipSourceIs ==
  ASSUME NEW n \in Nat, NEW subspans, NEW f, NEW op \in {"and", "subtract"},
         LoopOK(op, f, n, subspans),
         f.rest # <<>>, f.src # <<>>, DCurr(f).start >= SCurr(f).end
  PROVE  Steps(op, f, Frame(f.done, f.rest, Tail(f.src)), n, subspans)
<1> DEFINE d == DCurr(f)
           s == SCurr(f)
           g == Frame(f.done, f.rest, Tail(f.src))
<1>1. /\ f.done \in Lists(n, subspans) /\ f.rest \in Lists(n, subspans)
      /\ f.src \in Lists(n, subspans) /\ EndsBy(f.done, d.start) /\ d.start >= s.end
  BY DEF LoopOK
<1>2. /\ d \in Spans(n, subspans) /\ s \in Spans(n, subspans)
      /\ Tail(f.rest) \in Lists(n, subspans) /\ StartsAt(Tail(f.rest), d.end)
      /\ Tail(f.src) \in Lists(n, subspans)
      /\ \A t, u : In(f.rest, t, u) <=> Within(d, t, u) \/ In(Tail(f.rest), t, u)
      /\ \A t, u : In(f.src, t, u) <=> Within(s, t, u) \/ In(Tail(f.src), t, u)
  BY <1>1, Currents
<1>3. g.done = f.done /\ g.rest = f.rest /\ g.src = Tail(f.src) /\ DCurr(g) = d
  BY DEF Frame, DCurr
<1> HIDE DEF d, s, g
<1>4. d.start \in Nat /\ d.end \in Nat /\ d.start <= d.end /\ s.end \in Nat /\ s.end <= d.start
  BY <1>1, <1>2, SpanIs
<1>5. LoopOK(op, g, n, subspans)
  BY <1>1, <1>2, <1>3 DEF LoopOK
<1>6. ASSUME NEW t \in Nat, NEW u \in Nat PROVE Holds(op, g, t, u) <=> Holds(op, f, t, u)
  <2>1. In(Tail(f.rest), t, u) => d.end <= t
    BY <1>2, <1>4, InBounds
  <2>2. Within(d, t, u) => d.start <= t
    BY DEF Within
  <2>3. Within(s, t, u) => t < s.end
    BY DEF Within
  <2>4. ~(In(f.rest, t, u) /\ Within(s, t, u))
    BY <1>2, <1>4, <2>1, <2>2, <2>3
  <2>5. CASE op = "and"
    BY <1>2, <1>3, <2>4, <2>5 DEF Holds, Both
  <2>6. CASE op = "subtract"
    BY <1>2, <1>3, <2>4, <2>6 DEF Holds, Both
  <2>7. QED BY <2>5, <2>6
<1>7. QED BY <1>5, <1>6 DEF Steps, Agree, g

\* A span of the destination that is behind the source.
LEMMA SkipDestinationIs ==
  ASSUME NEW n \in Nat, NEW subspans, NEW f, NEW op \in {"or", "and", "subtract"},
         LoopOK(op, f, n, subspans),
         f.rest # <<>>, f.src # <<>>, DCurr(f).end <= SCurr(f).start
  PROVE  Steps(op, f, Frame(IF op = "and" THEN f.done ELSE Append(f.done, DCurr(f)),
                            Tail(f.rest), f.src), n, subspans)
<1> DEFINE d == DCurr(f)
           s == SCurr(f)
           g == Frame(IF op = "and" THEN f.done ELSE Append(f.done, d), Tail(f.rest), f.src)
<1>1. /\ f.done \in Lists(n, subspans) /\ f.rest \in Lists(n, subspans)
      /\ f.src \in Lists(n, subspans) /\ EndsBy(f.done, d.start) /\ d.end <= s.start
  BY DEF LoopOK
<1>2. /\ d \in Spans(n, subspans) /\ s \in Spans(n, subspans)
      /\ Tail(f.rest) \in Lists(n, subspans) /\ StartsAt(Tail(f.rest), d.end)
      /\ Tail(f.src) \in Lists(n, subspans) /\ StartsAt(Tail(f.src), s.end)
      /\ \A t, u : In(f.rest, t, u) <=> Within(d, t, u) \/ In(Tail(f.rest), t, u)
      /\ \A t, u : In(f.src, t, u) <=> Within(s, t, u) \/ In(Tail(f.src), t, u)
  BY <1>1, Currents
<1>3. /\ g.done = (IF op = "and" THEN f.done ELSE Append(f.done, d))
      /\ g.rest = Tail(f.rest) /\ g.src = f.src /\ SCurr(g) = s
  BY DEF Frame, SCurr
<1> HIDE DEF d, s, g
<1>4. /\ d.start \in Nat /\ d.end \in Nat /\ d.start <= d.end
      /\ s.start \in Nat /\ s.end \in Nat /\ s.start <= s.end
  BY <1>2, SpanIs
<1>5. EndsBy(f.done, d.end)
  BY <1>1, <1>4, BoundsWiden
<1>6. /\ Append(f.done, d) \in Lists(n, subspans) /\ Append(f.done, d) # <<>>
      /\ \A t, u : In(Append(f.done, d), t, u) <=> In(f.done, t, u) \/ Within(d, t, u)
      /\ EndsBy(Append(f.done, d), d.end)
  <2>1. d.end <= d.end
    BY <1>4
  <2>2. QED BY <1>1, <1>2, <1>5, <2>1, ListAppend
<1>7. g.done \in Lists(n, subspans) /\ EndsBy(g.done, d.end)
  BY <1>1, <1>3, <1>5, <1>6
<1>8. g.rest # <<>> => EndsBy(g.done, DCurr(g).start)
  <2> SUFFICES ASSUME Tail(f.rest) # <<>> PROVE EndsBy(g.done, Tail(f.rest)[1].start)
    BY <1>3 DEF DCurr
  <2>1. d.end <= d.end
    BY <1>4
  <2>2. QED BY <1>2, <1>4, <1>7, <2>1, EndsByNext
<1>9. EndsBy(g.done, s.start)
  BY <1>1, <1>4, <1>7, BoundsWiden
<1>10. LoopOK(op, g, n, subspans)
  BY <1>1, <1>2, <1>3, <1>7, <1>8, <1>9 DEF LoopOK
<1>11. ASSUME NEW t \in Nat, NEW u \in Nat PROVE Holds(op, g, t, u) <=> Holds(op, f, t, u)
  <2>1. In(Tail(f.src), t, u) => s.end <= t
    BY <1>2, <1>4, InBounds
  <2>2. Within(d, t, u) => t < d.end
    BY DEF Within
  <2>3. Within(s, t, u) => s.start <= t
    BY DEF Within
  <2>4. ~(Within(d, t, u) /\ In(f.src, t, u))
    BY <1>1, <1>2, <1>4, <2>1, <2>2, <2>3
  <2>5. CASE op = "and"
    BY <1>2, <1>3, <2>4, <2>5 DEF Holds, Both
  <2>6. CASE op = "subtract"
    BY <1>2, <1>3, <1>6, <2>4, <2>6 DEF Holds, Both
  <2>7. CASE op = "or"
    BY <1>2, <1>3, <1>6, <2>7 DEF Holds, Both
  <2>8. QED BY <2>5, <2>6, <2>7
<1>12. op # "and" => g.done # <<>>
  BY <1>3, <1>6
<1>13. QED BY <1>10, <1>11, <1>12 DEF Steps, Agree, g, d

-----------------------------------------------------------------------------
(***************************************************************************)
(* A call from its beginning to its end                                    *)
(***************************************************************************)
Ops == {"or", "and", "subtract"}

\* The loop computes the operation on a and b.
Computes(op, f, a, b) ==
  \A t \in Nat : \A u \in Nat : Holds(op, f, t, u) <=> Both(op, In(a, t, u), In(b, t, u))

\* It begins with nothing done.
LEMMA LoopBegins ==
  ASSUME NEW n \in Nat, NEW subspans, NEW op, NEW a \in Lists(n, subspans),
         NEW b \in Lists(n, subspans)
  PROVE  /\ LoopOK(op, Frame(<<>>, a, b), n, subspans)
         /\ Computes(op, Frame(<<>>, a, b), a, b)
<1> DEFINE f == Frame(<<>>, a, b)
<1>1. f.done = <<>> /\ f.rest = a /\ f.src = b
  BY DEF Frame
<1> HIDE DEF f
<1>2. LoopOK(op, f, n, subspans)
  BY <1>1, ListEmpty DEF LoopOK
<1>3. \A t, u : ~In(f.done, t, u)
  BY <1>1, ListEmpty
<1>4. Computes(op, f, a, b)
  BY <1>1, <1>3 DEF Computes, Holds
<1>5. QED BY <1>2, <1>4 DEF f

\* Every iteration leaves the result as it is.
LEMMA LoopContinues ==
  ASSUME NEW op, NEW f, NEW g, NEW a, NEW b, Computes(op, f, a, b), Agree(op, f, g)
  PROVE  Computes(op, g, a, b)
BY DEF Computes, Agree

\* It ends with all of the result.
LEMMA LoopEnds ==
  ASSUME NEW n \in Nat, NEW subspans, call.op \in Ops, NEW f, LoopOK(call.op, f, n, subspans),
         Ended(f)
  PROVE  /\ Result(f) \in Lists(n, subspans)
         /\ \A t \in Nat : \A u \in Nat : In(Result(f), t, u) <=> Holds(call.op, f, t, u)
         /\ call.op = "or" /\ (f.done # <<>> \/ f.rest # <<>>) => Result(f) # <<>>
<1>1. f.done \in Lists(n, subspans) /\ f.rest \in Lists(n, subspans) /\ f.src \in Lists(n, subspans)
  BY DEF LoopOK
<1>2. \A t, u : ~In(<<>>, t, u)
  BY ListEmpty
<1> DEFINE list == f.done \o f.rest
<1>3. /\ list \in Lists(n, subspans)
      /\ \A t, u : In(list, t, u) <=> In(f.done, t, u) \/ In(f.rest, t, u)
      /\ list = <<>> => f.done = <<>> /\ f.rest = <<>>
  <2>1. CASE f.rest = <<>>
    <3>1. f.done \in Seq(Spans(n, subspans))
      BY <1>1, ListIs
    <3>2. list = f.done
      BY <2>1, <3>1
    <3> HIDE DEF list
    <3>3. QED BY <1>1, <1>2, <2>1, <3>2
  <2>2. CASE f.rest # <<>>
    <3> DEFINE d == f.rest[1]
    <3>1. d \in Spans(n, subspans) /\ StartsAt(Tail(f.rest), d.end) /\ EndsBy(f.done, d.start)
          /\ f.rest = <<d>> \o Tail(f.rest) /\ Tail(f.rest) \in Lists(n, subspans)
      BY <1>1, <2>2, ListTail DEF LoopOK, DCurr
    <3> HIDE DEF d
    <3>2. d.start \in Nat /\ d.end \in Nat /\ d.start <= d.end
      BY <3>1, SpanIs
    <3>3. StartsAt(f.rest, d.start)
      <4>1. StartsAt(Tail(f.rest), d.start) /\ d.start <= d.start
        BY <3>1, <3>2, BoundsWiden
      <4> DEFINE b == Tail(f.rest)
      <4>2. b \in Lists(n, subspans) /\ StartsAt(b, d.end) /\ StartsAt(b, d.start) /\ f.rest = <<d>> \o b
        BY <3>1, <4>1
      <4> HIDE DEF b
      <4>3. StartsAt(<<d>> \o b, d.start)
        BY <3>1, <4>1, <4>2, ListPrepend
      <4>4. QED BY <4>2, <4>3
    <3>4. QED BY <1>1, <3>1, <3>2, <3>3, ListConcat
  <2>3. QED BY <2>1, <2>2
<1>4. Result(f) = IF call.op = "and" THEN f.done ELSE list
  BY DEF Result
<1> HIDE DEF list
<1>5. ASSUME NEW t \in Nat, NEW u \in Nat
      PROVE  In(Result(f), t, u) <=> Holds(call.op, f, t, u)
  <2>1. f.src = <<>> \/ (call.op # "or" /\ f.rest = <<>>)
    BY DEF Ended
  <2>2. CASE call.op = "or"
    BY <1>2, <1>3, <1>4, <2>1, <2>2 DEF Holds, Both
  <2>3. CASE call.op = "and"
    BY <1>2, <1>3, <1>4, <2>1, <2>3 DEF Holds, Both
  <2>4. CASE call.op = "subtract"
    BY <1>2, <1>3, <1>4, <2>1, <2>4 DEF Holds, Both
  <2>5. QED BY <2>2, <2>3, <2>4 DEF Ops
<1>6. QED BY <1>1, <1>3, <1>4, <1>5

\* Up to the call, and after it.
LEMMA SplitIs ==
  ASSUME NEW n \in Nat, NEW subspans, NEW f, call.op \in Ops, LoopOK(call.op, f, n, subspans),
         f.rest # <<>>, f.src # <<>>, Overlapping(f)
  PROVE  Splits(call.op, f, Split(f), n, subspans)
<1>1. CASE call.op = "or"
  BY <1>1, OrSplitIs DEF Split
<1>2. CASE call.op = "and"
  <2>1. Split(f) = AndSplit(f)
    BY <1>2 DEF Split
  <2>2. Splits("and", f, IF "and" = "and" THEN AndSplit(f) ELSE SubtractSplit(f), n, subspans)
    BY <1>2, OthersSplitIs
  <2>3. QED BY <1>2, <2>1, <2>2
<1>3. CASE call.op = "subtract"
  <2>1. Split(f) = SubtractSplit(f)
    BY <1>3 DEF Split
  <2>2. Splits("subtract", f, IF "subtract" = "and" THEN AndSplit(f) ELSE SubtractSplit(f), n, subspans)
    BY <1>3, OthersSplitIs
  <2>3. QED BY <1>3, <2>1, <2>2
<1>4. QED BY <1>1, <1>2, <1>3 DEF Ops

\* After the call the loop goes on with the same result, if the call has computed the
\* subspans.
LEMMA JoinIs ==
  ASSUME NEW n \in Nat, NEW subspans, NEW f, call.op \in Ops, SplitOK(call.op, f, n, subspans),
         NEW sub, sub \in subspans \/ (sub = <<>> /\ call.op # "or"),
         \A u \in Nat : Has(sub, u) <=>
                          Both(call.op, Has(DCurr(f).subspan, u), Has(SCurr(f).subspan, u))
  PROVE  Joins(call.op, f, Join(f, sub), n, subspans)
<1>1. CASE call.op = "or"
  <2>1. \A u \in Nat : Has(sub, u) <=> Has(DCurr(f).subspan, u) \/ Has(SCurr(f).subspan, u)
    BY <1>1 DEF Both
  <2>2. sub \in subspans /\ Join(f, sub) = OrJoin(f, sub)
    BY <1>1 DEF Join
  <2>3. QED BY <1>1, <2>1, <2>2, OrJoinIs
<1>2. CASE call.op = "and"
  <2>1. \A u \in Nat : Has(sub, u) <=> Has(DCurr(f).subspan, u) /\ Has(SCurr(f).subspan, u)
    BY <1>2 DEF Both
  <2>2. sub \in subspans \cup {<<>>} /\ Join(f, sub) = AndJoin(f, sub)
    BY <1>2 DEF Join
  <2>3. QED BY <1>2, <2>1, <2>2, AndJoinIs
<1>3. CASE call.op = "subtract"
  <2>1. \A u \in Nat : Has(sub, u) <=> Has(DCurr(f).subspan, u) /\ ~Has(SCurr(f).subspan, u)
    BY <1>3 DEF Both
  <2>2. sub \in subspans \cup {<<>>} /\ Join(f, sub) = SubtractJoin(f, sub)
    BY <1>3 DEF Join
  <2>3. QED BY <1>3, <2>1, <2>2, SubtractJoinIs
<1>4. QED BY <1>1, <1>2, <1>3 DEF Ops

-----------------------------------------------------------------------------
(***************************************************************************)
(* The inductive invariant: the loop on the rows computes the operation,   *)
(* and the loop on the columns the subspans of the rows it was called for. *)
(***************************************************************************)
ColumnLists == Lists(Columns, {NULL})
RowSubspans == ColumnLists \ {<<>>}
RowLists == Lists(Rows, RowSubspans)
Grid == (0..(Columns - 1)) \X (0..(Rows - 1))

OnRows(f) == Computes(call.op, f, region[call.i], region[3 - call.i])
OnColumns(f, h) ==
  /\ LoopOK(call.op, h, Columns, {NULL})
  /\ Computes(call.op, h, DCurr(f).subspan, SCurr(f).subspan)
  /\ call.op = "or" => h.done # <<>> \/ h.rest # <<>>

Called == call \in [op : Ops, i : 1..2] /\ call # NULL /\ call.op \in Ops /\ call.i \in 1..2
Idle == call = NULL /\ calls = <<>>
Outer == Called /\ \E f : calls = <<f>> /\ LoopOK(call.op, f, Rows, RowSubspans) /\ OnRows(f)
Inner == Called /\ \E f, h : /\ calls = <<h, f>>
                             /\ SplitOK(call.op, f, Rows, RowSubspans) /\ OnRows(f)
                             /\ OnColumns(f, h)
RegionCalls == Idle \/ Outer \/ Inner

Regions == region \in [1..2 -> RowLists]
RegionPixels ==
  /\ pixels \in [1..2 -> SUBSET Grid]
  /\ \A i \in 1..2 : \A p \in Grid : p \in pixels[i] <=> In(region[i], p[2], p[1])
RegionInv == Regions /\ RegionCalls /\ RegionPixels

\* The subspans of a row are not NULL, so that u is in them exactly if it is in
\* one of their spans.
LEMMA ColumnsHave ==
  ASSUME NEW sub \in ColumnLists
  PROVE  sub # NULL /\ \A t \in Nat : \A u : In(sub, t, u) <=> Has(sub, t)
<1>1. sub \in Seq([start : Nat, end : Nat, subspan : {NULL}])
  <2>1. sub \in Seq(Spans(Columns, {NULL})) /\ Len(sub) \in Nat
    BY RegionAssumption, ListIs DEF ColumnLists
  <2> DEFINE S == Spans(Columns, {NULL})
             T == [start : Nat, end : Nat, subspan : {NULL}]
  <2>2. ASSUME NEW d \in S PROVE d \in T
    BY RegionAssumption DEF Spans
  <2> HIDE DEF S, T
  <2>3. sub \in Seq(S)
    BY <2>1 DEF S
  <2>4. Seq(S) \subseteq Seq(T)
    BY <2>2
  <2>5. QED BY <2>3, <2>4 DEF T
<1>2. sub # NULL
  BY <1>1, RegionAssumption
<1>3. ASSUME NEW k \in 1..Len(sub) PROVE sub[k].subspan = NULL
  <2>1. sub[k] \in Spans(Columns, {NULL})
    BY RegionAssumption, ListIs DEF ColumnLists
  <2>2. QED BY <2>1, RegionAssumption, SpanIs
<1>4. \A k \in 1..Len(sub) : \A u : Has(sub[k].subspan, u)
  BY <1>3 DEF Has
<1>5. QED BY <1>2, <1>4 DEF In, Within, Has

\* Initially there are two empty regions.
LEMMA RegionInvInit == ASSUME RegionInit PROVE RegionInv
<1>1. Rows \in Nat
  BY RegionAssumption
<1>2. <<>> \in RowLists /\ \A t, u : ~In(<<>>, t, u)
  BY <1>1, ListEmpty DEF RowLists
<1>3. region \in [1..2 -> RowLists] /\ \A i \in 1..2 : region[i] = <<>>
  BY <1>2 DEF RegionInit
<1>4. pixels \in [1..2 -> SUBSET Grid] /\ \A i \in 1..2 : pixels[i] = {}
  BY DEF RegionInit
<1>5. QED BY <1>2, <1>3, <1>4 DEF RegionInit, RegionInv, Regions, RegionCalls, Idle, RegionPixels

\* The two kinds of loops.
Level(n, subspans) ==
  \/ n = Columns /\ subspans = {NULL}
  \/ n = Rows /\ subspans = RowSubspans

\* The call at the top of two.
LEMMA OneBelow ==
  ASSUME NEW f, NEW g, NEW h
  PROVE  <<g>> \o Tail(<<h, f>>) = <<g, f>>
<1> DEFINE S == {f, g, h}
           two == <<h, f>>
           one == Tail(two)
           top == <<g>>
           both == top \o one
<1>1. two \in Seq(S) /\ Len(two) = 2 /\ two[2] = f
  OBVIOUS
<1> HIDE DEF two
<1>2. one \in Seq(S) /\ Len(one) = 1 /\ one[1] = f
  BY <1>1
<1>0. top \in Seq(S) /\ Len(top) = 1 /\ top[1] = g
  OBVIOUS
<1> HIDE DEF one, top
<1>3. both \in Seq(S) /\ Len(both) = 2 /\ both[1] = g /\ both[2] = f
  BY <1>0, <1>2, ConcatProperties
<1>4. <<g, f>> \in Seq(S) /\ Len(<<g, f>>) = 2 /\ <<g, f>>[1] = g /\ <<g, f>>[2] = f
  OBVIOUS
<1> HIDE DEF both
<1>5. \A i \in 1..2 : both[i] = <<g, f>>[i]
  BY <1>3, <1>4
<1>6. both = <<g, f>>
  BY <1>3, <1>4, <1>5, SeqEqual
<1>7. QED BY <1>6 DEF both, top, one, two

\* An iteration without a call, in the loop at the top.
LEMMA LoopStep ==
  ASSUME RegionCalls, calls # <<>>, NEW g, Becomes(g),
         \A n \in Nat : \A subspans : Level(n, subspans) /\ LoopOK(call.op, calls[1], n, subspans) =>
                                        Steps(call.op, calls[1], g, n, subspans)
  PROVE  RegionCalls'
<1>0. Columns \in Nat /\ Rows \in Nat
  BY RegionAssumption
<1>1. calls' = <<g>> \o Tail(calls) /\ call' = call /\ region' = region
  BY DEF Becomes
<1>2. CASE Outer
  <2>1. PICK f : calls = <<f>> /\ LoopOK(call.op, f, Rows, RowSubspans) /\ OnRows(f)
    BY <1>2 DEF Outer
  <2>2. calls[1] = f /\ calls' = <<g>>
    BY <1>1, <2>1
  <2>3. Steps(call.op, f, g, Rows, RowSubspans)
    BY <1>0, <2>1, <2>2 DEF Level
  <2>4. OnRows(g)
    BY <2>1, <2>3, LoopContinues DEF Steps, OnRows
  <2>5. Outer'
    BY <1>1, <1>2, <2>2, <2>3, <2>4 DEF Outer, Called, OnRows, Steps
  <2>6. QED BY <2>5 DEF RegionCalls
<1>3. CASE Inner
  <2>1. PICK f, h : /\ calls = <<h, f>>
                    /\ SplitOK(call.op, f, Rows, RowSubspans) /\ OnRows(f)
                    /\ OnColumns(f, h)
    BY <1>3 DEF Inner
  <2>2. calls[1] = h /\ calls' = <<g, f>>
    <3>1. QED BY <1>1, <2>1, OneBelow
  <2>3. Steps(call.op, h, g, Columns, {NULL})
    BY <1>0, <2>1, <2>2 DEF Level, OnColumns
  <2>4. OnColumns(f, g)
    BY <2>1, <2>3, LoopContinues DEF Steps, OnColumns
  <2>5. Inner'
    BY <1>1, <1>3, <2>1, <2>2, <2>4 DEF Inner, Called, OnRows, OnColumns
  <2>6. QED BY <2>5 DEF RegionCalls
<1>4. QED BY <1>2, <1>3 DEF RegionCalls, Idle

\* While there is a call, its operation is one of the three.
LEMMA CallIs == ASSUME RegionCalls, calls # <<>> PROVE Called
BY DEF RegionCalls, Idle, Outer, Inner

\* Or at the end.
LEMMA OrAtEndStep == ASSUME RegionCalls, OrAtEnd PROVE RegionCalls'
<1> DEFINE f == calls[1]
           g == Frame(Append(f.done, SCurr(f)), <<>>, Tail(f.src))
<1>1. calls # <<>> /\ call.op = "or" /\ f.rest = <<>> /\ f.src # <<>> /\ Becomes(g)
  BY DEF OrAtEnd, Loop
<1> HIDE DEF f
<1>2. ASSUME NEW n \in Nat, NEW subspans, LoopOK(call.op, f, n, subspans)
      PROVE  Steps(call.op, f, g, n, subspans)
  BY <1>1, <1>2, OrAtEndIs
<1> HIDE DEF g
<1>3. QED BY <1>1, <1>2, LoopStep DEF f

\* Or before the destination's current span.
LEMMA OrBeforeStep == ASSUME RegionCalls, OrBefore PROVE RegionCalls'
<1> DEFINE f == calls[1]
           p == MergePrevious(Append(f.done, SCurr(f)), DCurr(f))
           g == Frame(Front1(p), <<Last1(p)>> \o Tail(f.rest), Tail(f.src))
<1>1. /\ calls # <<>> /\ call.op = "or" /\ f.rest # <<>> /\ f.src # <<>>
      /\ DCurr(f).start >= SCurr(f).end /\ Becomes(g)
  BY DEF OrBefore, Loop
<1> HIDE DEF f
<1>2. ASSUME NEW n \in Nat, NEW subspans, LoopOK(call.op, f, n, subspans)
      PROVE  Steps(call.op, f, g, n, subspans)
  BY <1>1, <1>2, OrBeforeIs
<1> HIDE DEF g
<1>3. QED BY <1>1, <1>2, LoopStep DEF f

\* The source is behind.
LEMMA SkipSourceStep == ASSUME RegionCalls, SkipSource PROVE RegionCalls'
<1> DEFINE f == calls[1]
           g == Frame(f.done, f.rest, Tail(f.src))
<1>1. /\ calls # <<>> /\ call.op \in {"and", "subtract"} /\ f.rest # <<>> /\ f.src # <<>>
      /\ DCurr(f).start >= SCurr(f).end /\ Becomes(g)
  BY DEF SkipSource, Loop
<1> HIDE DEF f
<1>2. ASSUME NEW n \in Nat, NEW subspans, LoopOK(call.op, f, n, subspans)
      PROVE  Steps(call.op, f, g, n, subspans)
  BY <1>1, <1>2, SkipSourceIs
<1> HIDE DEF g
<1>3. QED BY <1>1, <1>2, LoopStep DEF f

\* The destination is behind.
LEMMA SkipDestinationStep == ASSUME RegionCalls, SkipDestination PROVE RegionCalls'
<1> DEFINE f == calls[1]
           g == Frame(IF call.op = "and" THEN f.done ELSE Append(f.done, DCurr(f)),
                      Tail(f.rest), f.src)
<1>1. /\ calls # <<>> /\ call.op \in {"or", "and", "subtract"} /\ f.rest # <<>> /\ f.src # <<>>
      /\ DCurr(f).end <= SCurr(f).start /\ Becomes(g)
  BY DEF SkipDestination, Loop
<1> HIDE DEF f
<1>2. ASSUME NEW n \in Nat, NEW subspans, LoopOK(call.op, f, n, subspans)
      PROVE  Steps(call.op, f, g, n, subspans)
  BY <1>1, <1>2, SkipDestinationIs
<1> HIDE DEF g
<1>3. QED BY <1>1, <1>2, LoopStep DEF f

\* The spans overlap.
LEMMA OverlapsStep == ASSUME RegionCalls, Overlaps PROVE RegionCalls'
<1> DEFINE f == calls[1]
           g == Split(f)
           sub == IF call.op = "subtract" THEN <<>> ELSE NULL
           h == Frame(<<>>, DCurr(g).subspan, SCurr(g).subspan)
<1>1. /\ calls # <<>> /\ f.rest # <<>> /\ f.src # <<>> /\ Overlapping(f)
      /\ Called /\ call.op \in Ops
  BY CallIs DEF Overlaps, Loop, Called
<1>2. IF DCurr(g).subspan = NULL THEN Becomes(Join(g, sub))
      ELSE calls' = <<h, g>> /\ UNCHANGED <<region, pixels, call>>
  BY DEF Overlaps
<1>3. Columns \in Nat /\ Rows \in Nat
  BY RegionAssumption
<1> HIDE DEF f, g
<1>4. ASSUME NEW n \in Nat, NEW subspans, LoopOK(call.op, f, n, subspans)
      PROVE  /\ Splits(call.op, f, g, n, subspans)
             /\ DCurr(g).subspan \in subspans /\ SCurr(g).subspan \in subspans
  <2>1. Splits(call.op, f, g, n, subspans)
    BY <1>1, <1>4, SplitIs DEF g
  <2>2. DCurr(g) \in Spans(n, subspans) /\ SCurr(g) \in Spans(n, subspans)
    BY <2>1, Currents DEF Splits, SplitOK
  <2>3. QED BY <2>1, <2>2, SpanIs
<1>5. CASE DCurr(g).subspan = NULL
  <2>1. ASSUME NEW n \in Nat, NEW subspans, Level(n, subspans), LoopOK(call.op, f, n, subspans)
        PROVE  Steps(call.op, f, Join(g, sub), n, subspans)
    <3>1. /\ Splits(call.op, f, g, n, subspans)
          /\ NULL \in subspans /\ SCurr(g).subspan \in subspans
      BY <1>4, <1>5, <2>1
    <3>2. subspans = {NULL}
      BY <2>1, <3>1, ColumnsHave DEF Level, RowSubspans
    <3>3. \A u : Has(NULL, u)
      BY DEF Has
    <3>4. \A u \in Nat : Has(sub, u) <=>
                           Both(call.op, Has(DCurr(g).subspan, u), Has(SCurr(g).subspan, u))
      <4>1. \A u : Has(DCurr(g).subspan, u) /\ Has(SCurr(g).subspan, u)
        BY <1>5, <3>1, <3>2, <3>3
      <4>2. CASE call.op = "subtract"
        BY <4>1, <4>2, HasNone DEF Both
      <4>3. CASE call.op # "subtract"
        BY <1>1, <3>3, <4>1, <4>3 DEF Both, Ops
      <4>4. QED BY <4>2, <4>3
    <3>5. sub \in subspans \/ (sub = <<>> /\ call.op # "or")
      BY <3>2
    <3> HIDE DEF sub
    <3>6. Joins(call.op, g, Join(g, sub), n, subspans)
      BY <1>1, <3>1, <3>4, <3>5, JoinIs DEF Splits
    <3>7. QED BY <3>1, <3>6 DEF Splits, Joins, Steps, Agree
  <2> HIDE DEF sub
  <2> DEFINE j == Join(g, sub)
  <2>2. Becomes(j)
    BY <1>2, <1>5 DEF sub
  <2>3. \A n \in Nat : \A subspans : Level(n, subspans) /\ LoopOK(call.op, f, n, subspans) =>
                                       Steps(call.op, f, j, n, subspans)
    BY <2>1
  <2> HIDE DEF j
  <2>4. QED BY <1>1, <2>2, <2>3, LoopStep DEF f
<1>6. CASE DCurr(g).subspan # NULL
  <2>1. ~Inner
    <3>1. SUFFICES ASSUME Inner PROVE FALSE
      OBVIOUS
    <3>2. LoopOK(call.op, f, Columns, {NULL})
      BY <3>1 DEF Inner, OnColumns, f
    <3>3. DCurr(g).subspan \in {NULL}
      BY <1>3, <1>4, <3>2
    <3>4. QED BY <1>6, <3>3
  <2>2. /\ calls = <<f>> /\ LoopOK(call.op, f, Rows, RowSubspans) /\ OnRows(f)
    BY <1>1, <2>1 DEF RegionCalls, Idle, Outer, f
  <2>3. /\ Splits(call.op, f, g, Rows, RowSubspans)
        /\ DCurr(g).subspan \in RowSubspans /\ SCurr(g).subspan \in RowSubspans
    BY <1>3, <1>4, <2>2
  <2>4. SplitOK(call.op, g, Rows, RowSubspans) /\ OnRows(g)
    BY <2>2, <2>3, LoopContinues DEF Splits, OnRows
  <2>5. h.rest = DCurr(g).subspan /\ h.rest # <<>>
    BY <2>3 DEF Frame, RowSubspans
  <2>6. LoopOK(call.op, h, Columns, {NULL})
        /\ Computes(call.op, h, DCurr(g).subspan, SCurr(g).subspan)
    BY <1>3, <2>3, LoopBegins DEF RowSubspans, ColumnLists
  <2>7. OnColumns(g, h)
    BY <2>5, <2>6 DEF OnColumns
  <2> HIDE DEF h
  <2>8. calls' = <<h, g>> /\ UNCHANGED <<region, pixels, call>>
    BY <1>2, <1>6
  <2>9. Inner'
    BY <1>1, <2>4, <2>7, <2>8 DEF Inner, Called, OnRows, OnColumns
  <2>10. QED BY <2>9 DEF RegionCalls
<1>7. QED BY <1>5, <1>6

\* The loop on the columns returns to the one on the rows.
LEMMA ReturnStep == ASSUME RegionCalls, Return PROVE RegionCalls'
<1>0. Columns \in Nat /\ Rows \in Nat /\ 0 \in Nat
  BY RegionAssumption
<1>1. Inner
  BY DEF Return, RegionCalls, Idle, Outer
<1>2. PICK f, h : /\ calls = <<h, f>>
                  /\ SplitOK(call.op, f, Rows, RowSubspans) /\ OnRows(f)
                  /\ OnColumns(f, h)
  BY <1>1 DEF Inner
<1>3. Called /\ call.op \in Ops
  BY <1>1 DEF Inner, Called
<1> DEFINE sub == Result(h)
           g == Join(f, sub)
<1>4. Ended(h) /\ calls' = <<g>> /\ UNCHANGED <<region, pixels, call>>
  BY <1>2 DEF Return
<1>5. /\ sub \in Lists(Columns, {NULL})
      /\ \A t \in Nat : \A u \in Nat : In(sub, t, u) <=> Holds(call.op, h, t, u)
      /\ call.op = "or" /\ (h.done # <<>> \/ h.rest # <<>>) => sub # <<>>
  BY <1>0, <1>2, <1>3, <1>4, LoopEnds DEF OnColumns
<1> HIDE DEF sub
<1> DEFINE a == DCurr(f).subspan
           b == SCurr(f).subspan
<1>6. a \in ColumnLists /\ b \in ColumnLists /\ sub \in ColumnLists
  <2>1. DCurr(f) \in Spans(Rows, RowSubspans) /\ SCurr(f) \in Spans(Rows, RowSubspans)
    BY <1>0, <1>2, Currents DEF SplitOK
  <2>2. a \in RowSubspans /\ b \in RowSubspans
    BY <1>0, <2>1, SpanIs
  <2>3. QED BY <1>5, <2>2 DEF RowSubspans, ColumnLists
<1>7. ASSUME NEW u \in Nat
      PROVE  Has(sub, u) <=> Both(call.op, Has(a, u), Has(b, u))
  <2> HIDE DEF a, b
  <2>1. /\ Has(sub, u) <=> In(sub, u, 0)
        /\ Has(a, u) <=> In(a, u, 0)
        /\ Has(b, u) <=> In(b, u, 0)
    BY <1>6, ColumnsHave
  <2>2. In(sub, u, 0) <=> Holds(call.op, h, u, 0)
    BY <1>0, <1>5
  <2>3. Holds(call.op, h, u, 0) <=> Both(call.op, In(a, u, 0), In(b, u, 0))
    BY <1>0, <1>2 DEF OnColumns, Computes, a, b
  <2>4. QED BY <1>3, <2>1, <2>2, <2>3 DEF Both, Ops
<1>8. sub \in RowSubspans \/ (sub = <<>> /\ call.op # "or")
  BY <1>2, <1>5, <1>6 DEF RowSubspans, OnColumns
<1>9. Joins(call.op, f, g, Rows, RowSubspans)
  BY <1>0, <1>2, <1>3, <1>7, <1>8, JoinIs
<1>10. LoopOK(call.op, g, Rows, RowSubspans) /\ OnRows(g)
  BY <1>2, <1>9, LoopContinues DEF Joins, OnRows
<1> HIDE DEF g
<1>11. Outer'
  BY <1>3, <1>4, <1>10 DEF Outer, Called, OnRows
<1>12. QED BY <1>11 DEF RegionCalls

\* The operation is done.
LEMMA FinishStep == ASSUME RegionInv, Finish PROVE RegionInv'
<1>0. Rows \in Nat
  BY RegionAssumption
<1>1. Regions /\ RegionCalls /\ RegionPixels
  BY DEF RegionInv
<1>2. Outer
  <2>1. ~Inner
    BY DEF Finish, Inner
  <2>2. ~Idle
    BY DEF Finish, Idle
  <2>3. QED BY <1>1, <2>1, <2>2 DEF RegionCalls
<1>3. PICK f : calls = <<f>> /\ LoopOK(call.op, f, Rows, RowSubspans) /\ OnRows(f)
  BY <1>2 DEF Outer
<1> DEFINE i == call.i
           list == Result(f)
           set == Combined(pixels[i], pixels[3 - i])
<1>4. call.op \in Ops /\ i \in 1..2 /\ 3 - i \in 1..2
  BY <1>2 DEF Outer, Called
<1>5. /\ Ended(f) /\ region' = [region EXCEPT ![i] = list]
      /\ pixels' = [pixels EXCEPT ![i] = set] /\ call' = NULL /\ calls' = <<>>
  BY <1>3 DEF Finish
<1>6. /\ list \in Lists(Rows, RowSubspans)
      /\ \A t \in Nat : \A u \in Nat : In(list, t, u) <=> Holds(call.op, f, t, u)
  BY <1>0, <1>3, <1>4, <1>5, LoopEnds
<1>7. set \in SUBSET Grid
  BY <1>1, <1>4 DEF Combined, RegionPixels
<1>8. ASSUME NEW p \in Grid PROVE p \in set <=> In(list, p[2], p[1])
  <2>1. p[1] \in Nat /\ p[2] \in Nat
    BY RegionAssumption DEF Grid
  <2>2. In(list, p[2], p[1]) <=>
          Both(call.op, In(region[i], p[2], p[1]), In(region[3 - i], p[2], p[1]))
    BY <1>3, <1>6, <2>1 DEF OnRows, Computes
  <2>3. /\ p \in pixels[i] <=> In(region[i], p[2], p[1])
        /\ p \in pixels[3 - i] <=> In(region[3 - i], p[2], p[1])
    BY <1>1, <1>4 DEF RegionPixels
  <2>4. p \in set <=> Both(call.op, p \in pixels[i], p \in pixels[3 - i])
    BY <1>4 DEF Combined, Both, Ops
  <2> HIDE DEF set, list, i
  <2>5. QED BY <1>4, <2>2, <2>3, <2>4 DEF Both, Ops
<1> HIDE DEF i, list, set
<1>9. Regions'
  BY <1>1, <1>4, <1>5, <1>6 DEF Regions, RowLists
<1>10. RegionPixels'
  BY <1>1, <1>4, <1>5, <1>7, <1>8 DEF RegionPixels, Regions
<1>11. RegionCalls'
  BY <1>5 DEF RegionCalls, Idle
<1>12. QED BY <1>9, <1>10, <1>11 DEF RegionInv

\* An operation begins.
LEMMA CombineStep ==
  ASSUME RegionInv, NEW op \in Ops, NEW i \in 1..2, Combine(op, i)
  PROVE  RegionInv'
<1>0. Rows \in Nat
  BY RegionAssumption
<1>1. region[i] \in Lists(Rows, RowSubspans) /\ region[3 - i] \in Lists(Rows, RowSubspans)
  BY DEF RegionInv, Regions, RowLists
<1> DEFINE f == Frame(<<>>, region[i], region[3 - i])
<1>2. call' = [op |-> op, i |-> i] /\ calls' = <<f>> /\ UNCHANGED <<region, pixels>>
  BY DEF Combine
<1>3. call' # NULL /\ call' \in [op : Ops, i : 1..2] /\ call'.op = op /\ call'.i = i
  BY <1>2, RegionAssumption DEF Ops
<1>4. LoopOK(op, f, Rows, RowSubspans) /\ Computes(op, f, region[i], region[3 - i])
  BY <1>0, <1>1, LoopBegins
<1> HIDE DEF f
<1>5. Outer'
  BY <1>2, <1>3, <1>4 DEF Outer, Called, OnRows
<1>6. QED BY <1>2, <1>5 DEF RegionInv, Regions, RegionCalls, RegionPixels

\* The region of one rectangle.
LEMMA CreateRectIs ==
  ASSUME NEW x1 \in 0..Columns, NEW x2 \in 0..Columns, NEW y1 \in 0..Rows, NEW y2 \in 0..Rows,
         x1 + MinSide <= x2, y1 + MinSide <= y2
  PROVE  /\ sraRgnCreateRect(x1, y1, x2, y2) \in RowLists
         /\ \A p \in Grid : In(sraRgnCreateRect(x1, y1, x2, y2), p[2], p[1]) <=>
                             x1 <= p[1] /\ p[1] < x2 /\ y1 <= p[2] /\ p[2] < y2
<1>0. Rows \in Nat /\ Columns \in Nat
  BY RegionAssumption
<1> DEFINE column == Span(x1, x2, NULL)
           sub == <<column>>
           row == Span(y1, y2, sub)
           list == <<row>>
<1>1. /\ column \in Spans(Columns, {NULL}) /\ column.start = x1 /\ column.end = x2
      /\ column.subspan = NULL
  BY <1>0, SpanNew
<1> HIDE DEF column
<1>2. /\ sub \in ColumnLists /\ sub # <<>>
      /\ \A t, u : In(sub, t, u) <=> Within(column, t, u)
  BY <1>0, <1>1, ListOne DEF ColumnLists
<1> HIDE DEF sub
<1>3. /\ row \in Spans(Rows, RowSubspans) /\ row.start = y1 /\ row.end = y2
      /\ row.subspan = sub
  <2>1. sub \in RowSubspans
    BY <1>2 DEF RowSubspans
  <2>2. QED BY <1>0, <2>1, SpanNew
<1> HIDE DEF row
<1>4. list \in RowLists /\ \A t, u : In(list, t, u) <=> Within(row, t, u)
  BY <1>0, <1>3, ListOne DEF RowLists
<1>5. list = sraRgnCreateRect(x1, y1, x2, y2)
  BY DEF sraRgnCreateRect, list, row, sub, column
<1> HIDE DEF list
<1>6. ASSUME NEW p \in Grid
      PROVE  In(list, p[2], p[1]) <=> x1 <= p[1] /\ p[1] < x2 /\ y1 <= p[2] /\ p[2] < y2
  <2>1. p[1] \in Nat /\ p[2] \in Nat
    BY <1>0 DEF Grid
  <2>2. Has(sub, p[1]) <=> x1 <= p[1] /\ p[1] < x2
    <3>1. Has(sub, p[1]) <=> In(sub, p[1], 0)
      BY <1>2, <2>1, ColumnsHave
    <3>2. Within(column, p[1], 0) <=> x1 <= p[1] /\ p[1] < x2
      BY <1>1 DEF Within, Has
    <3>3. QED BY <1>2, <3>1, <3>2
  <2>3. Within(row, p[2], p[1]) <=> y1 <= p[2] /\ p[2] < y2 /\ Has(sub, p[1])
    BY <1>3 DEF Within
  <2>4. QED BY <1>4, <2>2, <2>3
<1>7. QED BY <1>4, <1>5, <1>6

\* A new rectangle.
LEMMA CreateRectStep ==
  ASSUME RegionInv, NEW i \in 1..2, CreateRect(i)
  PROVE  RegionInv'
<1>1. PICK x1 \in 0..Columns, x2 \in 0..Columns, y1 \in 0..Rows, y2 \in 0..Rows :
        /\ x1 + MinSide <= x2 /\ y1 + MinSide <= y2
        /\ region' = [region EXCEPT ![i] = sraRgnCreateRect(x1, y1, x2, y2)]
        /\ pixels' = [pixels EXCEPT ![i] = Area([x1 |-> x1, x2 |-> x2, y1 |-> y1, y2 |-> y2])]
  BY DEF CreateRect
<1>2. call = NULL /\ call' = NULL /\ calls' = calls
  BY DEF CreateRect
<1> DEFINE list == sraRgnCreateRect(x1, y1, x2, y2)
           set == Area([x1 |-> x1, x2 |-> x2, y1 |-> y1, y2 |-> y2])
<1>3. \A p \in Grid : p \in set <=> x1 <= p[1] /\ p[1] < x2 /\ y1 <= p[2] /\ p[2] < y2
  BY DEF Area, Grid
<1>4. set \in SUBSET Grid
  BY DEF Area, Grid
<1> HIDE DEF list, set
<1>5. list \in RowLists /\ \A p \in Grid : p \in set <=> In(list, p[2], p[1])
  BY <1>1, <1>3, CreateRectIs DEF list
<1>6. region' = [region EXCEPT ![i] = list] /\ pixels' = [pixels EXCEPT ![i] = set]
  BY <1>1 DEF list, set
<1>7. Regions' /\ RegionPixels'
  BY <1>4, <1>5, <1>6 DEF RegionInv, Regions, RegionPixels
<1>8. RegionCalls'
  BY <1>2 DEF RegionInv, RegionCalls, Idle, Outer, Inner, Called
<1>9. QED BY <1>7, <1>8 DEF RegionInv

\* The steps of an operation up to its end leave the regions alone.
LEMMA LoopsKeepRegions ==
  ASSUME RegionInv,
         OrAtEnd \/ OrBefore \/ SkipSource \/ SkipDestination \/ Overlaps \/ Return
  PROVE  RegionInv'
<1>1. RegionCalls'
  BY OrAtEndStep, OrBeforeStep, SkipSourceStep, SkipDestinationStep, OverlapsStep, ReturnStep
     DEF RegionInv
<1>2. region' = region /\ pixels' = pixels
  BY DEF OrAtEnd, OrBefore, SkipSource, SkipDestination, Overlaps, Return, Becomes
<1>3. QED BY <1>1, <1>2 DEF RegionInv, Regions, RegionPixels

\* The lists of every region are in order, every loop computes its operation, and
\* a region has the points its set has: rfbregion.c keeps this with every step.
THEOREM RegionInvariant == RegionSpec => []RegionInv
<1>1. RegionInit => RegionInv
  BY RegionInvInit
<1>2. RegionInv /\ [RegionNext]_regionVars => RegionInv'
  <2> SUFFICES ASSUME RegionInv, [RegionNext]_regionVars PROVE RegionInv'
    OBVIOUS
  <2>1. ASSUME NEW i \in 1..2, CreateRect(i) PROVE RegionInv'
    BY <2>1, CreateRectStep
  <2>2. ASSUME NEW i \in 1..2, sraRgnOr(i) \/ sraRgnAnd(i) \/ sraRgnSubtract(i) PROVE RegionInv'
    BY <2>2, CombineStep DEF sraRgnOr, sraRgnAnd, sraRgnSubtract, Ops
  <2>3. CASE OrAtEnd \/ OrBefore \/ SkipSource \/ SkipDestination \/ Overlaps \/ Return
    BY <2>3, LoopsKeepRegions
  <2>4. CASE Finish
    BY <2>4, FinishStep
  <2>5. CASE UNCHANGED regionVars
    <3>1. region' = region /\ pixels' = pixels /\ call' = call /\ calls' = calls
      BY <2>5 DEF regionVars
    <3>2. (Idle => Idle') /\ (Outer => Outer') /\ (Inner => Inner')
      BY <3>1 DEF Idle, Outer, Inner, Called, OnRows, OnColumns
    <3>3. QED BY <3>1, <3>2 DEF RegionInv, Regions, RegionPixels, RegionCalls
  <2>6. QED BY <2>1, <2>2, <2>3, <2>4, <2>5 DEF RegionNext
<1>3. QED BY <1>1, <1>2, PTL DEF RegionSpec

-----------------------------------------------------------------------------
(***************************************************************************)
(* The rectangles of a region                                              *)
(***************************************************************************)

\* A set of numbers up to n that is left by no step has them all.
LEMMA UpTo ==
  ASSUME NEW n \in Nat, NEW S, 0 \in S, \A k \in 0..n : k \in S /\ k < n => k + 1 \in S
  PROVE  0..n \subseteq S
<1> DEFINE R == (0..n) \ S
<1>1. SUFFICES ASSUME R # {} PROVE FALSE
  OBVIOUS
<1>2. PICK m \in R : \A k \in R : m <= k
  <2>1. R \in SUBSET Nat
    OBVIOUS
  <2> HIDE DEF R
  <2>2. QED BY <1>1, <2>1, LeastExists
<1>3. m \in 1..n /\ m - 1 \in 0..n /\ m - 1 < n /\ m = (m - 1) + 1
  BY <1>2
<1>4. m - 1 \in S
  <2>1. ~(m <= m - 1)
    BY <1>3
  <2>2. QED BY <1>2, <1>3, <2>1
<1>5. QED BY <1>2, <1>3, <1>4

\* The rectangles sent with the first rows.
Sent(r, n, f) ==
  f = [k \in 0..n |-> IF k = 0 THEN <<>> ELSE f[k - 1] \o RowRects(r[k])]
SentRows(r) == CHOOSE f : Sent(r, Len(r), f)

\* There are such sequences for any number of rows.
LEMMA SentExists ==
  ASSUME NEW r, NEW n \in Nat
  PROVE  \E f : Sent(r, n, f)
<1> DEFINE S == {m \in 0..n : \E f : Sent(r, m, f)}
<1>1. 0 \in S
  <2> DEFINE f == [k \in 0..0 |-> <<>>]
  <2>1. Sent(r, 0, f)
    BY DEF Sent
  <2> HIDE DEF f
  <2>2. QED BY <2>1
<1>2. ASSUME NEW m \in 0..n, m \in S, m < n PROVE m + 1 \in S
  <2>1. PICK f : Sent(r, m, f)
    BY <1>2
  <2>2. \A k \in 0..m : f[k] = IF k = 0 THEN <<>> ELSE f[k - 1] \o RowRects(r[k])
    BY <2>1 DEF Sent
  <2> DEFINE g == [k \in 0..(m + 1) |-> IF k = m + 1 THEN f[m] \o RowRects(r[m + 1]) ELSE f[k]]
             h == [k \in 0..(m + 1) |-> IF k = 0 THEN <<>> ELSE g[k - 1] \o RowRects(r[k])]
  <2>3. ASSUME NEW k \in 0..(m + 1) PROVE g[k] = h[k]
    <3>1. CASE k = m + 1
      <4>1. k # 0 /\ k - 1 = m /\ m \in 0..(m + 1) /\ m # m + 1
        BY <3>1
      <4>2. g[k] = f[m] \o RowRects(r[k]) /\ g[k - 1] = f[m]
        BY <3>1, <4>1
      <4>3. QED BY <4>1, <4>2
    <3>2. CASE k # m + 1
      <4>1. k \in 0..m
        BY <3>2
      <4>2. g[k] = f[k]
        BY <3>2
      <4>3. CASE k = 0
        BY <2>2, <4>1, <4>2, <4>3
      <4>4. CASE k # 0
        <5>1. k - 1 \in 0..(m + 1) /\ k - 1 # m + 1
          BY <4>1, <4>4
        <5>2. g[k - 1] = f[k - 1]
          BY <5>1
        <5> HIDE DEF g
        <5>3. QED BY <2>2, <4>1, <4>2, <4>4, <5>2
      <4>5. QED BY <4>3, <4>4
    <3>3. QED BY <3>1, <3>2
  <2>4. g = h
    <3>1. DOMAIN g = 0..(m + 1) /\ DOMAIN h = 0..(m + 1)
      OBVIOUS
    <3>2. QED BY <2>3
  <2>5. Sent(r, m + 1, g)
    BY <2>4 DEF Sent
  <2> HIDE DEF g
  <2>6. QED BY <1>2, <2>5
<1> HIDE DEF S
<1>3. 0..n \subseteq S
  BY <1>1, <1>2, UpTo
<1>4. n \in S
  BY <1>3
<1>5. QED BY <1>4 DEF S

\* What the recursive function of Rects is.
LEMMA SentIs ==
  ASSUME NEW r, Len(r) \in Nat
  PROVE  /\ Rects(r) = SentRows(r)[Len(r)]
         /\ SentRows(r)[0] = <<>>
         /\ \A k \in 1..Len(r) : SentRows(r)[k] = SentRows(r)[k - 1] \o RowRects(r[k])
<1>1. Rects(r) = SentRows(r)[Len(r)]
  BY Zenon DEF Rects, SentRows, Sent
<1> DEFINE f == SentRows(r)
<1>2. Sent(r, Len(r), f)
  BY SentExists DEF SentRows
<1> HIDE DEF f
<1>3. \A k \in 0..Len(r) : f[k] = IF k = 0 THEN <<>> ELSE f[k - 1] \o RowRects(r[k])
  BY <1>2 DEF Sent
<1>4. f[0] = <<>>
  BY <1>3
<1>5. ASSUME NEW k \in 1..Len(r) PROVE f[k] = f[k - 1] \o RowRects(r[k])
  <2>1. k \in 0..Len(r) /\ k # 0
    OBVIOUS
  <2>2. QED BY <1>3, <2>1
<1>6. QED BY <1>1, <1>4, <1>5 DEF f

\* q is in a sequence.
SeqHas(s, q) == \E m \in 1..Len(s) : s[m] = q

\* What is in two sequences, one after the other.
LEMMA ConcatHas ==
  ASSUME NEW S, NEW s \in Seq(S), NEW t \in Seq(S), NEW q
  PROVE  s \o t \in Seq(S) /\ (SeqHas(s \o t, q) <=> SeqHas(s, q) \/ SeqHas(t, q))
<1> DEFINE st == s \o t
<1>1. st \in Seq(S) /\ Len(st) = Len(s) + Len(t) /\ Len(s) \in Nat /\ Len(t) \in Nat
  OBVIOUS
<1>2. /\ \A m \in 1..Len(s) : m \in 1..Len(st) /\ st[m] = s[m]
      /\ \A m \in 1..Len(t) : m + Len(s) \in 1..Len(st) /\ st[m + Len(s)] = t[m]
      /\ \A m \in 1..Len(st) : \/ m \in 1..Len(s) /\ st[m] = s[m]
                               \/ m - Len(s) \in 1..Len(t) /\ st[m] = t[m - Len(s)]
  BY <1>1
<1> HIDE DEF st
<1>3. QED BY <1>1, <1>2 DEF SeqHas, st

Rectangles == [x1 : 0..Columns, x2 : 0..Columns, y1 : 0..Rows, y2 : 0..Rows]

\* The rectangles of a row.
LEMMA RowRectsAre ==
  ASSUME NEW d \in Spans(Rows, RowSubspans)
  PROVE  /\ RowRects(d) \in Seq(Rectangles) /\ Len(RowRects(d)) = Len(d.subspan)
         /\ \A c \in 1..Len(d.subspan) :
              /\ RowRects(d)[c].x1 = d.subspan[c].start /\ RowRects(d)[c].x2 = d.subspan[c].end
              /\ RowRects(d)[c].y1 = d.start /\ RowRects(d)[c].y2 = d.end
<1>0. Rows \in Nat /\ Columns \in Nat
  BY RegionAssumption
<1>1. d.subspan \in Lists(Columns, {NULL}) /\ d.start \in 0..Rows /\ d.end \in 0..Rows
  <2>1. d.subspan \in RowSubspans /\ d.start \in 0..Rows /\ d.end \in 0..Rows
    BY <1>0, SpanIs
  <2>2. QED BY <2>1 DEF RowSubspans, ColumnLists
<1> DEFINE sub == d.subspan
<1>2. /\ Len(sub) \in Nat
      /\ \A c \in 1..Len(sub) : sub[c].start \in 0..Columns /\ sub[c].end \in 0..Columns
  <2> HIDE DEF sub
  <2>1. Len(sub) \in Nat /\ \A c \in 1..Len(sub) : sub[c] \in Spans(Columns, {NULL})
    BY <1>0, <1>1, ListIs DEF sub
  <2>2. QED BY <1>0, <2>1, SpanIs
<1> HIDE DEF sub
<1> DEFINE rects == RowRects(d)
<1>3. rects = [c \in 1..Len(sub) |->
                [x1 |-> sub[c].start, x2 |-> sub[c].end, y1 |-> d.start, y2 |-> d.end]]
  BY DEF RowRects, sub
<1> HIDE DEF rects
<1>4. \A c \in 1..Len(sub) : rects[c] \in Rectangles
  BY <1>1, <1>2, <1>3 DEF Rectangles
<1>5. rects \in Seq(Rectangles) /\ Len(rects) = Len(sub)
  BY <1>2, <1>3, <1>4
<1>6. QED BY <1>3, <1>5 DEF rects, sub

\* The rectangles sent are those of the rows.
LEMMA RectsAre ==
  ASSUME NEW r \in RowLists
  PROVE  /\ Rects(r) \in Seq(Rectangles)
         /\ \A k \in 0..Len(r) : SentRows(r)[k] \in Seq(Rectangles)
         /\ \A q : SeqHas(Rects(r), q) <=> \E j \in 1..Len(r) : SeqHas(RowRects(r[j]), q)
<1>0. Rows \in Nat
  BY RegionAssumption
<1>1. Len(r) \in Nat /\ \A k \in 1..Len(r) : r[k] \in Spans(Rows, RowSubspans)
  BY <1>0, ListIs DEF RowLists
<1> DEFINE f == SentRows(r)
           rows(k) == RowRects(r[k])
<1>2. Rects(r) = f[Len(r)] /\ f[0] = <<>> /\ \A k \in 1..Len(r) : f[k] = f[k - 1] \o rows(k)
  BY <1>1, SentIs
<1>3. \A k \in 1..Len(r) : rows(k) \in Seq(Rectangles)
  BY <1>1, RowRectsAre
<1> HIDE DEF f, rows
<1> DEFINE Sound(k) == /\ f[k] \in Seq(Rectangles)
                       /\ \A q : SeqHas(f[k], q) <=> \E j \in 1..k : SeqHas(rows(j), q)
           S == {k \in 0..Len(r) : Sound(k)}
<1>4. 0 \in S
  <2>1. \A q : ~SeqHas(<<>>, q)
    BY DEF SeqHas
  <2>2. <<>> \in Seq(Rectangles) /\ 0 \in 0..Len(r) /\ \A j \in 1..0 : FALSE
    BY <1>1
  <2>3. Sound(0)
    BY <1>2, <2>1, <2>2
  <2>4. QED BY <2>2, <2>3
<1>5. ASSUME NEW k \in 0..Len(r), k \in S, k < Len(r) PROVE k + 1 \in S
  <2>1. /\ k + 1 \in 1..Len(r) /\ k + 1 \in 0..Len(r) /\ (k + 1) - 1 = k /\ k \in Nat
        /\ 1..(k + 1) = (1..k) \cup {k + 1}
    BY <1>1, <1>5
  <2>2. f[k + 1] = f[k] \o rows(k + 1) /\ rows(k + 1) \in Seq(Rectangles)
    BY <1>2, <1>3, <2>1
  <2>3. f[k] \in Seq(Rectangles) /\ \A q : SeqHas(f[k], q) <=> \E j \in 1..k : SeqHas(rows(j), q)
    BY <1>5
  <2>4. /\ f[k + 1] \in Seq(Rectangles)
        /\ \A q : SeqHas(f[k + 1], q) <=> SeqHas(f[k], q) \/ SeqHas(rows(k + 1), q)
    BY <2>2, <2>3, ConcatHas
  <2>5. \A q : SeqHas(f[k + 1], q) <=> \E j \in 1..(k + 1) : SeqHas(rows(j), q)
    BY <2>1, <2>3, <2>4
  <2>6. QED BY <2>1, <2>4, <2>5
<1>6. 0..Len(r) \subseteq S
  <2> HIDE DEF S
  <2> QED BY <1>1, <1>4, <1>5, UpTo
<1>7. \A k \in 0..Len(r) : Sound(k)
  BY <1>6
<1>8. Len(r) \in 0..Len(r)
  BY <1>1
<1>9. \A k \in 0..Len(r) : f[k] \in Seq(Rectangles)
  BY <1>7
<1>10. QED BY <1>2, <1>7, <1>8, <1>9 DEF rows, f

\* They cover exactly the points of the region.
LEMMA PixelsOfAre ==
  ASSUME NEW r \in RowLists
  PROVE  PixelsOf(r) = {p \in Grid : In(r, p[2], p[1])}
<1>0. Rows \in Nat /\ Columns \in Nat
  BY RegionAssumption
<1>1. Len(r) \in Nat /\ \A k \in 1..Len(r) : r[k] \in Spans(Rows, RowSubspans)
  BY <1>0, ListIs DEF RowLists
<1>2. ASSUME NEW p \in Grid, NEW k \in 1..Len(r)
      PROVE  Within(r[k], p[2], p[1]) <=> \E q : SeqHas(RowRects(r[k]), q) /\ p \in Area(q)
  <2> DEFINE d == r[k]
             sub == d.subspan
             rects == RowRects(d)
  <2>1. d \in Spans(Rows, RowSubspans)
    BY <1>1
  <2>2. sub \in ColumnLists
    BY <1>0, <2>1, SpanIs DEF RowSubspans
  <2>3. p[1] \in Nat
    BY <1>0 DEF Grid
  <2>4. Has(sub, p[1]) <=> \E c \in 1..Len(sub) : sub[c].start <= p[1] /\ p[1] < sub[c].end
    BY <2>2, ColumnsHave DEF Has
  <2>5. /\ Len(rects) = Len(sub)
        /\ \A c \in 1..Len(sub) : /\ rects[c].x1 = sub[c].start /\ rects[c].x2 = sub[c].end
                                  /\ rects[c].y1 = d.start /\ rects[c].y2 = d.end
    BY <2>1, RowRectsAre
  <2>6. Within(d, p[2], p[1]) <=> d.start <= p[2] /\ p[2] < d.end /\ Has(sub, p[1])
    BY DEF Within
  <2> HIDE DEF d, sub, rects
  <2>7. ASSUME NEW c \in 1..Len(sub)
        PROVE  p \in Area(rects[c]) <=> /\ sub[c].start <= p[1] /\ p[1] < sub[c].end
                                        /\ d.start <= p[2] /\ p[2] < d.end
    BY <2>5 DEF Area, Grid
  <2>8. Within(d, p[2], p[1]) <=> \E c \in 1..Len(sub) : p \in Area(rects[c])
    BY <2>4, <2>6, <2>7
  <2>9. (\E q : SeqHas(rects, q) /\ p \in Area(q)) <=> \E c \in 1..Len(sub) : p \in Area(rects[c])
    BY <2>5 DEF SeqHas
  <2>10. QED BY <2>8, <2>9 DEF rects, d
<1>3. \A q : q \in RectSet(r) <=> SeqHas(Rects(r), q)
  BY DEF RectSet, SeqHas
<1>4. \A q : q \in RectSet(r) <=> \E k \in 1..Len(r) : SeqHas(RowRects(r[k]), q)
  BY <1>3, RectsAre
<1>5. ASSUME NEW p \in Grid
      PROVE  p \in PixelsOf(r) <=> In(r, p[2], p[1])
  <2>1. p \in PixelsOf(r) <=> \E q : q \in RectSet(r) /\ p \in Area(q)
    BY DEF PixelsOf
  <2>2. QED BY <1>2, <1>4, <2>1 DEF In
<1>6. PixelsOf(r) \subseteq Grid
  BY DEF PixelsOf, Area, Grid
<1>7. QED BY <1>5, <1>6

\* Every rectangle of a region is as wide and as high as those created.
LEMMA RectsValid ==
  ASSUME NEW r \in RowLists, NEW q \in RectSet(r)
  PROVE  q \in Rectangles /\ q.x1 + MinSide <= q.x2 /\ q.y1 + MinSide <= q.y2
<1>0. Rows \in Nat /\ Columns \in Nat
  BY RegionAssumption
<1>1. SeqHas(Rects(r), q)
  BY DEF RectSet, SeqHas
<1>2. PICK j \in 1..Len(r) : SeqHas(RowRects(r[j]), q)
  BY <1>1, RectsAre
<1> DEFINE d == r[j]
           sub == d.subspan
           rects == RowRects(d)
<1>3. d \in Spans(Rows, RowSubspans)
  BY <1>0, ListIs DEF RowLists
<1> HIDE DEF d
<1>4. sub \in RowSubspans /\ d.start + MinSide <= d.end
  BY <1>0, <1>3, SpanIs
<1>5. sub \in Lists(Columns, {NULL})
  BY <1>4 DEF RowSubspans, ColumnLists
<1>6. /\ rects \in Seq(Rectangles) /\ Len(rects) = Len(sub)
      /\ \A c \in 1..Len(sub) : /\ rects[c].x1 = sub[c].start /\ rects[c].x2 = sub[c].end
                                /\ rects[c].y1 = d.start /\ rects[c].y2 = d.end
  BY <1>3, RowRectsAre
<1> HIDE DEF sub, rects
<1>7. PICK c \in 1..Len(sub) : rects[c] = q
  BY <1>2, <1>6 DEF SeqHas, rects, d
<1>8. sub[c] \in Spans(Columns, {NULL})
  BY <1>0, <1>5, ListIs
<1>9. sub[c].start + MinSide <= sub[c].end
  BY <1>0, <1>8, SpanIs
<1>10. QED BY <1>4, <1>6, <1>7, <1>9

\* The bounding box reaches from the least to the greatest coordinates.
Box(r) ==
  {b \in Rectangles :
     /\ \A q \in RectSet(r) : b.x1 <= q.x1 /\ q.x2 <= b.x2 /\ b.y1 <= q.y1 /\ q.y2 <= b.y2
     /\ b.x1 + MinSide <= b.x2 /\ b.y1 + MinSide <= b.y2}

\* least and most of sraRgnBBox find what they look for: the least,
LEMMA LeastIs ==
  ASSUME NEW k \in Nat, NEW N \in SUBSET (0..k), N # {}
  PROVE  LET a == CHOOSE a \in N : \A b \in N : a <= b
         IN a \in N /\ \A b \in N : a <= b
<1>1. N \in SUBSET Nat
  OBVIOUS
<1>2. PICK a \in N : \A b \in N : a <= b
  BY <1>1, LeastExists
<1>3. QED BY <1>2

\* and the greatest.
LEMMA MostIs ==
  ASSUME NEW k \in Nat, NEW N \in SUBSET (0..k), N # {}
  PROVE  LET a == CHOOSE a \in N : \A b \in N : a >= b
         IN a \in N /\ \A b \in N : a >= b
<1>1. PICK a \in N : \A b \in N : b <= a
  BY GreatestExists
<1>2. \A b \in N : a >= b
  BY <1>1
<1>3. QED BY <1>2

\* sraRgnBBox is such a box.
LEMMA BBoxIs ==
  ASSUME NEW r \in RowLists, RectSet(r) # {}
  PROVE  \E b \in Box(r) : sraRgnBBox(r) = sraRgnCreateRect(b.x1, b.y1, b.x2, b.y2)
<1>0. Rows \in Nat /\ Columns \in Nat
  BY RegionAssumption
<1> DEFINE least(N) == CHOOSE a \in N : \A b \in N : a <= b
           most(N) == CHOOSE a \in N : \A b \in N : a >= b
           X1 == {q.x1 : q \in RectSet(r)}
           X2 == {q.x2 : q \in RectSet(r)}
           Y1 == {q.y1 : q \in RectSet(r)}
           Y2 == {q.y2 : q \in RectSet(r)}
           b == [x1 |-> least(X1), x2 |-> most(X2), y1 |-> least(Y1), y2 |-> most(Y2)]
<1>1. sraRgnBBox(r) = sraRgnCreateRect(least(X1), least(Y1), most(X2), most(Y2))
  BY DEF sraRgnBBox
<1>2. \A q \in RectSet(r) : q \in Rectangles /\ q.x1 + MinSide <= q.x2 /\ q.y1 + MinSide <= q.y2
  BY RectsValid
<1>3. /\ X1 \in SUBSET (0..Columns) /\ X2 \in SUBSET (0..Columns) /\ X1 # {} /\ X2 # {}
      /\ Y1 \in SUBSET (0..Rows) /\ Y2 \in SUBSET (0..Rows) /\ Y1 # {} /\ Y2 # {}
  BY <1>2 DEF Rectangles
<1>4. \A q \in RectSet(r) : q.x1 \in X1 /\ q.x2 \in X2 /\ q.y1 \in Y1 /\ q.y2 \in Y2
  OBVIOUS
<1> HIDE DEF X1, X2, Y1, Y2
<1>5. /\ least(X1) \in X1 /\ \A v \in X1 : least(X1) <= v
      /\ least(Y1) \in Y1 /\ \A v \in Y1 : least(Y1) <= v
  BY <1>0, <1>3, LeastIs
<1>6. /\ most(X2) \in X2 /\ \A v \in X2 : most(X2) >= v
      /\ most(Y2) \in Y2 /\ \A v \in Y2 : most(Y2) >= v
  BY <1>0, <1>3, MostIs
<1> HIDE DEF least, most
<1>7. b \in Rectangles
  BY <1>3, <1>5, <1>6 DEF Rectangles
<1>8. ASSUME NEW q \in RectSet(r)
      PROVE  b.x1 <= q.x1 /\ q.x2 <= b.x2 /\ b.y1 <= q.y1 /\ q.y2 <= b.y2
  <2>1. /\ least(X1) <= q.x1 /\ most(X2) >= q.x2 /\ least(Y1) <= q.y1 /\ most(Y2) >= q.y2
    BY <1>4, <1>5, <1>6
  <2>2. /\ q.x2 \in Int /\ q.y2 \in Int /\ most(X2) \in Int /\ most(Y2) \in Int
    <3>1. X2 \subseteq Int /\ Y2 \subseteq Int
      BY <1>3
    <3>2. QED BY <1>4, <1>6, <3>1
  <2>3. QED BY <2>1, <2>2
<1>9. b.x1 + MinSide <= b.x2 /\ b.y1 + MinSide <= b.y2
  <2>1. PICK q \in RectSet(r) : TRUE
    OBVIOUS
  <2>2. q \in Rectangles /\ q.x1 + MinSide <= q.x2 /\ q.y1 + MinSide <= q.y2
    BY <1>2
  <2> HIDE DEF b
  <2>3. QED BY <1>7, <1>8, <2>2, RegionAssumption DEF Rectangles
<1>10. b \in Box(r)
  BY <1>7, <1>8, <1>9 DEF Box
<1>11. QED BY <1>1, <1>10

-----------------------------------------------------------------------------
(***************************************************************************)
(* The theorems                                                            *)
(***************************************************************************)

\* Whatever was created, united, intersected and subtracted, a region of
\* rfbregion.c contains exactly the pixels of the set it stands for.
THEOREM RegionIsItsSet == RegionSpec => []SetSemantics
<1>1. ASSUME RegionInv PROVE SetSemantics
  <2> SUFFICES ASSUME NEW i \in 1..2 PROVE PixelsOf(region[i]) = pixels[i]
    BY DEF SetSemantics
  <2>1. region[i] \in RowLists
    BY <1>1 DEF RegionInv, Regions
  <2>2. pixels[i] \in SUBSET Grid /\ \A p \in Grid : p \in pixels[i] <=> In(region[i], p[2], p[1])
    BY <1>1 DEF RegionInv, RegionPixels
  <2>3. PixelsOf(region[i]) = {p \in Grid : In(region[i], p[2], p[1])}
    BY <2>1, PixelsOfAre
  <2>4. QED BY <2>2, <2>3
<1>2. QED BY <1>1, RegionInvariant, PTL

\* The spans of a list, and those within each row, are in order and disjoint, and
\* no row is empty, rectangles of width or height 0 included: no pixel is sent twice,
\* and sraRgnIteratorNext finds a rectangle in every row it enters.
THEOREM RegionSpansInOrder == RegionSpec => []SpansOrdered
<1>1. ASSUME RegionInv PROVE SpansOrdered
  <2> SUFFICES ASSUME NEW i \in 1..2
               PROVE  /\ Ordered(region[i])
                      /\ \A k \in 1..Len(region[i]) :
                           region[i][k].subspan # <<>> /\ Ordered(region[i][k].subspan)
    BY DEF SpansOrdered
  <2>1. region[i] \in Lists(Rows, RowSubspans) /\ Rows \in Nat
    BY <1>1, RegionAssumption DEF RegionInv, Regions, RowLists
  <2>2. ASSUME NEW k \in 1..Len(region[i])
        PROVE  region[i][k].subspan \in RowSubspans
    BY <2>1, ListIs, SpanIs
  <2>3. QED BY <2>1, <2>2 DEF RowSubspans, ColumnLists, Lists
<1>2. QED BY <1>1, RegionInvariant, PTL

\* The bounding box that replaces a region of too many rectangles leaves out none
\* of its pixels.
THEOREM RegionBBoxCovers == RegionSpec => []BBoxCovers
<1>0. Rows \in Nat /\ Columns \in Nat
  BY RegionAssumption
<1>1. ASSUME RegionInv PROVE BBoxCovers
  <2> SUFFICES ASSUME NEW i \in 1..2, region[i] # <<>>
               PROVE  pixels[i] \subseteq PixelsOf(sraRgnBBox(region[i]))
    BY DEF BBoxCovers
  <2> DEFINE r == region[i]
  <2>1. r \in RowLists
    BY <1>1 DEF RegionInv, Regions
  <2>2. pixels[i] = PixelsOf(r) /\ pixels[i] \subseteq Grid
    <3>1. PixelsOf(r) = {p \in Grid : In(r, p[2], p[1])}
      BY <2>1, PixelsOfAre
    <3>2. QED BY <1>1, <3>1 DEF RegionInv, RegionPixels
  <2> HIDE DEF r
  <2>3. SUFFICES ASSUME NEW p \in pixels[i] PROVE p \in PixelsOf(sraRgnBBox(r))
    BY DEF r
  <2>4. PICK q \in RectSet(r) : p \in Area(q)
    BY <2>2 DEF PixelsOf
  <2>5. PICK b \in Box(r) : sraRgnBBox(r) = sraRgnCreateRect(b.x1, b.y1, b.x2, b.y2)
    BY <2>1, <2>4, BBoxIs
  <2>6. /\ b.x1 \in 0..Columns /\ b.x2 \in 0..Columns /\ b.y1 \in 0..Rows /\ b.y2 \in 0..Rows
        /\ b.x1 + MinSide <= b.x2 /\ b.y1 + MinSide <= b.y2
        /\ b.x1 <= q.x1 /\ q.x2 <= b.x2 /\ b.y1 <= q.y1 /\ q.y2 <= b.y2
        /\ q \in Rectangles
    BY <2>1, <2>4, RectsValid DEF Box, Rectangles
  <2>7. p \in Grid /\ b.x1 <= p[1] /\ p[1] < b.x2 /\ b.y1 <= p[2] /\ p[2] < b.y2
    <3>1. /\ p \in Grid /\ q.x1 <= p[1] /\ p[1] < q.x2 /\ q.y1 <= p[2] /\ p[2] < q.y2
      BY <2>4 DEF Area, Grid
    <3>2. p[1] \in Nat /\ p[2] \in Nat
      BY <1>0, <3>1 DEF Grid
    <3>3. q.x1 \in Nat /\ q.x2 \in Nat /\ q.y1 \in Nat /\ q.y2 \in Nat
      BY <1>0, <2>6 DEF Rectangles
    <3>4. b.x1 \in Nat /\ b.x2 \in Nat /\ b.y1 \in Nat /\ b.y2 \in Nat
      BY <1>0, <2>6
    <3>5. b.x1 <= p[1] /\ p[1] < b.x2
      BY <2>6, <3>1, <3>2, <3>3, <3>4
    <3>6. b.y1 <= p[2] /\ p[2] < b.y2
      BY <2>6, <3>1, <3>2, <3>3, <3>4
    <3>7. QED BY <3>1, <3>5, <3>6
  <2> DEFINE box == sraRgnCreateRect(b.x1, b.y1, b.x2, b.y2)
  <2>8. box \in RowLists /\ In(box, p[2], p[1])
    BY <2>6, <2>7, CreateRectIs
  <2> HIDE DEF box
  <2>9. p \in PixelsOf(box)
    BY <2>7, <2>8, PixelsOfAre
  <2>10. QED BY <2>5, <2>9 DEF box
<1>2. QED BY <1>1, RegionInvariant, PTL
=============================================================================
